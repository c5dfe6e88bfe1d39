---------------------------- MODULE StarsProofs ----------------------------
(***************************************************************************)
(* Every wallet is what its transactions add up to and none is overdrawn,  *)
(* for every set of accounts, forms and requests.  The inductive invariant *)
(* says what a transaction knows between its select_for_update and its     *)
(* commit: the amounts it read are still those of the rows.                *)
(***************************************************************************)
EXTENDS Stars, FiniteSetTheorems, WellFoundedInduction, TLAPS

\* What t read of the row of a is still true: t holds the row, or there was
\* none and nothing was read.
Holds(t, a, n) == IF task[t].had THEN lock[a] = t /\ n = wallet[a] ELSE n = 0

HeldSteps == {"debit2", "pay2", "credit2", "set2", "pay3"}

\* The rows the transaction of t has read.
HeldBy(t) ==
    /\ task[t].step \in {"debit2", "pay2"} => Holds(t, task[t].work.user, task[t].read)
    /\ task[t].step \in {"credit2", "set2"} => Holds(t, task[t].work.to, task[t].read)
    /\ task[t].step = "pay3" => /\ lock[task[t].work.user] = t
                                /\ task[t].read = wallet[task[t].work.user]
                                /\ task[t].read >= task[t].work.stars
                                /\ Holds(t, task[t].work.to, task[t].read2)

\* A submission works on a form, a transfer on an invoice.
WorkOf(t) ==
    /\ task[t].step \in {"load", "ask", "wait", "delete"} => task[t].work \in Kinds
    /\ task[t].step \in {"pay", "pay2", "pay3", "receipt"} => task[t].work \in Invoices

RowsHeld == \A t \in Tasks : HeldBy(t)
WorkIsForm == \A t \in Tasks : WorkOf(t)

\* Only rows are locked, and a wallet without one is empty.
NoRowIsEmpty ==
    \A a \in Accounts : a \notin rows => wallet[a] = 0 /\ lock[a] = NoTask

LedgerInv == TypeOK /\ RowsHeld /\ NoRowIsEmpty /\ WorkIsForm /\ LedgerBalanced

\* The parts of TypeOK.
MoneyOK ==
    /\ wallet \in [Accounts -> Int] /\ rows \subseteq Accounts
    /\ lock \in [Accounts -> Tasks \cup {NoTask}]
    /\ earned \in [Accounts -> Nat] /\ spent \in [Accounts -> Nat] /\ minted \in Int
StoreOK ==
    /\ form \in [FormIds -> Kinds \cup {NoKind}] /\ nextForm \in 1 .. (MaxForms + 1)
    /\ expired \subseteq FormIds /\ paid \subseteq Invoices /\ grants \in 0 .. MaxGrants
HistoryOK ==
    /\ payments \in [Invoices -> Nat] /\ doubtful \subseteq Invoices
    /\ consent \subseteq Tasks /\ lost \in Nat
TasksOK ==
    /\ task \in [Tasks -> TaskStates]
    /\ \A t \in Tasks : task[t].step = "idle" <=> task[t].work = NoWork

-----------------------------------------------------------------------------
(* Types *)

\* TypeOK is the conjunction of its parts, now and after a step.
LEMMA TypeParts ==
    /\ TypeOK <=> MoneyOK /\ StoreOK /\ HistoryOK /\ TasksOK
    /\ TypeOK' <=> MoneyOK' /\ StoreOK' /\ HistoryOK' /\ TasksOK'
BY DEF TypeOK, MoneyOK, StoreOK, HistoryOK, TasksOK

\* bot_net_stars is a number of stars.
LEMMA NetIsNat == \A n \in Nat : BotNetStars(n) \in Nat
BY DEF BotNetStars

\* Forms are pieces of work, the idle task has none, bots do not pay themselves.
LEMMA WorkTypes ==
    /\ Kinds \subseteq Works
    /\ Invoices \subseteq Kinds
    /\ NoWork \notin Works
    /\ \A k \in Invoices : k.user # k.to
<1>1. Kinds \subseteq Works
  BY KindsAssumption DEF Works, Purposes
<1>2. Invoices \subseteq Kinds
  BY DEF Invoices
<1>3. NoWork \notin Works
  BY NamesAssumption DEF Works, NoWork
<1>4. \A k \in Invoices : k.user # k.to
  BY KindsAssumption DEF Invoices
<1> QED BY <1>1, <1>2, <1>3, <1>4

LEMMA IdleType ==
    IdleTask \in TaskStates /\ IdleTask.step = "idle" /\ IdleTask.work = NoWork
BY DEF IdleTask, TaskStates, TaskSteps, NoWork

\* A task that is not idle works for accounts.
LEMMA WorkFacts ==
    ASSUME TypeOK, NEW t \in Tasks, task[t].step # "idle"
    PROVE  /\ task[t] \in TaskStates
           /\ task[t].work \in Works /\ task[t].work # NoWork
           /\ task[t].work.user \in Accounts
           /\ task[t].work.to \in Accounts
           /\ task[t].work.stars \in Nat
<1>1. task[t].work \in Works /\ task[t] \in TaskStates
  BY DEF TypeOK, TaskStates
<1> QED BY <1>1, WorkTypes DEF Works

\* The ways in which a task's record changes.
LEMMA TaskUpdates ==
    ASSUME NEW r \in TaskStates, NEW x \in TaskSteps, NEW b \in BOOLEAN, NEW n \in Int
    PROVE  /\ [r EXCEPT !.step = x] \in TaskStates
           /\ [r EXCEPT !.step = x, !.future = b] \in TaskStates
           /\ [r EXCEPT !.future = b] \in TaskStates
           /\ [r EXCEPT !.step = x, !.had = b, !.read = n] \in TaskStates
           /\ [r EXCEPT !.step = x, !.had = b, !.read2 = n] \in TaskStates
           /\ [r EXCEPT !.step = x, !.read = n, !.had = b] \in TaskStates
           /\ [r EXCEPT !.step = x, !.read = n, !.read2 = n, !.had = b] \in TaskStates
<1>1. /\ [r EXCEPT !.step = x] \in TaskStates
      /\ [r EXCEPT !.future = b] \in TaskStates
      /\ [r EXCEPT !.step = x, !.future = b] \in TaskStates
  BY DEF TaskStates
<1>2. /\ [r EXCEPT !.step = x, !.had = b, !.read = n] \in TaskStates
      /\ [r EXCEPT !.step = x, !.had = b, !.read2 = n] \in TaskStates
  BY DEF TaskStates
<1>3. [r EXCEPT !.step = x, !.read = n, !.had = b] \in TaskStates
  BY DEF TaskStates
<1>4. [r EXCEPT !.step = x, !.read = n, !.read2 = n, !.had = b] \in TaskStates
  BY DEF TaskStates
<1> QED BY <1>1, <1>2, <1>3, <1>4

-----------------------------------------------------------------------------
(* The initial states *)

LEMMA LedgerInit == Init => LedgerInv
<1> SUFFICES ASSUME Init PROVE LedgerInv
  OBVIOUS
<1>1. \A t \in Tasks : task[t] = IdleTask
  BY DEF Init
<1>2. TypeOK
  <2>1. TasksOK
    BY <1>1, IdleType DEF Init, TasksOK
  <2> QED BY <2>1, StarsBoundsAssumption DEF Init, TypeOK, TasksOK, FormIds
<1>3. RowsHeld /\ WorkIsForm
  BY <1>1, IdleType DEF RowsHeld, WorkIsForm, HeldBy, WorkOf
<1>4. NoRowIsEmpty /\ LedgerBalanced
  BY DEF Init, NoRowIsEmpty, LedgerBalanced
<1> QED BY <1>2, <1>3, <1>4 DEF LedgerInv

-----------------------------------------------------------------------------
(* What a step of one task leaves of the others *)

\* A step of t that touches no row held by another task.
LEMMA OneTaskStep ==
    ASSUME LedgerInv, NEW t \in Tasks, NEW r \in TaskStates,
           task' = [task EXCEPT ![t] = r],
           r.step = "idle" <=> r.work = NoWork,
           MoneyOK', StoreOK', HistoryOK',
           \A a \in Accounts : lock[a] \notin {t, NoTask} =>
               lock'[a] = lock[a] /\ wallet'[a] = wallet[a],
           HeldBy(t)', WorkOf(t)', NoRowIsEmpty', LedgerBalanced'
    PROVE  LedgerInv'
<1>1. /\ TypeOK /\ RowsHeld /\ WorkIsForm
      /\ task \in [Tasks -> TaskStates]
  BY DEF LedgerInv, TypeOK
<1>2. task'[t] = r /\ \A s \in Tasks : s # t => task'[s] = task[s]
  BY <1>1
<1>3. TypeOK'
  <2>1. TasksOK'
    BY <1>1, <1>2 DEF TasksOK, TypeOK
  <2> QED BY <2>1, TypeParts
<1>4. RowsHeld'
  <2> SUFFICES ASSUME NEW s \in Tasks, s # t PROVE HeldBy(s)'
    BY DEF RowsHeld
  <2>1. CASE task[s].step = "idle"
    BY <2>1, <1>2 DEF HeldBy
  <2>2. CASE task[s].step # "idle"
    <3>1. task[s].work.user \in Accounts /\ task[s].work.to \in Accounts
      BY <1>1, <2>2, WorkFacts
    <3>2. HeldBy(s) /\ s # NoTask
      BY <1>1, NamesAssumption DEF RowsHeld
    <3> QED BY <1>2, <3>1, <3>2 DEF HeldBy, Holds
  <2> QED BY <2>1, <2>2
<1>5. WorkIsForm'
  BY <1>1, <1>2 DEF WorkIsForm, WorkOf
<1> QED BY <1>3, <1>4, <1>5 DEF LedgerInv

\* A step of t outside the transactions.
LEMMA QuietStep ==
    ASSUME LedgerInv, NEW t \in Tasks, NEW r \in TaskStates,
           task' = [task EXCEPT ![t] = r],
           r.step = "idle" <=> r.work = NoWork,
           UNCHANGED money, StoreOK', HistoryOK',
           r.step \notin HeldSteps, WorkOf(t)'
    PROVE  LedgerInv'
<1>1. MoneyOK'
  BY DEF LedgerInv, TypeOK, MoneyOK, money
<1>2. task'[t] = r
  BY DEF LedgerInv, TypeOK
<1>3. HeldBy(t)'
  BY <1>2 DEF HeldBy, HeldSteps
<1>4. NoRowIsEmpty' /\ LedgerBalanced'
  BY DEF LedgerInv, NoRowIsEmpty, LedgerBalanced, money
<1>5. \A a \in Accounts : lock'[a] = lock[a] /\ wallet'[a] = wallet[a]
  BY DEF money
<1> QED BY <1>1, <1>3, <1>4, <1>5, OneTaskStep

\* A request that ends outside the transactions.
LEMMA QuietEnd ==
    ASSUME LedgerInv, NEW t \in Tasks, Ends(t), UNCHANGED money, StoreOK',
           payments' \in [Invoices -> Nat], doubtful' \subseteq Invoices, lost' \in Nat
    PROVE  LedgerInv'
<1>1. task' = [task EXCEPT ![t] = IdleTask]
  BY DEF Ends
<1>2. HistoryOK'
  BY DEF Ends, HistoryOK, LedgerInv, TypeOK
<1>3. task'[t] = IdleTask
  BY <1>1 DEF LedgerInv, TypeOK
<1>4. IdleTask.step \notin HeldSteps /\ WorkOf(t)'
  BY <1>3, IdleType DEF HeldSteps, WorkOf
<1> QED BY <1>1, <1>2, <1>4, IdleType, QuietStep

-----------------------------------------------------------------------------
(* Submissions and the pre-checkout query *)

LEMMA InvoiceIsPaidStep == ASSUME LedgerInv, NEW t \in Tasks, InvoiceIsPaid(t) PROVE LedgerInv'
<1>1. TypeOK /\ WorkIsForm
  BY DEF LedgerInv
<1>2. StoreOK'
  BY <1>1 DEF InvoiceIsPaid, TypeOK, StoreOK, store, WorkIsForm, WorkOf
<1>3. payments' \in [Invoices -> Nat] /\ doubtful' \subseteq Invoices /\ lost' \in Nat
  BY <1>1 DEF InvoiceIsPaid, TypeOK
<1> QED BY <1>2, <1>3, QuietEnd DEF InvoiceIsPaid

LEMMA CheckExpiredStep == ASSUME LedgerInv, NEW t \in Tasks, CheckExpired(t) PROVE LedgerInv'
<1>1. TypeOK /\ WorkIsForm
  BY DEF LedgerInv
<1>2. StoreOK'
  BY <1>1 DEF CheckExpired, DropForm, TypeOK, StoreOK, store, WorkIsForm, WorkOf
<1>3. payments' \in [Invoices -> Nat] /\ doubtful' \subseteq Invoices /\ lost' \in Nat
  BY <1>1 DEF CheckExpired, TypeOK
<1> QED BY <1>2, <1>3, QuietEnd DEF CheckExpired

LEMMA PrecheckoutTimeoutStep == ASSUME LedgerInv, NEW t \in Tasks, PrecheckoutTimeout(t) PROVE LedgerInv'
<1>1. TypeOK /\ WorkIsForm
  BY DEF LedgerInv
<1>2. StoreOK'
  BY <1>1 DEF PrecheckoutTimeout, TypeOK, StoreOK, store, WorkIsForm, WorkOf
<1>3. payments' \in [Invoices -> Nat] /\ doubtful' \subseteq Invoices /\ lost' \in Nat
  BY <1>1 DEF PrecheckoutTimeout, TypeOK
<1> QED BY <1>2, <1>3, QuietEnd DEF PrecheckoutTimeout

LEMMA MarkPaidStep == ASSUME LedgerInv, NEW t \in Tasks, MarkPaid(t) PROVE LedgerInv'
<1>1. TypeOK /\ WorkIsForm
  BY DEF LedgerInv
<1>2. StoreOK'
  BY <1>1 DEF MarkPaid, TypeOK, StoreOK, store, WorkIsForm, WorkOf
<1>3. payments' \in [Invoices -> Nat] /\ doubtful' \subseteq Invoices /\ lost' \in Nat
  BY <1>1 DEF MarkPaid, TypeOK
<1> QED BY <1>2, <1>3, QuietEnd DEF MarkPaid

LEMMA CheckFormStep == ASSUME LedgerInv, NEW t \in Tasks, CheckForm(t) PROVE LedgerInv'
<1>1. TypeOK /\ WorkOf(t)
  BY DEF LedgerInv, WorkIsForm
<1>2. task[t] \in TaskStates /\ task[t].work # NoWork /\ task[t].work \in Works
  BY <1>1, WorkFacts DEF CheckForm
<1>3. StoreOK'
  BY <1>1, StarsBoundsAssumption DEF CheckForm, Goto, TypeOK, StoreOK, store
<1>4. CASE task[t].work.purpose = "invoice" /\ task[t].work.to \notin Builtin
  <2> DEFINE r == [task[t] EXCEPT !.step = "ask", !.future = TRUE]
  <2>1. r \in TaskStates
    BY <1>1, <1>2, TaskUpdates, <1>4 DEF TypeOK, TaskSteps
  <2>2. task' = [task EXCEPT ![t] = r]
    BY <1>1, <1>4 DEF CheckForm, Goto, TypeOK
  <2>3. r.step # "idle" /\ r.work # NoWork /\ r.step \notin HeldSteps /\ WorkOf(t)'
    BY <1>1, <1>2, <2>1, <2>2, <1>4, WorkTypes DEF CheckForm, Goto, HeldSteps, WorkOf, TypeOK, TaskStates, Invoices
  <2>4. HistoryOK' /\ UNCHANGED money
    BY <1>1, <1>4 DEF CheckForm, Goto, history, TypeOK, HistoryOK
  <2> QED BY <1>3, <2>1, <2>2, <2>3, <2>4, QuietStep
<1>5. CASE ~(task[t].work.purpose = "invoice" /\ task[t].work.to \notin Builtin)
  <2> DEFINE r == [task[t] EXCEPT !.step = "delete"]
  <2>1. r \in TaskStates
    BY <1>1, <1>2, TaskUpdates, <1>5 DEF TypeOK, TaskSteps
  <2>2. task' = [task EXCEPT ![t] = r]
    BY <1>1, <1>5 DEF CheckForm, Goto, TypeOK
  <2>3. r.step # "idle" /\ r.work # NoWork /\ r.step \notin HeldSteps /\ WorkOf(t)'
    BY <1>1, <1>2, <2>1, <2>2, <1>5, WorkTypes DEF CheckForm, Goto, HeldSteps, WorkOf, TypeOK, TaskStates, Invoices
  <2>4. HistoryOK' /\ UNCHANGED money
    BY <1>1, <1>5 DEF CheckForm, Goto, history, TypeOK, HistoryOK
  <2> QED BY <1>3, <2>1, <2>2, <2>3, <2>4, QuietStep
<1> QED BY <1>4, <1>5 DEF CheckForm, Goto

LEMMA AwaitAnswerStep == ASSUME LedgerInv, NEW t \in Tasks, AwaitAnswer(t) PROVE LedgerInv'
<1>1. TypeOK /\ WorkOf(t)
  BY DEF LedgerInv, WorkIsForm
<1>2. task[t] \in TaskStates /\ task[t].work # NoWork /\ task[t].work \in Works
  BY <1>1, WorkFacts DEF AwaitAnswer
<1>3. StoreOK'
  BY <1>1, StarsBoundsAssumption DEF AwaitAnswer, TypeOK, StoreOK, store
<1> DEFINE r == [task[t] EXCEPT !.step = "wait", !.future = TRUE]
<1>4. r \in TaskStates
  BY <1>1, <1>2, TaskUpdates DEF TypeOK, TaskSteps
<1>5. task' = [task EXCEPT ![t] = r]
  BY <1>1 DEF AwaitAnswer, TypeOK
<1>6. r.step # "idle" /\ r.work # NoWork /\ r.step \notin HeldSteps /\ WorkOf(t)'
  BY <1>1, <1>2, <1>4, <1>5, WorkTypes DEF AwaitAnswer, HeldSteps, WorkOf, TypeOK, TaskStates, Invoices
<1>7. HistoryOK' /\ UNCHANGED money
  BY <1>1 DEF AwaitAnswer, history, TypeOK, HistoryOK
<1> QED BY <1>3, <1>4, <1>5, <1>6, <1>7, QuietStep

LEMMA BotAnswersStep == ASSUME LedgerInv, NEW t \in Tasks, NEW success \in BOOLEAN, BotAnswers(t, success) PROVE LedgerInv'
<1>1. TypeOK /\ WorkOf(t)
  BY DEF LedgerInv, WorkIsForm
<1>2. task[t] \in TaskStates /\ task[t].work # NoWork /\ task[t].work \in Works
  BY <1>1, WorkFacts DEF BotAnswers
<1>3. StoreOK'
  BY <1>1, StarsBoundsAssumption DEF BotAnswers, TypeOK, StoreOK, store
<1>4. CASE task[t].step = "ask"
  <2> DEFINE r == [task[t] EXCEPT !.future = FALSE]
  <2>1. r \in TaskStates
    BY <1>1, <1>2, TaskUpdates, <1>4 DEF TypeOK, TaskSteps
  <2>2. task' = [task EXCEPT ![t] = r]
    BY <1>1, <1>4 DEF BotAnswers, TypeOK
  <2>3. r.step # "idle" /\ r.work # NoWork /\ r.step \notin HeldSteps /\ WorkOf(t)'
    BY <1>1, <1>2, <2>1, <2>2, <1>4, WorkTypes DEF BotAnswers, HeldSteps, WorkOf, TypeOK, TaskStates, Invoices
  <2>4. HistoryOK' /\ UNCHANGED money
    BY <1>1, <1>4 DEF BotAnswers, history, TypeOK, HistoryOK
  <2> QED BY <1>3, <2>1, <2>2, <2>3, <2>4, QuietStep
<1>5. CASE task[t].step = "wait" /\ success
  <2> DEFINE r == [task[t] EXCEPT !.step = "delete", !.future = FALSE]
  <2>1. r \in TaskStates
    BY <1>1, <1>2, TaskUpdates, <1>5 DEF TypeOK, TaskSteps
  <2>2. task' = [task EXCEPT ![t] = r]
    BY <1>1, <1>5 DEF BotAnswers, TypeOK
  <2>3. r.step # "idle" /\ r.work # NoWork /\ r.step \notin HeldSteps /\ WorkOf(t)'
    BY <1>1, <1>2, <2>1, <2>2, <1>5, WorkTypes DEF BotAnswers, HeldSteps, WorkOf, TypeOK, TaskStates, Invoices
  <2>4. HistoryOK' /\ UNCHANGED money
    BY <1>1, <1>5 DEF BotAnswers, history, TypeOK, HistoryOK
  <2> QED BY <1>3, <2>1, <2>2, <2>3, <2>4, QuietStep
<1>6. CASE task[t].step = "wait" /\ ~success
  <2> QED BY <1>1, <1>3, <1>6, QuietEnd DEF BotAnswers, TypeOK
<1> QED BY <1>4, <1>5, <1>6 DEF BotAnswers

LEMMA DeleteFormStep == ASSUME LedgerInv, NEW t \in Tasks, DeleteForm(t) PROVE LedgerInv'
<1> DEFINE x == AfterForm(task[t].work)
<1>1. TypeOK /\ WorkOf(t)
  BY DEF LedgerInv, WorkIsForm
<1>2. task[t] \in TaskStates /\ task[t].work # NoWork /\ task[t].work \in Kinds
  BY <1>1, WorkFacts DEF DeleteForm, WorkOf
<1>3. x \in {"idle", "credit", "debit", "open", "pay"} /\ (x = "pay" => task[t].work \in Invoices)
  BY <1>2, KindsAssumption DEF AfterForm, Invoices
<1>4. StoreOK'
  BY <1>1 DEF DeleteForm, DropForm, TypeOK, StoreOK
<1>5. CASE x = "idle"
  BY <1>1, <1>4, <1>5, QuietEnd DEF DeleteForm, TypeOK
<1>6. CASE x # "idle"
  <2> DEFINE r == [task[t] EXCEPT !.step = x]
  <2>1. x \in TaskSteps /\ x \notin HeldSteps
    BY <1>3 DEF TaskSteps, HeldSteps
  <2>2. r \in TaskStates /\ r.step = x /\ r.work = task[t].work
    BY <1>2, <2>1 DEF TaskStates
  <2> HIDE DEF x
  <2>3. task' = [task EXCEPT ![t] = r]
    BY <1>6 DEF DeleteForm, Goto, x
  <2>4. WorkOf(t)'
    BY <1>1, <1>2, <1>3, <2>2, <2>3 DEF WorkOf, TypeOK
  <2>5. HistoryOK' /\ UNCHANGED money
    BY <1>1, <1>6 DEF DeleteForm, TypeOK, HistoryOK, x
  <2> QED BY <1>2, <1>4, <1>6, <2>1, <2>2, <2>3, <2>4, <2>5, QuietStep
<1> QED BY <1>5, <1>6

LEMMA SubmitStep ==
    ASSUME LedgerInv, NEW t \in Tasks, NEW i \in FormIds, Submit(t, i)
    PROVE  LedgerInv'
<1> DEFINE w == form[i]
           r == [IdleTask EXCEPT !.step = "load", !.id = i, !.work = form[i]]
<1>1. TypeOK
  BY DEF LedgerInv
<1>2. w \in Works /\ w \in Kinds /\ i \in Nat
  BY <1>1, WorkTypes, StarsBoundsAssumption DEF Submit, TypeOK, FormIds
<1>3. r \in TaskStates /\ r.work = w /\ r.step = "load"
  BY <1>2, IdleType, WorkTypes DEF TaskStates, TaskSteps
<1>4. task' = [task EXCEPT ![t] = r]
  BY DEF Submit
<1>5. StoreOK'
  BY <1>1, StarsBoundsAssumption DEF Submit, TypeOK, StoreOK, store
<1>6. HistoryOK' /\ UNCHANGED money
  BY <1>1, <1>2 DEF Submit, history, TypeOK, HistoryOK
<1>7. r.step # "idle" /\ r.work # NoWork /\ r.step \notin HeldSteps /\ WorkOf(t)'
  BY <1>1, <1>2, <1>3, <1>4, WorkTypes DEF HeldSteps, WorkOf, TypeOK
<1> QED BY <1>3, <1>4, <1>5, <1>6, <1>7, QuietStep

-----------------------------------------------------------------------------
(* Grants and settings *)

LEMMA GrantStarsStep ==
    ASSUME LedgerInv, NEW t \in Tasks, NEW a \in Users, NEW n \in Amounts, GrantStars(t, a, n)
    PROVE  LedgerInv'
<1> DEFINE w == [NoWork EXCEPT !.user = a, !.to = a, !.stars = n]
           r == [IdleTask EXCEPT !.step = "credit", !.work = [NoWork EXCEPT !.user = a, !.to = a, !.stars = n]]
<1>1. TypeOK
  BY DEF LedgerInv
<1>2. w \in Works
  BY NamesAssumption, StarsBoundsAssumption DEF NoWork, Works, Purposes
<1>3. r \in TaskStates /\ r.work = w /\ r.step = "credit"
  BY <1>2, IdleType, WorkTypes DEF TaskStates, TaskSteps
<1>4. task' = [task EXCEPT ![t] = r]
  BY DEF GrantStars
<1>5. StoreOK'
  BY <1>1, StarsBoundsAssumption DEF GrantStars, TypeOK, StoreOK, store
<1>6. HistoryOK' /\ UNCHANGED money
  BY <1>1, <1>2 DEF GrantStars, history, TypeOK, HistoryOK
<1>7. r.step # "idle" /\ r.work # NoWork /\ r.step \notin HeldSteps /\ WorkOf(t)'
  BY <1>1, <1>2, <1>3, <1>4, WorkTypes DEF HeldSteps, WorkOf, TypeOK
<1> QED BY <1>3, <1>4, <1>5, <1>6, <1>7, QuietStep

LEMMA SetStarsBalanceStep ==
    ASSUME LedgerInv, NEW t \in Tasks, NEW a \in Users, NEW n \in Amounts, SetStarsBalance(t, a, n)
    PROVE  LedgerInv'
<1> DEFINE w == [NoWork EXCEPT !.purpose = "set", !.user = a, !.to = a, !.stars = n]
           r == [IdleTask EXCEPT !.step = "set", !.work = [NoWork EXCEPT !.purpose = "set", !.user = a, !.to = a, !.stars = n]]
<1>1. TypeOK
  BY DEF LedgerInv
<1>2. w \in Works
  BY NamesAssumption, StarsBoundsAssumption DEF NoWork, Works, Purposes
<1>3. r \in TaskStates /\ r.work = w /\ r.step = "set"
  BY <1>2, IdleType, WorkTypes DEF TaskStates, TaskSteps
<1>4. task' = [task EXCEPT ![t] = r]
  BY DEF SetStarsBalance
<1>5. StoreOK'
  BY <1>1, StarsBoundsAssumption DEF SetStarsBalance, TypeOK, StoreOK, store
<1>6. HistoryOK' /\ UNCHANGED money
  BY <1>1, <1>2 DEF SetStarsBalance, history, TypeOK, HistoryOK
<1>7. r.step # "idle" /\ r.work # NoWork /\ r.step \notin HeldSteps /\ WorkOf(t)'
  BY <1>1, <1>2, <1>3, <1>4, WorkTypes DEF HeldSteps, WorkOf, TypeOK
<1> QED BY <1>3, <1>4, <1>5, <1>6, <1>7, QuietStep

-----------------------------------------------------------------------------
(* Transactions *)

\* The first select_for_update of a transaction.
LEMMA SelectStep ==
    ASSUME LedgerInv, NEW t \in Tasks, NEW a \in Accounts, NEW x \in HeldSteps,
           SelectForUpdate(t, a, x),
           task[t].step # "idle",
           \/ x \in {"debit2", "pay2"} /\ a = task[t].work.user
           \/ x \in {"credit2", "set2"} /\ a = task[t].work.to,
           x = "pay2" => task[t].work \in Invoices,
           UNCHANGED <<wallet, rows, earned, spent, minted, store, history>>
    PROVE  LedgerInv'
<1> DEFINE r == [task[t] EXCEPT !.step = x, !.had = (a \in rows), !.read = wallet[a]]
<1>1. TypeOK /\ NoRowIsEmpty /\ LedgerBalanced
  BY DEF LedgerInv
<1>2. task[t] \in TaskStates /\ task[t].work # NoWork /\ wallet[a] \in Int
  BY <1>1, WorkFacts DEF TypeOK
<1>3. r \in TaskStates
  <2>1. x \in TaskSteps
    BY DEF HeldSteps, TaskSteps
  <2>2. (a \in rows) \in BOOLEAN
    OBVIOUS
  <2> QED BY <1>2, <2>1, <2>2, TaskUpdates
<1>4. task' = [task EXCEPT ![t] = r]
  BY <1>1 DEF SelectForUpdate, TypeOK
<1>5. /\ task'[t].step = x /\ task'[t].work = task[t].work
      /\ task'[t].had <=> a \in rows
      /\ task'[t].read = wallet[a]
  BY <1>1, <1>2, <1>4 DEF TypeOK, TaskStates
<1>6. MoneyOK' /\ StoreOK' /\ HistoryOK'
  BY <1>1 DEF SelectForUpdate, TypeOK, MoneyOK, StoreOK, HistoryOK, store, history
<1>7. \A c \in Accounts : lock[c] \notin {t, NoTask} => lock'[c] = lock[c] /\ wallet'[c] = wallet[c]
  BY <1>1 DEF SelectForUpdate, TypeOK
<1>8. HeldBy(t)' /\ WorkOf(t)'
  BY <1>1, <1>5 DEF SelectForUpdate, TypeOK, HeldBy, WorkOf, Holds, NoRowIsEmpty, HeldSteps
<1>9. NoRowIsEmpty' /\ LedgerBalanced'
  BY <1>1 DEF SelectForUpdate, TypeOK, NoRowIsEmpty, LedgerBalanced
<1>10. r.step # "idle" /\ r.work # NoWork
  BY <1>2 DEF HeldSteps, TaskStates
<1> QED BY <1>3, <1>4, <1>6, <1>7, <1>8, <1>9, <1>10, OneTaskStep

\* A transaction that ends with its request, committed or not.
LEMMA TransactionEnds ==
    ASSUME LedgerInv, NEW t \in Tasks, Ends(t), lock' = Unlocked(t),
           MoneyOK', StoreOK',
           payments' \in [Invoices -> Nat], doubtful' \subseteq Invoices, lost' \in Nat,
           \A a \in Accounts : lock[a] \notin {t, NoTask} => wallet'[a] = wallet[a],
           NoRowIsEmpty', LedgerBalanced'
    PROVE  LedgerInv'
<1>1. task' = [task EXCEPT ![t] = IdleTask]
  BY DEF Ends
<1>2. HistoryOK'
  BY DEF Ends, HistoryOK, LedgerInv, TypeOK
<1>3. task'[t] = IdleTask
  BY <1>1 DEF LedgerInv, TypeOK
<1>4. HeldBy(t)' /\ WorkOf(t)'
  BY <1>3, IdleType DEF HeldBy, WorkOf
<1>5. \A a \in Accounts : lock[a] \notin {t, NoTask} => lock'[a] = lock[a]
  BY DEF Unlocked
<1> QED BY <1>1, <1>2, <1>4, <1>5, IdleType, OneTaskStep

LEMMA DebitBeginsStep == ASSUME LedgerInv, NEW t \in Tasks, DebitBegins(t) PROVE LedgerInv'
<1>1. TypeOK /\ WorkOf(t)
  BY DEF LedgerInv, WorkIsForm
<1>2. task[t].step # "idle" /\ task[t].work.user \in Accounts
  BY <1>1, WorkFacts DEF DebitBegins
<1> QED BY <1>1, <1>2, SelectStep DEF DebitBegins, HeldSteps, WorkOf

LEMMA CreditBeginsStep == ASSUME LedgerInv, NEW t \in Tasks, CreditBegins(t) PROVE LedgerInv'
<1>1. TypeOK /\ WorkOf(t)
  BY DEF LedgerInv, WorkIsForm
<1>2. task[t].step # "idle" /\ task[t].work.to \in Accounts
  BY <1>1, WorkFacts DEF CreditBegins
<1> QED BY <1>1, <1>2, SelectStep DEF CreditBegins, HeldSteps, WorkOf

LEMMA PayBeginsStep == ASSUME LedgerInv, NEW t \in Tasks, PayBegins(t) PROVE LedgerInv'
<1>1. TypeOK /\ WorkOf(t)
  BY DEF LedgerInv, WorkIsForm
<1>2. task[t].step # "idle" /\ task[t].work.user \in Accounts
  BY <1>1, WorkFacts DEF PayBegins
<1> QED BY <1>1, <1>2, SelectStep DEF PayBegins, HeldSteps, WorkOf

LEMMA SetBeginsStep == ASSUME LedgerInv, NEW t \in Tasks, SetBegins(t) PROVE LedgerInv'
<1>1. TypeOK /\ WorkOf(t)
  BY DEF LedgerInv, WorkIsForm
<1>2. task[t].step # "idle" /\ task[t].work.to \in Accounts
  BY <1>1, WorkFacts DEF SetBegins
<1> QED BY <1>1, <1>2, SelectStep DEF SetBegins, HeldSteps, WorkOf

LEMMA CreditCommitsStep == ASSUME LedgerInv, NEW t \in Tasks, CreditCommits(t) PROVE LedgerInv'
<1> DEFINE w == task[t].work
<1>1. TypeOK /\ HeldBy(t) /\ NoRowIsEmpty /\ LedgerBalanced
  BY DEF LedgerInv, RowsHeld
<1>2. /\ w.to \in Accounts /\ w.stars \in Nat /\ task[t] \in TaskStates
      /\ task[t].read \in Int
  BY <1>1, WorkFacts DEF CreditCommits, TaskStates
<1>3. task[t].read = wallet[w.to] /\ lock[w.to] \in {t, NoTask}
  BY <1>1, <1>2 DEF CreditCommits, HeldBy, Holds, RowIsMine, NoRowIsEmpty
<1>4. MoneyOK' /\ StoreOK'
  BY <1>1, <1>2 DEF CreditCommits, TypeOK, MoneyOK, StoreOK, store, Unlocked
<1>5. payments' \in [Invoices -> Nat] /\ doubtful' \subseteq Invoices /\ lost' \in Nat
  BY <1>1 DEF CreditCommits, TypeOK
<1>6. \A a \in Accounts : lock[a] \notin {t, NoTask} => wallet'[a] = wallet[a]
  BY <1>1, <1>3 DEF CreditCommits, TypeOK
<1>7. NoRowIsEmpty'
  BY <1>1, <1>2 DEF CreditCommits, TypeOK, NoRowIsEmpty, Unlocked
<1>8. LedgerBalanced'
  <2> SUFFICES ASSUME NEW a \in Accounts
               PROVE  wallet'[a] = earned'[a] - spent'[a] /\ wallet'[a] >= 0
    BY DEF LedgerBalanced
  <2>1. CASE a = w.to
    BY <2>1, <1>1, <1>2, <1>3 DEF CreditCommits, TypeOK, LedgerBalanced
  <2>2. CASE a # w.to
    BY <2>2, <1>1 DEF CreditCommits, TypeOK, LedgerBalanced
  <2> QED BY <2>1, <2>2
<1> QED BY <1>4, <1>5, <1>6, <1>7, <1>8, TransactionEnds DEF CreditCommits

LEMMA SetCommitsStep == ASSUME LedgerInv, NEW t \in Tasks, SetCommits(t) PROVE LedgerInv'
<1> DEFINE w == task[t].work
<1>1. TypeOK /\ HeldBy(t) /\ NoRowIsEmpty /\ LedgerBalanced
  BY DEF LedgerInv, RowsHeld
<1>2. /\ w.to \in Accounts /\ w.stars \in Nat /\ task[t] \in TaskStates
      /\ task[t].read \in Int
  BY <1>1, WorkFacts DEF SetCommits, TaskStates
<1>3. task[t].read = wallet[w.to] /\ lock[w.to] \in {t, NoTask}
  BY <1>1, <1>2 DEF SetCommits, HeldBy, Holds, RowIsMine, NoRowIsEmpty
<1>4. MoneyOK' /\ StoreOK'
  BY <1>1, <1>2 DEF SetCommits, TypeOK, MoneyOK, StoreOK, store, Unlocked
<1>5. payments' \in [Invoices -> Nat] /\ doubtful' \subseteq Invoices /\ lost' \in Nat
  BY <1>1 DEF SetCommits, TypeOK
<1>6. \A a \in Accounts : lock[a] \notin {t, NoTask} => wallet'[a] = wallet[a]
  BY <1>1, <1>3 DEF SetCommits, TypeOK
<1>7. NoRowIsEmpty'
  BY <1>1, <1>2 DEF SetCommits, TypeOK, NoRowIsEmpty, Unlocked
<1>8. LedgerBalanced'
  <2> SUFFICES ASSUME NEW a \in Accounts
               PROVE  wallet'[a] = earned'[a] - spent'[a] /\ wallet'[a] >= 0
    BY DEF LedgerBalanced
  <2>1. CASE a = w.to
    BY <2>1, <1>1, <1>2, <1>3 DEF SetCommits, TypeOK, LedgerBalanced
  <2>2. CASE a # w.to
    BY <2>2, <1>1 DEF SetCommits, TypeOK, LedgerBalanced
  <2> QED BY <2>1, <2>2
<1> QED BY <1>4, <1>5, <1>6, <1>7, <1>8, TransactionEnds DEF SetCommits

LEMMA PayTooLowStep == ASSUME LedgerInv, NEW t \in Tasks, PayTooLow(t) PROVE LedgerInv'
<1>1. TypeOK /\ WorkOf(t) /\ NoRowIsEmpty /\ LedgerBalanced
  BY DEF LedgerInv, WorkIsForm
<1>2. task[t].work.stars \in Nat
  BY <1>1, WorkFacts DEF PayTooLow
<1>3. MoneyOK' /\ StoreOK'
  BY <1>1 DEF PayTooLow, TypeOK, MoneyOK, StoreOK, store, Unlocked
<1>4. payments' \in [Invoices -> Nat] /\ doubtful' \subseteq Invoices /\ lost' \in Nat
  BY <1>1, <1>2 DEF PayTooLow, TypeOK, WorkOf
<1>5. \A a \in Accounts : wallet'[a] = wallet[a]
  BY DEF PayTooLow
<1>6. NoRowIsEmpty' /\ LedgerBalanced'
  BY <1>1 DEF PayTooLow, TypeOK, NoRowIsEmpty, LedgerBalanced, Unlocked
<1> QED BY <1>3, <1>4, <1>5, <1>6, TransactionEnds DEF PayTooLow

LEMMA RollbackStep == ASSUME LedgerInv, NEW t \in Tasks, task[t].step # "idle", Rollback(t) PROVE LedgerInv'
<1>1. TypeOK /\ WorkOf(t) /\ NoRowIsEmpty /\ LedgerBalanced
  BY DEF LedgerInv, WorkIsForm
<1>2. task[t].work.stars \in Nat
  BY <1>1, WorkFacts DEF Rollback
<1>3. MoneyOK' /\ StoreOK'
  BY <1>1 DEF Rollback, TypeOK, MoneyOK, StoreOK, store, Unlocked
<1>4. payments' \in [Invoices -> Nat] /\ doubtful' \subseteq Invoices /\ lost' \in Nat
  BY <1>1, <1>2 DEF Rollback, TypeOK, WorkOf
<1>5. \A a \in Accounts : wallet'[a] = wallet[a]
  BY DEF Rollback
<1>6. NoRowIsEmpty' /\ LedgerBalanced'
  BY <1>1 DEF Rollback, TypeOK, NoRowIsEmpty, LedgerBalanced, Unlocked
<1> QED BY <1>3, <1>4, <1>5, <1>6, TransactionEnds DEF Rollback

LEMMA OpenPayerWalletStep == ASSUME LedgerInv, NEW t \in Tasks, OpenPayerWallet(t) PROVE LedgerInv'
<1> DEFINE r == [task[t] EXCEPT !.step = "credit"]
<1>1. TypeOK /\ NoRowIsEmpty /\ LedgerBalanced
  BY DEF LedgerInv
<1>2. /\ task[t] \in TaskStates /\ task[t].work # NoWork
      /\ task[t].work.user \in Accounts
  BY <1>1, WorkFacts DEF OpenPayerWallet
<1>3. r \in TaskStates /\ r.step = "credit" /\ r.work = task[t].work
  BY <1>2 DEF TaskStates, TaskSteps
<1>4. task' = [task EXCEPT ![t] = r] /\ task'[t] = r
  BY <1>1 DEF OpenPayerWallet, Goto, TypeOK
<1>5. MoneyOK' /\ StoreOK' /\ HistoryOK'
  BY <1>1, <1>2 DEF OpenPayerWallet, TypeOK, MoneyOK, StoreOK, HistoryOK, store, history
<1>6. HeldBy(t)' /\ WorkOf(t)'
  BY <1>3, <1>4 DEF HeldBy, WorkOf
<1>7. \A a \in Accounts : lock'[a] = lock[a] /\ wallet'[a] = wallet[a]
  BY DEF OpenPayerWallet
<1>8. NoRowIsEmpty' /\ LedgerBalanced'
  BY <1>1 DEF OpenPayerWallet, NoRowIsEmpty, LedgerBalanced
<1> QED BY <1>2, <1>3, <1>4, <1>5, <1>6, <1>7, <1>8, OneTaskStep

LEMMA DebitCommitsStep == ASSUME LedgerInv, NEW t \in Tasks, DebitCommits(t) PROVE LedgerInv'
<1> DEFINE w == task[t].work
<1>1. TypeOK /\ HeldBy(t) /\ NoRowIsEmpty /\ LedgerBalanced
  BY DEF LedgerInv, RowsHeld
<1>2. /\ w.user \in Accounts /\ w.stars \in Nat /\ task[t] \in TaskStates
      /\ w # NoWork /\ task[t].read \in Int
  BY <1>1, WorkFacts DEF DebitCommits, TaskStates
<1>3. MoneyOK' /\ StoreOK'
  BY <1>1, <1>2 DEF DebitCommits, TypeOK, MoneyOK, StoreOK, store, Unlocked
<1>4. payments' \in [Invoices -> Nat] /\ doubtful' \subseteq Invoices /\ lost' \in Nat
  BY <1>1 DEF DebitCommits, TypeOK
<1>5. CASE TooLow(t)
  <2>1. \A a \in Accounts : wallet'[a] = wallet[a]
    BY <1>5 DEF DebitCommits
  <2>2. NoRowIsEmpty' /\ LedgerBalanced'
    BY <1>1, <1>5 DEF DebitCommits, TypeOK, NoRowIsEmpty, LedgerBalanced, Unlocked
  <2> QED BY <1>3, <1>4, <1>5, <2>1, <2>2, TransactionEnds DEF DebitCommits
<1>6. CASE ~TooLow(t)
  <2> DEFINE r == [task[t] EXCEPT !.step = "credit", !.read = 0, !.had = FALSE]
  <2>1. lock[w.user] = t /\ task[t].read = wallet[w.user] /\ task[t].read >= w.stars
    BY <1>1, <1>2, <1>6 DEF DebitCommits, HeldBy, Holds, TooLow
  <2>2. r \in TaskStates /\ r.step = "credit" /\ r.work = w
    <3>1. "credit" \in TaskSteps /\ 0 \in Int /\ FALSE \in BOOLEAN
      BY DEF TaskSteps
    <3>2. r \in TaskStates
      BY <1>2, <3>1, TaskUpdates
    <3> QED BY <1>2, <3>2 DEF TaskStates
  <2>3. task' = [task EXCEPT ![t] = r] /\ task'[t] = r
    BY <1>1, <1>6 DEF DebitCommits, TypeOK
  <2>4. HistoryOK'
    BY <1>1, <1>4, <1>6 DEF DebitCommits, HistoryOK, TypeOK
  <2>5. HeldBy(t)' /\ WorkOf(t)'
    BY <2>2, <2>3 DEF HeldBy, WorkOf
  <2>6. \A a \in Accounts : lock[a] \notin {t, NoTask} => lock'[a] = lock[a] /\ wallet'[a] = wallet[a]
    BY <1>1, <1>6, <2>1 DEF DebitCommits, TypeOK, Unlocked
  <2>7. NoRowIsEmpty'
    BY <1>1, <1>2, <1>6, <2>1, NamesAssumption DEF DebitCommits, TypeOK, NoRowIsEmpty, Unlocked
  <2>8. LedgerBalanced'
    BY <1>1, <1>2, <1>6, <2>1 DEF DebitCommits, TypeOK, LedgerBalanced
  <2> QED BY <1>2, <1>3, <2>2, <2>3, <2>4, <2>5, <2>6, <2>7, <2>8, OneTaskStep
<1> QED BY <1>5, <1>6

\* The second select_for_update of a transfer.
LEMMA PaySelectsStep == ASSUME LedgerInv, NEW t \in Tasks, PaySelects(t) PROVE LedgerInv'
<1> DEFINE w == task[t].work
           r == [task[t] EXCEPT !.step = "pay3", !.had = (w.to \in rows), !.read2 = wallet[w.to]]
<1>1. TypeOK /\ HeldBy(t) /\ WorkOf(t) /\ NoRowIsEmpty /\ LedgerBalanced
  BY DEF LedgerInv, RowsHeld, WorkIsForm
<1>2. /\ w.user \in Accounts /\ w.to \in Accounts /\ w.stars \in Nat
      /\ task[t] \in TaskStates /\ w # NoWork /\ w \in Invoices /\ w.user # w.to
      /\ wallet[w.to] \in Int
  BY <1>1, WorkFacts, WorkTypes DEF PaySelects, WorkOf, TypeOK
<1>3. lock[w.user] = t /\ task[t].read = wallet[w.user] /\ ~(task[t].read < w.stars)
  BY <1>1, <1>2 DEF PaySelects, HeldBy, Holds, TooLow
<1>4. r \in TaskStates
  <2>1. "pay3" \in TaskSteps
    BY DEF TaskSteps
  <2>2. (w.to \in rows) \in BOOLEAN
    OBVIOUS
  <2> QED BY <1>2, <2>1, <2>2, TaskUpdates
<1>5. task' = [task EXCEPT ![t] = r]
  BY <1>1 DEF PaySelects, TypeOK
<1>6. /\ task'[t].step = "pay3" /\ task'[t].work = w
      /\ task'[t].had <=> w.to \in rows
      /\ task'[t].read = task[t].read /\ task'[t].read2 = wallet[w.to]
  BY <1>1, <1>2, <1>5 DEF TypeOK, TaskStates
<1>7. MoneyOK' /\ StoreOK' /\ HistoryOK'
  BY <1>1 DEF PaySelects, TypeOK, MoneyOK, StoreOK, HistoryOK, store, history
<1>8. \A a \in Accounts : lock[a] \notin {t, NoTask} => lock'[a] = lock[a] /\ wallet'[a] = wallet[a]
  BY <1>1 DEF PaySelects, TypeOK
<1>9. HeldBy(t)' /\ WorkOf(t)'
  <2>1. lock'[w.user] = t /\ wallet' = wallet
    BY <1>1, <1>2, <1>3 DEF PaySelects, TypeOK
  <2>2. (w.to \in rows => lock'[w.to] = t) /\ (w.to \notin rows => wallet[w.to] = 0)
    BY <1>1, <1>2 DEF PaySelects, TypeOK, NoRowIsEmpty
  <2>3. task[t].read \in Int
    BY <1>2 DEF TaskStates
  <2> QED BY <1>2, <1>3, <1>6, <2>1, <2>2, <2>3 DEF HeldBy, WorkOf, Holds
<1>10. NoRowIsEmpty' /\ LedgerBalanced'
  BY <1>1 DEF PaySelects, TypeOK, NoRowIsEmpty, LedgerBalanced
<1>11. r.step # "idle" /\ r.work # NoWork
  BY <1>2 DEF TaskStates
<1> QED BY <1>4, <1>5, <1>7, <1>8, <1>9, <1>10, <1>11, OneTaskStep

LEMMA PayCommitsStep == ASSUME LedgerInv, NEW t \in Tasks, PayCommits(t) PROVE LedgerInv'
<1> DEFINE w == task[t].work
           net == BotNetStars(w.stars)
           r == [task[t] EXCEPT !.step = "receipt", !.read = 0, !.read2 = 0, !.had = FALSE]
<1>1. TypeOK /\ HeldBy(t) /\ WorkOf(t) /\ NoRowIsEmpty /\ LedgerBalanced
  BY DEF LedgerInv, RowsHeld, WorkIsForm
<1>2. /\ w.user \in Accounts /\ w.to \in Accounts /\ w.stars \in Nat
      /\ task[t] \in TaskStates /\ w # NoWork /\ w \in Invoices /\ w.user # w.to
      /\ task[t].read \in Int /\ task[t].read2 \in Int
  BY <1>1, WorkFacts, WorkTypes DEF PayCommits, WorkOf, TaskStates
<1>3. net \in Nat
  BY <1>2, NetIsNat
<1> HIDE DEF net
<1>4. /\ lock[w.user] = t /\ task[t].read = wallet[w.user] /\ task[t].read >= w.stars
      /\ lock[w.to] \in {t, NoTask} /\ task[t].read2 = wallet[w.to]
  BY <1>1, <1>2 DEF PayCommits, HeldBy, Holds, RowIsMine, NoRowIsEmpty
<1>5. /\ wallet' = [wallet EXCEPT ![w.user] = task[t].read - w.stars,
                                  ![w.to] = task[t].read2 + net]
      /\ spent' = [spent EXCEPT ![w.user] = @ + w.stars]
      /\ earned' = [earned EXCEPT ![w.to] = @ + net]
      /\ rows' = rows \cup {w.to}
      /\ minted' = minted - (w.stars - net)
      /\ lock' = Unlocked(t)
  BY DEF PayCommits, net
<1>6. r \in TaskStates /\ r.step = "receipt" /\ r.work = w
  <2>1. "receipt" \in TaskSteps /\ 0 \in Int /\ FALSE \in BOOLEAN
    BY DEF TaskSteps
  <2>2. r \in TaskStates
    BY <1>2, <2>1, TaskUpdates
  <2> QED BY <1>2, <2>2 DEF TaskStates
<1>7. task' = [task EXCEPT ![t] = r] /\ task'[t] = r
  BY <1>1 DEF PayCommits, TypeOK
<1>8. MoneyOK'
  BY <1>1, <1>2, <1>3, <1>5 DEF TypeOK, MoneyOK, Unlocked
<1>9. StoreOK' /\ HistoryOK'
  BY <1>1, <1>2 DEF PayCommits, TypeOK, StoreOK, HistoryOK, store
<1>10. HeldBy(t)' /\ WorkOf(t)'
  BY <1>2, <1>6, <1>7 DEF HeldBy, WorkOf
<1>11. \A a \in Accounts : lock[a] \notin {t, NoTask} => lock'[a] = lock[a] /\ wallet'[a] = wallet[a]
  BY <1>1, <1>4, <1>5 DEF TypeOK, Unlocked
<1>12. NoRowIsEmpty'
  BY <1>1, <1>2, <1>4, <1>5, NamesAssumption DEF TypeOK, NoRowIsEmpty, Unlocked
<1>13. LedgerBalanced'
  BY <1>1, <1>2, <1>3, <1>4, <1>5 DEF TypeOK, LedgerBalanced
<1> QED BY <1>2, <1>6, <1>7, <1>8, <1>9, <1>10, <1>11, <1>12, <1>13, OneTaskStep

-----------------------------------------------------------------------------
(* Steps without a task, and the theorems *)

LEMMA FormsStep ==
    ASSUME LedgerInv, \/ \E k \in Kinds : CreatePaymentForm(k)
                      \/ \E i \in FormIds : FormExpires(i)
                      \/ \E a \in Users : OpenWallet(a)
                      \/ UNCHANGED vars
    PROVE  LedgerInv'
<1>1. TypeOK /\ RowsHeld /\ WorkIsForm /\ NoRowIsEmpty /\ LedgerBalanced
  BY DEF LedgerInv
<1>2. UNCHANGED <<wallet, lock, earned, spent, minted, task, payments, doubtful, consent, lost>>
  BY DEF CreatePaymentForm, FormExpires, OpenWallet, vars, money, store, history
<1>3. rows \subseteq rows' /\ rows' \subseteq Accounts
  BY <1>1, NamesAssumption DEF TypeOK, CreatePaymentForm, FormExpires, OpenWallet, vars, money
<1>4. StoreOK'
  <2>1. CASE \E k \in Kinds : CreatePaymentForm(k)
    BY <1>1, <2>1, StarsBoundsAssumption DEF TypeOK, StoreOK, CreatePaymentForm, FormIds
  <2>2. CASE \E i \in FormIds : FormExpires(i)
    BY <1>1, <2>2 DEF TypeOK, StoreOK, FormExpires
  <2>3. CASE (\E a \in Users : OpenWallet(a)) \/ UNCHANGED vars
    BY <1>1, <2>3 DEF TypeOK, StoreOK, OpenWallet, store, vars
  <2> QED BY <2>1, <2>2, <2>3
<1>5. MoneyOK' /\ HistoryOK' /\ TasksOK'
  BY <1>1, <1>2, <1>3 DEF TypeOK, MoneyOK, HistoryOK, TasksOK
<1>6. TypeOK'
  BY <1>4, <1>5, TypeParts
<1>7. RowsHeld' /\ WorkIsForm'
  BY <1>1, <1>2 DEF RowsHeld, WorkIsForm, HeldBy, WorkOf, Holds
<1>8. NoRowIsEmpty' /\ LedgerBalanced'
  BY <1>1, <1>2, <1>3 DEF NoRowIsEmpty, LedgerBalanced
<1> QED BY <1>6, <1>7, <1>8 DEF LedgerInv

LEMMA LedgerNext == LedgerInv /\ [Next]_vars => LedgerInv'
<1> SUFFICES ASSUME LedgerInv, [Next]_vars PROVE LedgerInv'
  OBVIOUS
<1>1. CASE \/ \E k \in Kinds : CreatePaymentForm(k)
           \/ \E i \in FormIds : FormExpires(i)
           \/ \E a \in Users : OpenWallet(a)
           \/ UNCHANGED vars
  BY <1>1, FormsStep
<1>2. ASSUME NEW t \in Tasks, TaskStep(t) PROVE LedgerInv'
  BY <1>2, InvoiceIsPaidStep, CheckExpiredStep, CheckFormStep, AwaitAnswerStep,
     PrecheckoutTimeoutStep, DeleteFormStep, OpenPayerWalletStep, DebitBeginsStep,
     DebitCommitsStep, CreditBeginsStep, CreditCommitsStep, PayBeginsStep, PayTooLowStep,
     PaySelectsStep, PayCommitsStep, MarkPaidStep, SetBeginsStep, SetCommitsStep,
     RollbackStep DEF TaskStep, RowConflict
<1>3. ASSUME NEW t \in Tasks, Fail(t) PROVE LedgerInv'
  BY <1>3, RollbackStep DEF Fail
<1>4. ASSUME NEW t \in Tasks, NEW i \in FormIds, Submit(t, i) PROVE LedgerInv'
  BY <1>4, SubmitStep
<1>5. ASSUME NEW t \in Tasks, NEW b \in BOOLEAN, BotAnswers(t, b) PROVE LedgerInv'
  BY <1>5, BotAnswersStep
<1>6. ASSUME NEW t \in Tasks, NEW a \in Users, NEW n \in Amounts,
             GrantStars(t, a, n) \/ SetStarsBalance(t, a, n)
      PROVE  LedgerInv'
  BY <1>6, GrantStarsStep, SetStarsBalanceStep
<1> QED BY <1>1, <1>2, <1>3, <1>4, <1>5, <1>6 DEF Next

\* The inductive invariant holds in every reachable state.
THEOREM LedgerInvariant == Spec => []LedgerInv
<1>1. Init => LedgerInv
  BY LedgerInit
<1>2. LedgerInv /\ [Next]_vars => LedgerInv'
  BY LedgerNext
<1> QED BY <1>1, <1>2, PTL DEF Spec

\* Wallets equal the sums of their recorded transactions and are never
\* negative, for any accounts, forms and concurrent requests, failures included.
THEOREM WalletsMatchTransactions == Spec => []LedgerBalanced
<1>1. LedgerInv => LedgerBalanced
  BY DEF LedgerInv
<1> QED BY <1>1, LedgerInvariant, PTL

\* The type invariant of Stars.
THEOREM StarsTypeCorrect == Spec => []TypeOK
<1>1. LedgerInv => TypeOK
  BY DEF LedgerInv
<1> QED BY <1>1, LedgerInvariant, PTL

-----------------------------------------------------------------------------
(* Sums *)

\* One step of the recursion: an element is taken, its value added.
Chosen(s) == CHOOSE x \in s : TRUE
SumStep(f, g, s) == IF s = {} THEN 0 ELSE f[Chosen(s)] + g[s \ {Chosen(s)}]
\* The table of partial sums.
Sums(f, S) == CHOOSE g : g = [s \in SUBSET S |-> SumStep(f, g, s)]

LEMMA SumIsTable == ASSUME NEW S, NEW f PROVE SumOf(f, S) = Sums(f, S)[S]
BY DEF SumOf, MapThenSumSet, MapThenFoldSet, Sums, SumStep, Chosen

LEMMA SmallestSet ==
    ASSUME NEW S, IsFiniteSet(S), NEW X \in SUBSET (SUBSET S), X # {}
    PROVE  \E s \in X : \A r \in X : ~(r \subseteq s /\ r # s)
<1>1. X \subseteq FiniteSubsetsOf(S)
  BY FS_Subset DEF FiniteSubsetsOf
<1>2. PICK s \in X : \A r \in X : ~(<<r, s>> \in StrictSubsetOrdering(S))
  BY <1>1, WFMin, FS_StrictSubsetOrderingWellFounded
<1>3. ASSUME NEW r \in X, r \subseteq s, r # s PROVE FALSE
  BY <1>2, <1>3 DEF StrictSubsetOrdering
<1> QED BY <1>3

\* A property of numbers that fails has a smallest number for which it fails.
LEMMA SmallestNumber ==
    ASSUME NEW X \in SUBSET Nat, X # {}
    PROVE  \E n \in X : \A m \in X : n <= m
<1>1. PICK n \in X : \A m \in X : ~(<<m, n>> \in OpToRel(<, Nat))
  BY WFMin, NatLessThanWellFounded
<1>2. ASSUME NEW m \in X, ~(n <= m) PROVE FALSE
  <2>1. m \in Nat /\ n \in Nat /\ m < n
    BY <1>2
  <2>2. <<m, n>> \in OpToRel(<, Nat)
    BY <2>1 DEF OpToRel
  <2> QED BY <1>1, <2>2
<1> QED BY <1>2

LEMMA ChosenInSet ==
    ASSUME NEW s, s # {}
    PROVE  Chosen(s) \in s
BY DEF Chosen

LEMMA TablesExist ==
    ASSUME NEW S, IsFiniteSet(S), NEW f \in [S -> Int]
    PROVE  \E g \in [SUBSET S -> Int] : \A s \in SUBSET S : g[s] = SumStep(f, g, s)
<1> DEFINE Upto(n) == \E g \in [SUBSET S -> Int] : \A s \in SUBSET S :
                         Cardinality(s) <= n => g[s] = SumStep(f, g, s)
           X == {n \in Nat : ~Upto(n)}
<1>0. \A s \in SUBSET S : IsFiniteSet(s) /\ Cardinality(s) \in Nat /\ Cardinality(s) <= Cardinality(S)
  BY FS_Subset, FS_CardinalityType
<1>1. Upto(0)
  <2> DEFINE g == [s \in SUBSET S |-> 0]
  <2>1. \A s \in SUBSET S : Cardinality(s) <= 0 => s = {}
    BY <1>0, FS_EmptySet
  <2>2. g \in [SUBSET S -> Int]
    OBVIOUS
  <2>3. \A s \in SUBSET S : Cardinality(s) <= 0 => g[s] = SumStep(f, g, s)
    BY <2>1 DEF SumStep
  <2> HIDE DEF g
  <2> QED BY <2>2, <2>3
<1>2. ASSUME NEW n \in Nat, Upto(n) PROVE Upto(n + 1)
  <2>1. PICK g \in [SUBSET S -> Int] : \A s \in SUBSET S : Cardinality(s) <= n => g[s] = SumStep(f, g, s)
    BY <1>2
  <2> DEFINE h == [s \in SUBSET S |-> SumStep(f, g, s)]
  <2>2. ASSUME NEW s \in SUBSET S, s # {}
        PROVE  /\ Chosen(s) \in S /\ s \ {Chosen(s)} \in SUBSET S
               /\ Cardinality(s \ {Chosen(s)}) = Cardinality(s) - 1
    BY <1>0, <2>2, ChosenInSet, FS_RemoveElement
  <2>3. h \in [SUBSET S -> Int]
    <3>1. ASSUME NEW s \in SUBSET S PROVE SumStep(f, g, s) \in Int
      <4>1. CASE s = {}
        BY <4>1 DEF SumStep
      <4>2. CASE s # {}
        <5>1. f[Chosen(s)] \in Int /\ g[s \ {Chosen(s)}] \in Int
          BY <2>2, <4>2
        <5> QED BY <4>2, <5>1 DEF SumStep
      <4> QED BY <4>1, <4>2
    <3> QED BY <3>1
  <2>4. ASSUME NEW s \in SUBSET S, Cardinality(s) <= n + 1 PROVE h[s] = SumStep(f, h, s)
    <3>1. CASE s = {}
      BY <3>1 DEF SumStep
    <3>2. CASE s # {}
      <4>1. Cardinality(s \ {Chosen(s)}) <= n
        BY <1>0, <2>2, <2>4, <3>2
      <4>2. h[s \ {Chosen(s)}] = g[s \ {Chosen(s)}]
        BY <2>1, <2>2, <3>2, <4>1
      <4> QED BY <3>2, <4>2 DEF SumStep
    <3> QED BY <3>1, <3>2
  <2> QED BY <2>3, <2>4
<1>3. X = {}
  <2> SUFFICES ASSUME X # {} PROVE FALSE
    OBVIOUS
  <2>1. PICK n \in X : \A m \in X : n <= m
    <3>1. X \in SUBSET Nat
      OBVIOUS
    <3> HIDE DEF X
    <3> QED BY <3>1, SmallestNumber
  <2>2. n # 0 /\ n \in Nat
    BY <1>1
  <2>3. n - 1 \in Nat /\ ~(n <= n - 1)
    BY <2>2
  <2>4. Upto(n - 1)
    BY <2>1, <2>3
  <2>5. (n - 1) + 1 = n
    BY <2>2
  <2>6. ~Upto(n)
    BY <2>1
  <2> HIDE DEF Upto
  <2>7. Upto((n - 1) + 1)
    BY <1>2, <2>3, <2>4
  <2> QED BY <2>5, <2>6, <2>7
<1>4. Upto(Cardinality(S))
  BY <1>3, FS_CardinalityType
<1> QED BY <1>0, <1>4

\* The table is what the recursion says, and its sums are numbers.
LEMMA SumsFacts ==
    ASSUME NEW S, IsFiniteSet(S), NEW f \in [S -> Int]
    PROVE  \A s \in SUBSET S : /\ Sums(f, S)[s] = SumStep(f, Sums(f, S), s)
                               /\ Sums(f, S)[s] \in Int
<1> DEFINE g == Sums(f, S)
<1>1. \E h : h = [s \in SUBSET S |-> SumStep(f, h, s)]
  <2>1. PICK h \in [SUBSET S -> Int] : \A s \in SUBSET S : h[s] = SumStep(f, h, s)
    BY TablesExist
  <2>2. h = [s \in SUBSET S |-> SumStep(f, h, s)]
    BY <2>1
  <2> QED BY <2>2
<1>2. g = [s \in SUBSET S |-> SumStep(f, g, s)]
  BY <1>1 DEF Sums
<1> HIDE DEF g
<1>3. \A s \in SUBSET S : g[s] = SumStep(f, g, s)
  BY <1>2
<1> DEFINE X == {s \in SUBSET S : g[s] \notin Int}
<1>4. X = {}
  <2> SUFFICES ASSUME X # {} PROVE FALSE
    OBVIOUS
  <2>1. PICK s \in X : \A r \in X : ~(r \subseteq s /\ r # s)
    <3>1. X \in SUBSET (SUBSET S)
      OBVIOUS
    <3> HIDE DEF X
    <3> QED BY <3>1, SmallestSet
  <2>2. g[s] = SumStep(f, g, s) /\ g[s] \notin Int /\ s # {}
    <3>1. g[s] = SumStep(f, g, s) /\ g[s] \notin Int
      BY <1>3, <2>1
    <3> QED BY <3>1 DEF SumStep
  <2>3. Chosen(s) \in s /\ s \ {Chosen(s)} \in SUBSET S /\ s \ {Chosen(s)} # s
    BY <2>2, ChosenInSet
  <2>4. g[s \ {Chosen(s)}] \in Int /\ f[Chosen(s)] \in Int
    BY <2>1, <2>3
  <2>5. g[s] = f[Chosen(s)] + g[s \ {Chosen(s)}]
    BY <2>2 DEF SumStep
  <2> QED BY <2>2, <2>4, <2>5
<1> QED BY <1>3, <1>4 DEF g

\* The sum of zeros.
LEMMA SumOfZeros ==
    ASSUME NEW S, IsFiniteSet(S), NEW f \in [S -> Int], \A x \in S : f[x] = 0
    PROVE  SumOf(f, S) = 0
<1> DEFINE g == Sums(f, S)
           X == {s \in SUBSET S : g[s] # 0}
<1>1. X = {}
  <2> SUFFICES ASSUME X # {} PROVE FALSE
    OBVIOUS
  <2>1. PICK s \in X : \A r \in X : ~(r \subseteq s /\ r # s)
    <3>1. X \in SUBSET (SUBSET S)
      OBVIOUS
    <3> HIDE DEF X
    <3> QED BY <3>1, SmallestSet
  <2> HIDE DEF g
  <2>2. g[s] = SumStep(f, g, s)
    BY SumsFacts DEF g
  <2>3. s # {}
    BY <2>2 DEF SumStep
  <2>4. Chosen(s) \in s /\ s \ {Chosen(s)} \in SUBSET S /\ s \ {Chosen(s)} # s
    BY <2>3, ChosenInSet
  <2>5. g[s \ {Chosen(s)}] = 0 /\ f[Chosen(s)] = 0
    BY <2>1, <2>4
  <2> QED BY <2>2, <2>3, <2>5 DEF SumStep
<1> QED BY <1>1, SumIsTable

\* A sum changes by what one of its terms changes.
LEMMA SumChanges ==
    ASSUME NEW S, IsFiniteSet(S), NEW f \in [S -> Int], NEW h \in [S -> Int], NEW a \in S,
           \A x \in S : x # a => h[x] = f[x]
    PROVE  /\ SumOf(h, S) = SumOf(f, S) + h[a] - f[a]
           /\ SumOf(f, S) \in Int
<1> DEFINE F == Sums(f, S)
           H == Sums(h, S)
           D(s) == IF a \in s THEN h[a] - f[a] ELSE 0
           X == {s \in SUBSET S : H[s] # F[s] + D(s)}
<1>1. \A s \in SUBSET S : /\ F[s] = SumStep(f, F, s) /\ F[s] \in Int
                          /\ H[s] = SumStep(h, H, s) /\ H[s] \in Int
  BY SumsFacts
<1> HIDE DEF F, H
<1>2. X = {}
  <2> SUFFICES ASSUME X # {} PROVE FALSE
    OBVIOUS
  <2>1. PICK s \in X : \A r \in X : ~(r \subseteq s /\ r # s)
    <3>1. X \in SUBSET (SUBSET S)
      OBVIOUS
    <3> HIDE DEF X
    <3> QED BY <3>1, SmallestSet
  <2>2. s # {}
    BY <1>1 DEF SumStep
  <2> DEFINE c == Chosen(s)
             r == s \ {c}
  <2>3. c \in s /\ c \in S /\ r \in SUBSET S /\ r # s
    BY <2>2, ChosenInSet
  <2>4. H[r] = F[r] + D(r)
    BY <2>1, <2>3
  <2>5. F[s] = f[c] + F[r] /\ H[s] = h[c] + H[r]
    BY <1>1, <2>2 DEF SumStep
  <2>6. f[c] \in Int /\ h[c] \in Int /\ F[r] \in Int /\ H[r] \in Int /\ f[a] \in Int /\ h[a] \in Int
    BY <1>1, <2>3
  <2>7. H[s] # F[s] + D(s)
    BY <2>1
  <2>8. c = a => (a \in s /\ a \notin r)
    BY <2>3
  <2>9. c # a => (h[c] = f[c] /\ (a \in s <=> a \in r))
    BY <2>3
  <2> HIDE DEF c, r
  <2>10. CASE c = a
    BY <2>4, <2>5, <2>6, <2>7, <2>8, <2>10
  <2>11. CASE c # a
    BY <2>4, <2>5, <2>6, <2>7, <2>9, <2>11
  <2> QED BY <2>10, <2>11
<1>3. H[S] = F[S] + (h[a] - f[a]) /\ F[S] \in Int
  BY <1>1, <1>2
<1>4. SumOf(f, S) = F[S] /\ SumOf(h, S) = H[S]
  BY SumIsTable DEF F, H
<1>5. f[a] \in Int /\ h[a] \in Int
  OBVIOUS
<1> QED BY <1>3, <1>4, <1>5

-----------------------------------------------------------------------------
(* What a step of a request does, for the conservation of stars and for the *)
(* approval of payments                                                     *)

OthersSame(t) == \A s \in Tasks : s # t => task'[s] = task[s]
Moved(t, x) == OthersSame(t) /\ task'[t].step = x /\ task'[t].work = task[t].work

LEMMA MovedFacts ==
    ASSUME TypeOK, NEW t \in Tasks, NEW x, NEW b, NEW n, NEW m,
           \/ task' = [task EXCEPT ![t].step = x]
           \/ task' = [task EXCEPT ![t].step = x, ![t].future = b]
           \/ task' = [task EXCEPT ![t].step = x, ![t].had = b, ![t].read = n]
           \/ task' = [task EXCEPT ![t].step = x, ![t].had = b, ![t].read2 = n]
           \/ task' = [task EXCEPT ![t].step = x, ![t].read = n, ![t].had = b]
           \/ task' = [task EXCEPT ![t].step = x, ![t].read = n, ![t].read2 = m, ![t].had = b]
    PROVE  Moved(t, x)
<1>1. task \in [Tasks -> TaskStates]
  BY DEF TypeOK
<1>2. OthersSame(t)
  BY <1>1 DEF OthersSame
<1>3. DOMAIN task = Tasks /\ task[t] = [step |-> task[t].step, id |-> task[t].id, work |-> task[t].work,
         had |-> task[t].had, read |-> task[t].read, read2 |-> task[t].read2, future |-> task[t].future]
  BY <1>1 DEF TaskStates
<1>4. CASE task' = [task EXCEPT ![t].step = x]
  BY <1>2, <1>3, <1>4 DEF Moved
<1>5. CASE task' = [task EXCEPT ![t].step = x, ![t].future = b]
  BY <1>2, <1>3, <1>5 DEF Moved
<1>6. CASE task' = [task EXCEPT ![t].step = x, ![t].had = b, ![t].read = n]
  BY <1>2, <1>3, <1>6 DEF Moved
<1>7. CASE task' = [task EXCEPT ![t].step = x, ![t].had = b, ![t].read2 = n]
  BY <1>2, <1>3, <1>7 DEF Moved
<1>8. CASE task' = [task EXCEPT ![t].step = x, ![t].read = n, ![t].had = b]
  BY <1>2, <1>3, <1>8 DEF Moved
<1>9. CASE task' = [task EXCEPT ![t].step = x, ![t].read = n, ![t].read2 = m, ![t].had = b]
  BY <1>2, <1>3, <1>9 DEF Moved
<1> QED BY <1>4, <1>5, <1>6, <1>7, <1>8, <1>9

LEMMA EndsFacts ==
    ASSUME TypeOK, NEW t \in Tasks, Ends(t)
    PROVE  OthersSame(t) /\ task'[t] = IdleTask /\ consent' = consent \ {t}
BY DEF TypeOK, Ends, OthersSame

LEMMA TransitType == TypeOK => Transit \in [Tasks -> Int]
<1> SUFFICES ASSUME TypeOK, NEW t \in Tasks, InTransit(t) PROVE task[t].work.stars \in Int
  BY DEF Transit
<1> QED BY WorkFacts DEF InTransit

LEMMA TransitTypeNext == TypeOK' => Transit' \in [Tasks -> Int]
<1>1. (TypeOK => Transit \in [Tasks -> Int])'
  BY TransitType, PTL
<1> QED BY <1>1

\* The sums, when one request or one wallet changes.
LEMMA TransitSum ==
    ASSUME TypeOK, TypeOK', NEW t \in Tasks, OthersSame(t)
    PROVE  /\ SumOf(Transit, Tasks)' = SumOf(Transit, Tasks) + Transit'[t] - Transit[t]
           /\ SumOf(Transit, Tasks) \in Int
           /\ Transit[t] \in Int /\ Transit'[t] \in Int
<1>1. Transit \in [Tasks -> Int] /\ Transit' \in [Tasks -> Int]
  BY TransitType, TransitTypeNext
<1>2. \A s \in Tasks : s # t => Transit'[s] = Transit[s]
  BY DEF Transit, InTransit, OthersSame
<1>3. SumOf(Transit', Tasks) = SumOf(Transit, Tasks) + Transit'[t] - Transit[t] /\ SumOf(Transit, Tasks) \in Int
  BY <1>1, <1>2, FiniteAssumption, SumChanges
<1>4. SumOf(Transit, Tasks)' = SumOf(Transit', Tasks)
  OBVIOUS
<1> QED BY <1>1, <1>3, <1>4

UseSteps == {"delete", "pay", "pay2", "pay3", "receipt"}
NeedsConsent(w) == w \in Invoices /\ w.to \notin Builtin

\* A gift is debited only if it is paid with stars.
PurposeOf(t) ==
    /\ task[t].step \in {"debit", "debit2"} => task[t].work.purpose = "gift" /\ task[t].work.xtr
    /\ task[t].step = "open" => ~task[t].work.xtr

\* The stars in the wallets, on their way and lost change as those minted.
Conserves(t) ==
    SumOf(wallet, Accounts)' + lost' + Transit'[t] - minted'
        = SumOf(wallet, Accounts) + lost + Transit[t] - minted

\* A request goes on, and has not paid.
Advances(t) ==
    /\ OthersSame(t) /\ task'[t].work = task[t].work
    /\ task[t].step \notin {"idle", "receipt"}
    /\ task'[t].step \notin {"idle", "load", "receipt"}
    /\ task[t].step = "load" => task[t].work \notin paid
    /\ UNCHANGED <<paid, payments, doubtful>>
    /\ consent \subseteq consent' /\ consent' \subseteq consent \cup {t}
    /\ task'[t].step \in UseSteps /\ NeedsConsent(task[t].work) =>
           task[t].step \in UseSteps \/ t \in consent'
    /\ PurposeOf(t)'
    /\ Conserves(t)

\* A request ends without a payment of its own.
Finishes(t) ==
    /\ OthersSame(t) /\ task'[t] = IdleTask
    /\ UNCHANGED <<paid, payments>>
    /\ doubtful \subseteq doubtful'
    /\ task[t].step = "receipt" => task[t].work \in doubtful'
    /\ consent' = consent \ {t}
    /\ Conserves(t)

LEMMA SameWallets ==
    ASSUME TypeOK, NEW t \in Tasks, UNCHANGED <<wallet, minted, lost>>, Transit'[t] = Transit[t]
    PROVE  Conserves(t)
<1>1. SumOf(wallet, Accounts)' = SumOf(wallet', Accounts)
  OBVIOUS
<1> QED BY <1>1 DEF Conserves

\* Requests on their way from one step to the next, their wallets untouched.
LEMMA QuietAdvance ==
    ASSUME LedgerInv, NEW t \in Tasks, NEW x \in TaskSteps, Moved(t, x),
           UNCHANGED <<wallet, minted, lost, paid, payments, doubtful>>,
           consent \subseteq consent', consent' \subseteq consent \cup {t},
           task[t].step \notin {"idle", "receipt"}, x \notin {"idle", "load", "receipt"},
           task[t].step = "load" => task[t].work \notin paid,
           x \in UseSteps /\ NeedsConsent(task[t].work) => task[t].step \in UseSteps \/ t \in consent',
           PurposeOf(t)',
           x \in {"credit", "credit2"} /\ task[t].work.purpose = "gift" /\ task[t].work.xtr
               <=> InTransit(t)
    PROVE  Advances(t)
<1>1. OthersSame(t) /\ task'[t].step = x /\ task'[t].work = task[t].work
  BY DEF Moved
<1>2. Transit'[t] = Transit[t]
  BY <1>1 DEF Transit, InTransit
<1>3. Conserves(t)
  BY <1>2, SameWallets DEF LedgerInv
<1> QED BY <1>1, <1>3 DEF Advances

LEMMA CheckFormAdvances == ASSUME LedgerInv, NEW t \in Tasks, CheckForm(t) PROVE Advances(t)
<1>1. TypeOK /\ WorkOf(t)
  BY DEF LedgerInv, WorkIsForm
<1>2. task[t].step = "load" /\ task[t].work \notin paid /\ task[t].work \in Kinds
  BY <1>1 DEF CheckForm, WorkOf
<1>3. UNCHANGED <<wallet, minted, lost, paid, payments, doubtful, consent>>
  BY DEF CheckForm, money, store, history
<1>4. CASE task[t].work.purpose = "invoice" /\ task[t].work.to \notin Builtin
  <2>0. PICK b \in BOOLEAN : task' = [task EXCEPT ![t].step = "ask", ![t].future = b]
    BY <1>4 DEF CheckForm
  <2>1. Moved(t, "ask")
    BY <1>1, <2>0, MovedFacts
  <2>2. PurposeOf(t)' /\ ~InTransit(t) /\ "ask" \in TaskSteps /\ "ask" \notin UseSteps
    BY <1>2, <2>1 DEF PurposeOf, Moved, InTransit, TaskSteps, UseSteps
  <2> QED BY <1>2, <1>3, <2>1, <2>2, QuietAdvance
<1>5. CASE ~(task[t].work.purpose = "invoice" /\ task[t].work.to \notin Builtin)
  <2>1. Moved(t, "delete")
    BY <1>1, <1>5, MovedFacts DEF CheckForm, Goto
  <2>2. PurposeOf(t)' /\ ~InTransit(t) /\ "delete" \in TaskSteps
    BY <1>2, <2>1 DEF PurposeOf, Moved, InTransit, TaskSteps
  <2>3. ~NeedsConsent(task[t].work)
    BY <1>5 DEF NeedsConsent, Invoices
  <2> QED BY <1>2, <1>3, <2>1, <2>2, <2>3, QuietAdvance
<1> QED BY <1>4, <1>5

LEMMA AwaitAnswerAdvances == ASSUME LedgerInv, NEW t \in Tasks, AwaitAnswer(t) PROVE Advances(t)
<1>1. TypeOK
  BY DEF LedgerInv
<1>2. UNCHANGED <<wallet, minted, lost, paid, payments, doubtful, consent>>
  BY DEF AwaitAnswer, money, store, history
<1>3. task[t].step = "ask" /\ Moved(t, "wait")
  BY <1>1, MovedFacts DEF AwaitAnswer
<1>4. PurposeOf(t)' /\ ~InTransit(t) /\ "wait" \in TaskSteps /\ "wait" \notin UseSteps
  BY <1>3 DEF PurposeOf, Moved, InTransit, TaskSteps, UseSteps
<1> QED BY <1>2, <1>3, <1>4, QuietAdvance

LEMMA OpenPayerWalletAdvances == ASSUME LedgerInv, NEW t \in Tasks, PurposeOf(t), OpenPayerWallet(t) PROVE Advances(t)
<1>1. TypeOK
  BY DEF LedgerInv
<1>2. UNCHANGED <<wallet, minted, lost, paid, payments, doubtful, consent>>
  BY DEF OpenPayerWallet, store, history
<1>3. task[t].step = "open" /\ Moved(t, "credit")
  BY <1>1, MovedFacts DEF OpenPayerWallet, Goto
<1>4. PurposeOf(t)' /\ "credit" \in TaskSteps
  BY <1>3 DEF PurposeOf, Moved, TaskSteps
<1>5. "credit" \in {"credit", "credit2"} /\ task[t].work.purpose = "gift" /\ task[t].work.xtr <=> InTransit(t)
  BY <1>3 DEF InTransit, PurposeOf
<1>6. "credit" \in UseSteps => task[t].step \in UseSteps
  BY <1>3 DEF UseSteps
<1> QED BY <1>2, <1>3, <1>4, <1>5, <1>6, QuietAdvance

LEMMA CreditBeginsAdvances == ASSUME LedgerInv, NEW t \in Tasks, CreditBegins(t) PROVE Advances(t)
<1>1. TypeOK
  BY DEF LedgerInv
<1>2. UNCHANGED <<wallet, minted, lost, paid, payments, doubtful, consent>>
  BY DEF CreditBegins, store, history
<1>3. task[t].step = "credit" /\ Moved(t, "credit2")
  BY <1>1, MovedFacts DEF CreditBegins, SelectForUpdate
<1>4. PurposeOf(t)' /\ "credit2" \in TaskSteps
  BY <1>3 DEF PurposeOf, Moved, TaskSteps
<1>5. "credit2" \in {"credit", "credit2"} /\ task[t].work.purpose = "gift" /\ task[t].work.xtr <=> InTransit(t)
  BY <1>3 DEF InTransit
<1>6. "credit2" \in UseSteps => task[t].step \in UseSteps
  BY <1>3 DEF UseSteps
<1> QED BY <1>2, <1>3, <1>4, <1>5, <1>6, QuietAdvance

LEMMA PayBeginsAdvances == ASSUME LedgerInv, NEW t \in Tasks, PayBegins(t) PROVE Advances(t)
<1>1. TypeOK
  BY DEF LedgerInv
<1>2. UNCHANGED <<wallet, minted, lost, paid, payments, doubtful, consent>>
  BY DEF PayBegins, store, history
<1>3. task[t].step = "pay" /\ Moved(t, "pay2")
  BY <1>1, MovedFacts DEF PayBegins, SelectForUpdate
<1>4. PurposeOf(t)' /\ "pay2" \in TaskSteps
  BY <1>3 DEF PurposeOf, Moved, TaskSteps
<1>5. "pay2" \in {"credit", "credit2"} /\ task[t].work.purpose = "gift" /\ task[t].work.xtr <=> InTransit(t)
  BY <1>3 DEF InTransit
<1>6. "pay2" \in UseSteps => task[t].step \in UseSteps
  BY <1>3 DEF UseSteps
<1> QED BY <1>2, <1>3, <1>4, <1>5, <1>6, QuietAdvance

LEMMA PaySelectsAdvances == ASSUME LedgerInv, NEW t \in Tasks, PaySelects(t) PROVE Advances(t)
<1>1. TypeOK
  BY DEF LedgerInv
<1>2. UNCHANGED <<wallet, minted, lost, paid, payments, doubtful, consent>>
  BY DEF PaySelects, store, history
<1>3. task[t].step = "pay2" /\ Moved(t, "pay3")
  BY <1>1, MovedFacts DEF PaySelects
<1>4. PurposeOf(t)' /\ "pay3" \in TaskSteps
  BY <1>3 DEF PurposeOf, Moved, TaskSteps
<1>5. "pay3" \in {"credit", "credit2"} /\ task[t].work.purpose = "gift" /\ task[t].work.xtr <=> InTransit(t)
  BY <1>3 DEF InTransit
<1>6. "pay3" \in UseSteps => task[t].step \in UseSteps
  BY <1>3 DEF UseSteps
<1> QED BY <1>2, <1>3, <1>4, <1>5, <1>6, QuietAdvance

LEMMA SetBeginsAdvances == ASSUME LedgerInv, NEW t \in Tasks, SetBegins(t) PROVE Advances(t)
<1>1. TypeOK
  BY DEF LedgerInv
<1>2. UNCHANGED <<wallet, minted, lost, paid, payments, doubtful, consent>>
  BY DEF SetBegins, store, history
<1>3. task[t].step = "set" /\ Moved(t, "set2")
  BY <1>1, MovedFacts DEF SetBegins, SelectForUpdate
<1>4. PurposeOf(t)' /\ "set2" \in TaskSteps
  BY <1>3 DEF PurposeOf, Moved, TaskSteps
<1>5. "set2" \in {"credit", "credit2"} /\ task[t].work.purpose = "gift" /\ task[t].work.xtr <=> InTransit(t)
  BY <1>3 DEF InTransit
<1>6. "set2" \in UseSteps => task[t].step \in UseSteps
  BY <1>3 DEF UseSteps
<1> QED BY <1>2, <1>3, <1>4, <1>5, <1>6, QuietAdvance

LEMMA DebitBeginsAdvances == ASSUME LedgerInv, NEW t \in Tasks, PurposeOf(t), DebitBegins(t) PROVE Advances(t)
<1>1. TypeOK
  BY DEF LedgerInv
<1>2. UNCHANGED <<wallet, minted, lost, paid, payments, doubtful, consent>>
  BY DEF DebitBegins, store, history
<1>3. task[t].step = "debit" /\ Moved(t, "debit2")
  BY <1>1, MovedFacts DEF DebitBegins, SelectForUpdate
<1>4. PurposeOf(t)' /\ "debit2" \in TaskSteps
  BY <1>3 DEF PurposeOf, Moved, TaskSteps
<1>5. "debit2" \in {"credit", "credit2"} /\ task[t].work.purpose = "gift" /\ task[t].work.xtr <=> InTransit(t)
  BY <1>3 DEF InTransit, PurposeOf
<1>6. "debit2" \in UseSteps => task[t].step \in UseSteps
  BY <1>3 DEF UseSteps
<1> QED BY <1>2, <1>3, <1>4, <1>5, <1>6, QuietAdvance

LEMMA WalletSum ==
    ASSUME TypeOK, TypeOK', NEW a \in Accounts,
           \A c \in Accounts : c # a => wallet'[c] = wallet[c]
    PROVE  /\ SumOf(wallet, Accounts)' = SumOf(wallet, Accounts) + wallet'[a] - wallet[a]
           /\ SumOf(wallet, Accounts) \in Int
<1>1. wallet \in [Accounts -> Int] /\ wallet' \in [Accounts -> Int]
  BY DEF TypeOK
<1>2. SumOf(wallet', Accounts) = SumOf(wallet, Accounts) + wallet'[a] - wallet[a] /\ SumOf(wallet, Accounts) \in Int
  BY <1>1, FiniteAssumption, SumChanges
<1>3. SumOf(wallet, Accounts)' = SumOf(wallet', Accounts)
  OBVIOUS
<1> QED BY <1>2, <1>3

\* A transfer changes two wallets.
LEMMA TwoWalletsSum ==
    ASSUME TypeOK, TypeOK', NEW a \in Accounts, NEW b \in Accounts, a # b,
           \A c \in Accounts : c \notin {a, b} => wallet'[c] = wallet[c]
    PROVE  /\ SumOf(wallet, Accounts)' = SumOf(wallet, Accounts) + (wallet'[a] - wallet[a])
                                             + (wallet'[b] - wallet[b])
           /\ SumOf(wallet, Accounts) \in Int
<1> DEFINE mid == [wallet EXCEPT ![a] = wallet'[a]]
<1>1. wallet \in [Accounts -> Int] /\ wallet' \in [Accounts -> Int]
  BY DEF TypeOK
<1>2. mid \in [Accounts -> Int] /\ mid[a] = wallet'[a] /\ \A c \in Accounts : c # a => mid[c] = wallet[c]
  BY <1>1
<1> HIDE DEF mid
<1>3. SumOf(mid, Accounts) = SumOf(wallet, Accounts) + mid[a] - wallet[a] /\ SumOf(wallet, Accounts) \in Int
  BY <1>1, <1>2, FiniteAssumption, SumChanges
<1>4. \A c \in Accounts : c # b => wallet'[c] = mid[c]
  BY <1>2
<1>5. SumOf(wallet', Accounts) = SumOf(mid, Accounts) + wallet'[b] - mid[b] /\ SumOf(mid, Accounts) \in Int
  BY <1>1, <1>2, <1>4, FiniteAssumption, SumChanges
<1>6. SumOf(wallet, Accounts)' = SumOf(wallet', Accounts)
  OBVIOUS
<1>7. mid[b] = wallet[b] /\ wallet[a] \in Int /\ wallet[b] \in Int /\ wallet'[a] \in Int /\ wallet'[b] \in Int
  BY <1>1, <1>2
<1> QED BY <1>2, <1>3, <1>5, <1>6, <1>7

LEMMA BotAnswersAdvances ==
    ASSUME LedgerInv, NEW t \in Tasks, NEW success \in BOOLEAN, BotAnswers(t, success),
           task[t].step = "ask" \/ success
    PROVE  Advances(t)
<1>1. TypeOK
  BY DEF LedgerInv
<1>2. UNCHANGED <<wallet, minted, lost, paid, payments, doubtful>>
  BY DEF BotAnswers, money, store
<1>3. CASE task[t].step = "ask"
  <2>1. task' = [task EXCEPT ![t].future = FALSE] /\ consent' = consent
    BY <1>3 DEF BotAnswers
  <2>2. Moved(t, "ask")
    BY <1>1, <1>3, <2>1 DEF Moved, OthersSame, TypeOK, TaskStates
  <2>3. PurposeOf(t)' /\ ~InTransit(t) /\ "ask" \in TaskSteps /\ "ask" \notin UseSteps
    BY <1>3, <2>2 DEF PurposeOf, Moved, InTransit, TaskSteps, UseSteps
  <2> QED BY <1>2, <1>3, <2>1, <2>2, <2>3, QuietAdvance
<1>4. CASE task[t].step # "ask"
  <2>1. /\ task' = [task EXCEPT ![t].step = "delete", ![t].future = FALSE]
        /\ consent' = consent \cup {t} /\ task[t].step = "wait"
    BY <1>4 DEF BotAnswers
  <2>2. Moved(t, "delete")
    BY <1>1, <2>1, MovedFacts
  <2>3. PurposeOf(t)' /\ ~InTransit(t) /\ "delete" \in TaskSteps
    BY <2>1, <2>2 DEF PurposeOf, Moved, InTransit, TaskSteps
  <2> QED BY <1>2, <2>1, <2>2, <2>3, QuietAdvance
<1> QED BY <1>3, <1>4

LEMMA DeleteFormAdvances ==
    ASSUME LedgerInv, NEW t \in Tasks, DeleteForm(t), AfterForm(task[t].work) # "idle"
    PROVE  Advances(t)
<1> DEFINE x == AfterForm(task[t].work)
<1>1. TypeOK /\ WorkOf(t)
  BY DEF LedgerInv, WorkIsForm
<1>2. task[t].step = "delete" /\ task[t].work \in Kinds
  BY <1>1 DEF DeleteForm, WorkOf
<1>3. UNCHANGED <<wallet, minted, lost, paid, payments, doubtful, consent>>
  BY DEF DeleteForm, money
<1>4. /\ x \in {"credit", "debit", "open", "pay"}
      /\ x = "debit" => task[t].work.purpose = "gift" /\ task[t].work.xtr
      /\ x = "open" => ~task[t].work.xtr
      /\ x = "credit" => task[t].work.purpose # "gift"
  BY <1>2, KindsAssumption DEF AfterForm
<1>5. Moved(t, x)
  BY <1>1, MovedFacts DEF DeleteForm, Goto
<1> HIDE DEF x
<1>6. PurposeOf(t)'
  BY <1>4, <1>5 DEF PurposeOf, Moved
<1>7. /\ x \in TaskSteps /\ x \notin {"idle", "load", "receipt"} /\ task[t].step \in UseSteps
      /\ x \in {"credit", "credit2"} /\ task[t].work.purpose = "gift" /\ task[t].work.xtr <=> InTransit(t)
  BY <1>2, <1>4 DEF TaskSteps, UseSteps, InTransit
<1> QED BY <1>2, <1>3, <1>5, <1>6, <1>7, QuietAdvance

LEMMA DebitCommitsAdvances ==
    ASSUME LedgerInv, TypeOK', NEW t \in Tasks, PurposeOf(t), DebitCommits(t), ~TooLow(t)
    PROVE  Advances(t)
<1> DEFINE w == task[t].work
<1>1. TypeOK /\ HeldBy(t)
  BY DEF LedgerInv, RowsHeld
<1>2. /\ task[t].step = "debit2" /\ w.purpose = "gift" /\ w.xtr
      /\ w.user \in Accounts /\ w.stars \in Nat /\ task[t] \in TaskStates
  BY <1>1, WorkFacts DEF DebitCommits, PurposeOf
<1>3. task[t].read = wallet[w.user] /\ task[t].read \in Int
  BY <1>1, <1>2 DEF HeldBy, Holds, TooLow, TaskStates
<1>4. UNCHANGED <<minted, lost, paid, payments, doubtful, consent>>
  BY DEF DebitCommits, store
<1>5. wallet' = [wallet EXCEPT ![w.user] = task[t].read - w.stars]
  BY DEF DebitCommits
<1>6. Moved(t, "credit")
  <2>1. PICK b \in BOOLEAN : task' = [task EXCEPT ![t].step = "credit", ![t].read = 0, ![t].had = b]
    BY DEF DebitCommits
  <2> QED BY <1>1, <2>1, MovedFacts
<1>7. wallet'[w.user] = wallet[w.user] - w.stars /\ \A c \in Accounts : c # w.user => wallet'[c] = wallet[c]
  BY <1>1, <1>2, <1>3, <1>5 DEF TypeOK
<1>8. OthersSame(t) /\ task'[t].step = "credit" /\ task'[t].work = w
  BY <1>6 DEF Moved
<1>9. Transit[t] = 0 /\ Transit'[t] = w.stars
  BY <1>2, <1>8 DEF Transit, InTransit
<1>10. SumOf(wallet, Accounts)' = SumOf(wallet, Accounts) + wallet'[w.user] - wallet[w.user] /\ SumOf(wallet, Accounts) \in Int
  BY <1>1, <1>2, <1>7, WalletSum
<1>11. lost \in Int /\ minted \in Int /\ wallet[w.user] \in Int
  BY <1>1, <1>2 DEF TypeOK
<1> HIDE DEF w
<1>12. Conserves(t)
  BY <1>2, <1>4, <1>7, <1>9, <1>10, <1>11 DEF Conserves
<1>13. PurposeOf(t)' /\ "credit" \notin UseSteps
  BY <1>8 DEF PurposeOf, UseSteps
<1> QED BY <1>2, <1>4, <1>8, <1>12, <1>13 DEF Advances, w

LEMMA EndedTransit ==
    ASSUME TypeOK, NEW t \in Tasks, Ends(t)
    PROVE  Transit'[t] = 0
<1>1. task'[t] = IdleTask
  BY EndsFacts
<1> QED BY <1>1, IdleType DEF Transit, InTransit

LEMMA QuietFinish ==
    ASSUME LedgerInv, NEW t \in Tasks, Ends(t), task[t].step # "receipt", ~InTransit(t),
           UNCHANGED <<wallet, minted, lost, paid, payments, doubtful>>
    PROVE  Finishes(t)
<1>1. TypeOK
  BY DEF LedgerInv
<1>2. Transit'[t] = Transit[t]
  BY <1>1, EndedTransit DEF Transit
<1>3. Conserves(t)
  BY <1>1, <1>2, SameWallets
<1> QED BY <1>1, <1>3, EndsFacts DEF Finishes

LEMMA InvoiceIsPaidFinishes == ASSUME LedgerInv, NEW t \in Tasks, InvoiceIsPaid(t) PROVE Finishes(t)
<1>1. task[t].step = "load" /\ Ends(t) /\ UNCHANGED <<wallet, minted, lost, paid, payments, doubtful>>
  BY DEF InvoiceIsPaid, money, store
<1> QED BY <1>1, QuietFinish DEF InTransit

LEMMA CheckExpiredFinishes == ASSUME LedgerInv, NEW t \in Tasks, CheckExpired(t) PROVE Finishes(t)
<1>1. task[t].step = "load" /\ Ends(t) /\ UNCHANGED <<wallet, minted, lost, paid, payments, doubtful>>
  BY DEF CheckExpired, money, store
<1> QED BY <1>1, QuietFinish DEF InTransit

LEMMA PrecheckoutTimeoutFinishes == ASSUME LedgerInv, NEW t \in Tasks, PrecheckoutTimeout(t) PROVE Finishes(t)
<1>1. task[t].step = "wait" /\ Ends(t) /\ UNCHANGED <<wallet, minted, lost, paid, payments, doubtful>>
  BY DEF PrecheckoutTimeout, money, store
<1> QED BY <1>1, QuietFinish DEF InTransit

LEMMA DeleteFormFinishes == ASSUME LedgerInv, NEW t \in Tasks, DeleteForm(t), AfterForm(task[t].work) = "idle" PROVE Finishes(t)
<1>1. task[t].step = "delete" /\ Ends(t) /\ UNCHANGED <<wallet, minted, lost, paid, payments, doubtful>>
  BY DEF DeleteForm, money, store
<1> QED BY <1>1, QuietFinish DEF InTransit

LEMMA DebitCommitsFinishes == ASSUME LedgerInv, NEW t \in Tasks, DebitCommits(t), TooLow(t) PROVE Finishes(t)
<1>1. task[t].step = "debit2" /\ Ends(t) /\ UNCHANGED <<wallet, minted, lost, paid, payments, doubtful>>
  BY DEF DebitCommits, money, store
<1> QED BY <1>1, QuietFinish DEF InTransit

LEMMA PayTooLowFinishes == ASSUME LedgerInv, NEW t \in Tasks, PayTooLow(t) PROVE Finishes(t)
<1>1. task[t].step = "pay2" /\ Ends(t) /\ UNCHANGED <<wallet, minted, lost, paid, payments, doubtful>>
  BY DEF PayTooLow, money, store
<1> QED BY <1>1, QuietFinish DEF InTransit

LEMMA BotRefuses ==
    ASSUME LedgerInv, NEW t \in Tasks, BotAnswers(t, FALSE), task[t].step # "ask"
    PROVE  Finishes(t)
<1>1. task[t].step = "wait" /\ Ends(t) /\ UNCHANGED <<wallet, minted, lost, paid, payments, doubtful>>
  BY DEF BotAnswers, money, store
<1> QED BY <1>1, QuietFinish DEF InTransit

LEMMA RollbackFinishes ==
    ASSUME LedgerInv, NEW t \in Tasks, task[t].step # "idle", Rollback(t)
    PROVE  Finishes(t)
<1>1. TypeOK
  BY DEF LedgerInv
<1>2. Ends(t) /\ UNCHANGED <<wallet, minted, paid, payments>>
  BY DEF Rollback, store
<1>3. doubtful \subseteq doubtful' /\ (task[t].step = "receipt" => task[t].work \in doubtful')
  BY DEF Rollback
<1>4. lost' = lost + Transit[t]
  BY <1>1 DEF Rollback, Transit, TypeOK
<1>5. SumOf(wallet, Accounts)' = SumOf(wallet, Accounts) /\ SumOf(wallet, Accounts) \in Int
  <2>0. SumOf(wallet, Accounts)' = SumOf(wallet', Accounts)
    OBVIOUS
  <2>1. SumOf(wallet, Accounts)' = SumOf(wallet, Accounts)
    BY <1>2, <2>0
  <2>2. wallet \in [Accounts -> Int] /\ task[t].work.user \in Accounts
    BY <1>1, WorkFacts DEF TypeOK
  <2>3. SumOf(wallet, Accounts) \in Int
    BY <2>2, FiniteAssumption, SumChanges
  <2> QED BY <2>1, <2>3
<1>6. Transit'[t] = 0 /\ Transit[t] \in Int /\ lost \in Int /\ minted \in Int /\ minted' = minted
  BY <1>1, <1>2, EndedTransit, TransitType DEF TypeOK
<1>7. Conserves(t)
  BY <1>4, <1>5, <1>6 DEF Conserves
<1> QED BY <1>1, <1>2, <1>3, <1>7, EndsFacts DEF Finishes

LEMMA CreditCommitsFinishes ==
    ASSUME LedgerInv, TypeOK', NEW t \in Tasks, CreditCommits(t)
    PROVE  Finishes(t)
<1> DEFINE w == task[t].work
<1>1. TypeOK /\ HeldBy(t) /\ NoRowIsEmpty
  BY DEF LedgerInv, RowsHeld
<1>2. /\ task[t].step = "credit2" /\ w.to \in Accounts /\ w.stars \in Nat
      /\ task[t] \in TaskStates
  BY <1>1, WorkFacts DEF CreditCommits
<1>3. task[t].read = wallet[w.to] /\ wallet[w.to] \in Int
  BY <1>1, <1>2 DEF CreditCommits, HeldBy, Holds, RowIsMine, NoRowIsEmpty, TypeOK
<1>4. Ends(t) /\ UNCHANGED <<paid, payments, doubtful, lost>>
  BY DEF CreditCommits, store
<1>5. wallet'[w.to] = wallet[w.to] + w.stars /\ \A c \in Accounts : c # w.to => wallet'[c] = wallet[c]
  BY <1>1, <1>2, <1>3 DEF CreditCommits, TypeOK
<1>6. SumOf(wallet, Accounts)' = SumOf(wallet, Accounts) + wallet'[w.to] - wallet[w.to] /\ SumOf(wallet, Accounts) \in Int
  BY <1>1, <1>2, <1>5, WalletSum
<1>7. Transit'[t] = 0 /\ lost \in Int /\ minted \in Int
  BY <1>1, <1>4, EndedTransit DEF TypeOK
<1>8. CASE w.purpose = "gift" /\ w.xtr
  <2>1. Transit[t] = w.stars /\ minted' = minted
    BY <1>2, <1>8 DEF Transit, InTransit, CreditCommits
  <2> HIDE DEF w
  <2>2. Conserves(t)
    BY <1>2, <1>3, <1>4, <1>5, <1>6, <1>7, <2>1 DEF Conserves
  <2> QED BY <1>1, <1>2, <1>4, <2>2, EndsFacts DEF Finishes
<1>9. CASE ~(w.purpose = "gift" /\ w.xtr)
  <2>1. Transit[t] = 0 /\ minted' = minted + w.stars
    BY <1>2, <1>9 DEF Transit, InTransit, CreditCommits
  <2> HIDE DEF w
  <2>2. Conserves(t)
    BY <1>2, <1>3, <1>4, <1>5, <1>6, <1>7, <2>1 DEF Conserves
  <2> QED BY <1>1, <1>2, <1>4, <2>2, EndsFacts DEF Finishes
<1> QED BY <1>8, <1>9

LEMMA SetCommitsFinishes ==
    ASSUME LedgerInv, TypeOK', NEW t \in Tasks, SetCommits(t)
    PROVE  Finishes(t)
<1> DEFINE w == task[t].work
<1>1. TypeOK /\ HeldBy(t) /\ NoRowIsEmpty
  BY DEF LedgerInv, RowsHeld
<1>2. /\ task[t].step = "set2" /\ w.to \in Accounts /\ w.stars \in Nat
      /\ task[t] \in TaskStates
  BY <1>1, WorkFacts DEF SetCommits
<1>3. task[t].read = wallet[w.to] /\ wallet[w.to] \in Int
  BY <1>1, <1>2 DEF SetCommits, HeldBy, Holds, RowIsMine, NoRowIsEmpty, TypeOK
<1>4. Ends(t) /\ UNCHANGED <<paid, payments, doubtful, lost>>
  BY DEF SetCommits, store
<1>5. /\ wallet'[w.to] = w.stars /\ \A c \in Accounts : c # w.to => wallet'[c] = wallet[c]
      /\ minted' = minted + (w.stars - wallet[w.to])
  BY <1>1, <1>2, <1>3 DEF SetCommits, TypeOK
<1>6. SumOf(wallet, Accounts)' = SumOf(wallet, Accounts) + wallet'[w.to] - wallet[w.to] /\ SumOf(wallet, Accounts) \in Int
  BY <1>1, <1>2, <1>5, WalletSum
<1>7. Transit'[t] = 0 /\ Transit[t] = 0 /\ lost \in Int /\ minted \in Int
  BY <1>1, <1>2, <1>4, EndedTransit DEF TypeOK, Transit, InTransit
<1> HIDE DEF w
<1>8. Conserves(t)
  BY <1>2, <1>3, <1>4, <1>5, <1>6, <1>7 DEF Conserves
<1> QED BY <1>1, <1>2, <1>4, <1>8, EndsFacts DEF Finishes

-----------------------------------------------------------------------------
(* The inductive invariant of the payments *)

PurposesFit == \A t \in Tasks : PurposeOf(t)

\* Two requests that work on the same invoice make it doubtful.
OverlapIsDoubtful ==
    \A s, t \in Tasks :
        s # t /\ task[s].work = task[t].work /\ task[t].work \in Invoices
            => task[t].work \in doubtful

\* A receipt, and what it is kept in, follow a payment.
ReceiptsArePaidFor ==
    /\ \A t \in Tasks : task[t].step = "receipt" => payments[task[t].work] > 0
    /\ \A k \in paid : payments[k] > 0

\* An invoice without a doubt was paid at most once; then its receipt is there
\* or is being written, and no other request is past the check for it.
PaidOnce(k) ==
    k \notin doubtful =>
        /\ payments[k] <= 1
        /\ payments[k] > 0 => \/ k \in paid
                              \/ \E t \in Tasks : task[t].work = k /\ task[t].step = "receipt"
        /\ \A t \in Tasks :
               task[t].work = k /\ task[t].step \notin {"load", "receipt"} => payments[k] = 0

NoDoubtNoSecond == \A k \in Invoices : PaidOnce(k)

PaymentsInv ==
    /\ LedgerInv
    /\ StarsConserved
    /\ PurposesFit
    /\ PaidOnlyIfApproved
    /\ OverlapIsDoubtful
    /\ ReceiptsArePaidFor
    /\ NoDoubtNoSecond

LEMMA PaymentsInit == Init => PaymentsInv
<1> SUFFICES ASSUME Init PROVE PaymentsInv
  OBVIOUS
<1>1. LedgerInv /\ TypeOK
  BY LedgerInit DEF LedgerInv
<1>2. \A t \in Tasks : task[t] = IdleTask
  BY DEF Init
<1>3. NoWork \notin Invoices
  BY WorkTypes
<1>4. StarsConserved
  <2>1. Transit \in [Tasks -> Int] /\ \A t \in Tasks : Transit[t] = 0
    BY <1>1, <1>2, TransitType, IdleType DEF Transit, InTransit
  <2>2. wallet \in [Accounts -> Int] /\ \A a \in Accounts : wallet[a] = 0
    BY DEF Init
  <2>3. SumOf(Transit, Tasks) = 0 /\ SumOf(wallet, Accounts) = 0
    BY <2>1, <2>2, FiniteAssumption, SumOfZeros
  <2>4. lost = 0 /\ minted = 0
    BY DEF Init
  <2> QED BY <2>3, <2>4 DEF StarsConserved
<1>5. PurposesFit /\ PaidOnlyIfApproved /\ OverlapIsDoubtful
  BY <1>2, <1>3, IdleType DEF PurposesFit, PurposeOf, PaidOnlyIfApproved, OverlapIsDoubtful
<1>6. ReceiptsArePaidFor /\ NoDoubtNoSecond
  BY <1>2, IdleType DEF Init, ReceiptsArePaidFor, NoDoubtNoSecond, PaidOnce
<1> QED BY <1>1, <1>4, <1>5, <1>6 DEF PaymentsInv

LEMMA WalletTotalType == TypeOK => SumOf(wallet, Accounts) \in Int
<1> SUFFICES ASSUME TypeOK PROVE SumOf(wallet, Accounts) \in Int
  OBVIOUS
<1>1. wallet \in [Accounts -> Int]
  BY DEF TypeOK
<1>2. CASE Accounts = {}
  <2>1. \A a \in Accounts : wallet[a] = 0
    BY <1>2
  <2> QED BY <1>1, <2>1, FiniteAssumption, SumOfZeros
<1>3. CASE Accounts # {}
  <2>1. PICK a \in Accounts : TRUE
    BY <1>3
  <2> QED BY <1>1, <2>1, FiniteAssumption, SumChanges
<1> QED BY <1>2, <1>3

LEMMA WalletTotalTypeNext == TypeOK' => SumOf(wallet, Accounts)' \in Int
<1>1. (TypeOK => SumOf(wallet, Accounts) \in Int)'
  BY WalletTotalType, PTL
<1> QED BY <1>1

LEMMA ConservedNext ==
    ASSUME TypeOK, TypeOK', StarsConserved, NEW t \in Tasks, OthersSame(t), Conserves(t)
    PROVE  StarsConserved'
<1>1. /\ SumOf(Transit, Tasks)' = SumOf(Transit, Tasks) + Transit'[t] - Transit[t]
      /\ SumOf(Transit, Tasks) \in Int /\ Transit[t] \in Int /\ Transit'[t] \in Int
  BY TransitSum
<1>2. lost \in Int /\ lost' \in Int /\ minted \in Int /\ minted' \in Int
  BY DEF TypeOK
<1>3. SumOf(wallet, Accounts) \in Int /\ SumOf(wallet, Accounts)' \in Int
  BY WalletTotalType, WalletTotalTypeNext
<1>4. /\ SumOf(wallet, Accounts)' + lost' + Transit'[t] - minted'
              = SumOf(wallet, Accounts) + lost + Transit[t] - minted
      /\ SumOf(wallet, Accounts) + lost + SumOf(Transit, Tasks) = minted
  BY DEF Conserves, StarsConserved
<1>5. SumOf(wallet, Accounts)' + lost' + SumOf(Transit, Tasks)' = minted'
  BY <1>1, <1>2, <1>3, <1>4
<1> QED BY <1>5 DEF StarsConserved

LEMMA AdvanceKeeps ==
    ASSUME PaymentsInv, LedgerInv', NEW t \in Tasks, Advances(t)
    PROVE  PaymentsInv'
<1>1. /\ OthersSame(t) /\ task'[t].work = task[t].work
      /\ task[t].step \notin {"idle", "receipt"} /\ task'[t].step \notin {"idle", "load", "receipt"}
      /\ task[t].step = "load" => task[t].work \notin paid
      /\ paid' = paid /\ payments' = payments /\ doubtful' = doubtful
      /\ consent \subseteq consent'
  BY DEF Advances
<1>2. StarsConserved'
  BY ConservedNext DEF PaymentsInv, LedgerInv, Advances
<1>3. PurposesFit'
  BY <1>1 DEF PaymentsInv, PurposesFit, PurposeOf, Advances, OthersSame
<1>4. PaidOnlyIfApproved'
  <2> SUFFICES ASSUME NEW s \in Tasks, NeedsConsent(task'[s].work), task'[s].step \in UseSteps
               PROVE  s \in consent'
    BY DEF PaidOnlyIfApproved, NeedsConsent, UseSteps
  <2>1. \A r \in Tasks : NeedsConsent(task[r].work) /\ task[r].step \in UseSteps => r \in consent
    BY DEF PaymentsInv, PaidOnlyIfApproved, NeedsConsent, UseSteps
  <2>2. CASE s = t
    BY <1>1, <2>1, <2>2 DEF Advances
  <2>3. CASE s # t
    BY <1>1, <2>1, <2>3 DEF OthersSame
  <2> QED BY <2>2, <2>3
<1>5. \A s \in Tasks : task'[s].work = task[s].work
  BY <1>1 DEF OthersSame
<1>6. OverlapIsDoubtful'
  BY <1>1, <1>5 DEF PaymentsInv, OverlapIsDoubtful
<1>7. \A s \in Tasks : task'[s].step = "receipt" <=> task[s].step = "receipt"
  BY <1>1 DEF OthersSame
<1>8. ReceiptsArePaidFor'
  BY <1>1, <1>5, <1>7 DEF PaymentsInv, ReceiptsArePaidFor
<1>9. NoDoubtNoSecond'
  <2> SUFFICES ASSUME NEW k \in Invoices, k \notin doubtful PROVE PaidOnce(k)'
    BY <1>1 DEF NoDoubtNoSecond, PaidOnce
  <2>1. PaidOnce(k) /\ payments[k] \in Nat
    BY DEF PaymentsInv, NoDoubtNoSecond, LedgerInv, TypeOK
  <2>2. payments[k] <= 1 /\
        (payments[k] > 0 => \/ k \in paid
                            \/ \E s \in Tasks : task'[s].work = k /\ task'[s].step = "receipt")
    BY <1>5, <1>7, <2>1 DEF PaidOnce
  <2>3. ASSUME NEW s \in Tasks, task'[s].work = k, task'[s].step \notin {"load", "receipt"}
        PROVE  payments[k] = 0
    <3>1. CASE s # t
      BY <1>1, <2>1, <2>3, <3>1 DEF PaidOnce, OthersSame
    <3>2. CASE s = t /\ task[t].step # "load"
      BY <1>1, <2>1, <2>3, <3>2 DEF PaidOnce
    <3>3. CASE s = t /\ task[t].step = "load"
      <4>1. k \notin paid /\ task[t].work = k
        BY <1>1, <2>3, <3>3
      <4>2. \A r \in Tasks : ~(task[r].work = k /\ task[r].step = "receipt")
        BY <3>3, <4>1 DEF PaymentsInv, OverlapIsDoubtful
      <4> QED BY <2>1, <4>1, <4>2 DEF PaidOnce
    <3> QED BY <3>1, <3>2, <3>3
  <2> QED BY <1>1, <2>2, <2>3 DEF PaidOnce
<1> QED BY <1>2, <1>3, <1>4, <1>6, <1>8, <1>9 DEF PaymentsInv

LEMMA FinishKeeps ==
    ASSUME PaymentsInv, LedgerInv', NEW t \in Tasks, Finishes(t)
    PROVE  PaymentsInv'
<1>1. /\ OthersSame(t) /\ task'[t].step = "idle" /\ task'[t].work = NoWork
      /\ task[t].step = "receipt" => task[t].work \in doubtful'
      /\ paid' = paid /\ payments' = payments /\ doubtful \subseteq doubtful'
      /\ consent' = consent \ {t}
  BY IdleType DEF Finishes
<1>2. NoWork \notin Invoices
  BY WorkTypes
<1>3. StarsConserved'
  BY ConservedNext DEF PaymentsInv, LedgerInv, Finishes
<1>4. PurposesFit'
  BY <1>1 DEF PaymentsInv, PurposesFit, PurposeOf, OthersSame
<1>5. PaidOnlyIfApproved'
  BY <1>1, <1>2 DEF PaymentsInv, PaidOnlyIfApproved, OthersSame
<1>6. OverlapIsDoubtful'
  BY <1>1, <1>2 DEF PaymentsInv, OverlapIsDoubtful, OthersSame
<1>7. ReceiptsArePaidFor'
  BY <1>1 DEF PaymentsInv, ReceiptsArePaidFor, OthersSame
<1>8. NoDoubtNoSecond'
  <2> SUFFICES ASSUME NEW k \in Invoices, k \notin doubtful' PROVE PaidOnce(k)'
    BY DEF NoDoubtNoSecond, PaidOnce
  <2>1. PaidOnce(k) /\ k \notin doubtful
    BY <1>1 DEF PaymentsInv, NoDoubtNoSecond
  <2>2. ~(task[t].step = "receipt" /\ task[t].work = k)
    BY <1>1
  <2>3. payments[k] > 0 => \/ k \in paid
                           \/ \E s \in Tasks : task'[s].work = k /\ task'[s].step = "receipt"
    BY <1>1, <2>1, <2>2 DEF PaidOnce, OthersSame
  <2>4. \A s \in Tasks : task'[s].work = k /\ task'[s].step \notin {"load", "receipt"} => payments[k] = 0
    BY <1>1, <1>2, <2>1 DEF PaidOnce, OthersSame
  <2> QED BY <1>1, <2>1, <2>3, <2>4 DEF PaidOnce
<1> QED BY <1>3, <1>4, <1>5, <1>6, <1>7, <1>8 DEF PaymentsInv

\* A request is taken up: a submission, a grant or a setting.
LEMMA TakenUpKeeps ==
    ASSUME PaymentsInv, LedgerInv', NEW t \in Tasks, OthersSame(t), task[t].step = "idle",
           task'[t].step \in {"load", "credit", "set"}, task'[t].work.purpose # "gift" \/ task'[t].step = "load",
           task'[t].work \in Invoices => task'[t].step = "load",
           \A s \in Tasks : s # t /\ task[s].work = task'[t].work /\ task[s].work \in Invoices
               => task[s].work \in doubtful',
           doubtful \subseteq doubtful',
           UNCHANGED <<wallet, minted, lost, paid, payments, consent>>
    PROVE  PaymentsInv'
<1>1. TypeOK /\ TypeOK'
  BY DEF PaymentsInv, LedgerInv
<1>2. StarsConserved'
  <2>1. Transit'[t] = Transit[t]
    BY DEF Transit, InTransit
  <2> QED BY <1>1, <2>1, SameWallets, ConservedNext DEF PaymentsInv
<1>3. PurposesFit'
  BY DEF PaymentsInv, PurposesFit, PurposeOf, OthersSame
<1>4. PaidOnlyIfApproved'
  BY DEF PaymentsInv, PaidOnlyIfApproved, OthersSame
<1>5. OverlapIsDoubtful'
  <2> SUFFICES ASSUME NEW r \in Tasks, NEW s \in Tasks, r # s,
                      task'[r].work = task'[s].work, task'[s].work \in Invoices
               PROVE  task'[s].work \in doubtful'
    BY DEF OverlapIsDoubtful
  <2>1. CASE r = t
    BY <2>1 DEF OthersSame
  <2>2. CASE s = t
    BY <2>2 DEF OthersSame
  <2>3. CASE r # t /\ s # t
    BY <2>3 DEF OthersSame, PaymentsInv, OverlapIsDoubtful
  <2> QED BY <2>1, <2>2, <2>3
<1>6. ReceiptsArePaidFor'
  BY DEF PaymentsInv, ReceiptsArePaidFor, OthersSame
<1>7. NoDoubtNoSecond'
  <2> SUFFICES ASSUME NEW k \in Invoices, k \notin doubtful' PROVE PaidOnce(k)'
    BY DEF NoDoubtNoSecond, PaidOnce
  <2>1. PaidOnce(k) /\ k \notin doubtful
    BY DEF PaymentsInv, NoDoubtNoSecond
  <2>2. payments[k] > 0 => \/ k \in paid
                           \/ \E s \in Tasks : task'[s].work = k /\ task'[s].step = "receipt"
    BY <2>1 DEF PaidOnce, OthersSame
  <2>3. \A s \in Tasks : task'[s].work = k /\ task'[s].step \notin {"load", "receipt"} => payments[k] = 0
    BY <2>1 DEF PaidOnce, OthersSame
  <2> QED BY <2>1, <2>2, <2>3 DEF PaidOnce
<1> QED BY <1>2, <1>3, <1>4, <1>5, <1>6, <1>7 DEF PaymentsInv

LEMMA TakeUps ==
    ASSUME PaymentsInv, LedgerInv', NEW t \in Tasks,
           \/ \E i \in FormIds : Submit(t, i)
           \/ \E a \in Users, n \in Amounts : GrantStars(t, a, n) \/ SetStarsBalance(t, a, n)
    PROVE  PaymentsInv'
<1>1. TypeOK
  BY DEF PaymentsInv, LedgerInv
<1>2. ASSUME NEW i \in FormIds, Submit(t, i) PROVE PaymentsInv'
  <2>1. task' = [task EXCEPT ![t] = [IdleTask EXCEPT !.step = "load", !.id = i, !.work = form[i]]]
    BY <1>2 DEF Submit
  <2>2. OthersSame(t) /\ task'[t].step = "load" /\ task'[t].work = form[i] /\ task[t].step = "idle"
    BY <1>1, <1>2, <2>1, ZenonT(60) DEF OthersSame, TypeOK, IdleTask, Submit
  <2>3. /\ doubtful \subseteq doubtful'
        /\ UNCHANGED <<wallet, minted, lost, paid, payments, consent>>
    BY <1>2 DEF Submit, money, store
  <2>4. \A s \in Tasks : s # t /\ task[s].work = task'[t].work /\ task[s].work \in Invoices
            => task[s].work \in doubtful'
    BY <1>2, <2>2 DEF Submit
  <2> QED BY <2>2, <2>3, <2>4, TakenUpKeeps
<1>3. ASSUME NEW a \in Users, NEW n \in Amounts, GrantStars(t, a, n) PROVE PaymentsInv'
  <2>1. task' = [task EXCEPT ![t] = [IdleTask EXCEPT !.step = "credit",
                    !.work = [NoWork EXCEPT !.user = a, !.to = a, !.stars = n]]]
    BY <1>3 DEF GrantStars
  <2> DEFINE w == [NoWork EXCEPT !.user = a, !.to = a, !.stars = n]
             r == [IdleTask EXCEPT !.step = "credit", !.work = [NoWork EXCEPT !.user = a, !.to = a, !.stars = n]]
  <2>a. w.purpose = "grant" /\ r.step = "credit" /\ r.work = w
    BY DEF NoWork, IdleTask
  <2>b. task' = [task EXCEPT ![t] = r] /\ task[t].step = "idle"
    BY <1>3, <2>1 DEF GrantStars
  <2> HIDE DEF w, r
  <2>2. OthersSame(t) /\ task'[t].step = "credit" /\ task'[t].work.purpose = "grant" /\ task[t].step = "idle"
    BY <1>1, <2>a, <2>b DEF OthersSame, TypeOK
  <2>3. /\ doubtful \subseteq doubtful'
        /\ UNCHANGED <<wallet, minted, lost, paid, payments, consent>>
    BY <1>3 DEF GrantStars, money, store, history
  <2>4. task'[t].work \notin Invoices
    BY <2>2 DEF Invoices
  <2> QED BY <2>2, <2>3, <2>4, TakenUpKeeps
<1>4. ASSUME NEW a \in Users, NEW n \in Amounts, SetStarsBalance(t, a, n) PROVE PaymentsInv'
  <2>1. task' = [task EXCEPT ![t] = [IdleTask EXCEPT !.step = "set",
                    !.work = [NoWork EXCEPT !.purpose = "set", !.user = a, !.to = a, !.stars = n]]]
    BY <1>4 DEF SetStarsBalance
  <2> DEFINE w == [NoWork EXCEPT !.purpose = "set", !.user = a, !.to = a, !.stars = n]
             r == [IdleTask EXCEPT !.step = "set", !.work = [NoWork EXCEPT !.purpose = "set", !.user = a, !.to = a, !.stars = n]]
  <2>a. w.purpose = "set" /\ r.step = "set" /\ r.work = w
    BY DEF NoWork, IdleTask
  <2>b. task' = [task EXCEPT ![t] = r] /\ task[t].step = "idle"
    BY <1>4, <2>1 DEF SetStarsBalance
  <2> HIDE DEF w, r
  <2>2. OthersSame(t) /\ task'[t].step = "set" /\ task'[t].work.purpose = "set" /\ task[t].step = "idle"
    BY <1>1, <2>a, <2>b DEF OthersSame, TypeOK
  <2>3. /\ doubtful \subseteq doubtful'
        /\ UNCHANGED <<wallet, minted, lost, paid, payments, consent>>
    BY <1>4 DEF SetStarsBalance, money, store, history
  <2>4. task'[t].work \notin Invoices
    BY <2>2 DEF Invoices
  <2> QED BY <2>2, <2>3, <2>4, TakenUpKeeps
<1> QED BY <1>2, <1>3, <1>4

\* The transfer: if the invoice is not doubtful, this is its first payment.
LEMMA PayCommitsKeeps ==
    ASSUME PaymentsInv, LedgerInv', NEW t \in Tasks, PayCommits(t)
    PROVE  PaymentsInv'
<1> DEFINE w == task[t].work
           net == BotNetStars(w.stars)
<1>1. TypeOK /\ TypeOK' /\ HeldBy(t) /\ WorkOf(t) /\ NoRowIsEmpty
  BY DEF PaymentsInv, LedgerInv, RowsHeld, WorkIsForm
<1>2. /\ task[t].step = "pay3" /\ w \in Invoices /\ w.user # w.to /\ w.purpose = "invoice"
      /\ w.user \in Accounts /\ w.to \in Accounts /\ w.stars \in Nat
  BY <1>1, WorkFacts, WorkTypes DEF PayCommits, WorkOf, Invoices
<1>3. Moved(t, "receipt")
  BY <1>1, MovedFacts DEF PayCommits
<1>4. OthersSame(t) /\ task'[t].step = "receipt" /\ task'[t].work = w
  BY <1>3 DEF Moved
<1>5. /\ payments' = [payments EXCEPT ![w] = @ + 1]
      /\ paid' = paid /\ doubtful' = doubtful /\ consent' = consent /\ lost' = lost
  BY DEF PayCommits, store
<1>6. payments \in [Invoices -> Nat] /\ lost \in Int /\ minted \in Int
  BY <1>1 DEF TypeOK
<1>7. StarsConserved'
  <2>1. net \in Nat
    BY <1>2, NetIsNat
  <2>2. task[t].read = wallet[w.user] /\ task[t].read2 = wallet[w.to]
    BY <1>1, <1>2 DEF PayCommits, HeldBy, Holds, RowIsMine, NoRowIsEmpty
  <2>3. wallet' = [wallet EXCEPT ![w.user] = task[t].read - w.stars, ![w.to] = task[t].read2 + net]
        /\ minted' = minted - (w.stars - net)
    BY DEF PayCommits
  <2>4. wallet[w.user] \in Int /\ wallet[w.to] \in Int /\ wallet \in [Accounts -> Int]
    BY <1>1, <1>2 DEF TypeOK
  <2> HIDE DEF net
  <2>5. /\ wallet'[w.user] = wallet[w.user] - w.stars /\ wallet'[w.to] = wallet[w.to] + net
        /\ \A c \in Accounts : c \notin {w.user, w.to} => wallet'[c] = wallet[c]
    BY <1>2, <2>2, <2>3, <2>4
  <2>6. /\ SumOf(wallet, Accounts)' = SumOf(wallet, Accounts) + (wallet'[w.user] - wallet[w.user])
                                             + (wallet'[w.to] - wallet[w.to])
        /\ SumOf(wallet, Accounts) \in Int
    BY <1>1, <1>2, <2>5, TwoWalletsSum
  <2>7. Transit[t] = 0 /\ Transit'[t] = 0
    BY <1>2, <1>4 DEF Transit, InTransit
  <2> HIDE DEF w
  <2>8. minted' = minted - (w.stars - net)
    BY <2>3
  <2>9. Conserves(t)
    BY <1>2, <1>5, <1>6, <2>1, <2>4, <2>5, <2>6, <2>7, <2>8 DEF Conserves
  <2> QED BY <1>1, <1>4, <2>9, ConservedNext DEF PaymentsInv
<1>8. PurposesFit'
  BY <1>4 DEF PaymentsInv, PurposesFit, PurposeOf, OthersSame
<1>9. PaidOnlyIfApproved'
  BY <1>2, <1>4, <1>5 DEF PaymentsInv, PaidOnlyIfApproved, OthersSame
<1>10. \A s \in Tasks : task'[s].work = task[s].work
  BY <1>4 DEF OthersSame
<1>11. OverlapIsDoubtful'
  BY <1>5, <1>10 DEF PaymentsInv, OverlapIsDoubtful
<1>12. \A k \in Invoices : payments'[k] = IF k = w THEN payments[k] + 1 ELSE payments[k]
  BY <1>2, <1>5, <1>6
<1>13. ReceiptsArePaidFor'
  <2>1. \A k \in Invoices : payments[k] > 0 => payments'[k] > 0
    BY <1>6, <1>12
  <2>2. payments'[w] > 0
    BY <1>2, <1>6, <1>12
  <2>3. \A k \in paid' : payments'[k] > 0
    BY <1>1, <1>5, <2>1 DEF PaymentsInv, ReceiptsArePaidFor, TypeOK
  <2>4. ASSUME NEW s \in Tasks, task'[s].step = "receipt" PROVE payments'[task'[s].work] > 0
    <3>1. CASE s = t
      BY <1>4, <2>2, <3>1
    <3>2. CASE s # t
      <4>1. task[s].step = "receipt" /\ task[s].work \in Invoices /\ payments[task[s].work] > 0
        BY <1>4, <2>4, <3>2 DEF OthersSame, PaymentsInv, LedgerInv, WorkIsForm, WorkOf, ReceiptsArePaidFor
      <4> QED BY <1>10, <2>1, <4>1
    <3> QED BY <3>1, <3>2
  <2> QED BY <2>3, <2>4 DEF ReceiptsArePaidFor
<1>14. NoDoubtNoSecond'
  <2> SUFFICES ASSUME NEW k \in Invoices, k \notin doubtful PROVE PaidOnce(k)'
    BY <1>5 DEF NoDoubtNoSecond, PaidOnce
  <2>1. PaidOnce(k)
    BY DEF PaymentsInv, NoDoubtNoSecond
  <2>2. CASE k = w
    <3>1. payments[k] = 0
      BY <1>2, <2>1, <2>2 DEF PaidOnce
    <3>2. payments'[k] = 1
      BY <1>12, <2>2, <3>1
    <3>3. \A s \in Tasks : task'[s].work = k => s = t
      BY <1>2, <1>10, <2>2 DEF PaymentsInv, OverlapIsDoubtful
    <3> HIDE DEF w
    <3> QED BY <1>4, <2>2, <3>2, <3>3 DEF PaidOnce
  <2>3. CASE k # w
    <3>1. payments'[k] = payments[k]
      BY <1>12, <2>3
    <3>2. payments[k] > 0 => \/ k \in paid
                             \/ \E s \in Tasks : task'[s].work = k /\ task'[s].step = "receipt"
      BY <1>4, <2>1, <2>3 DEF PaidOnce, OthersSame
    <3>3. \A s \in Tasks : task'[s].work = k /\ task'[s].step \notin {"load", "receipt"} => payments[k] = 0
      BY <1>4, <2>1, <2>3 DEF PaidOnce, OthersSame
    <3> QED BY <1>5, <2>1, <3>1, <3>2, <3>3 DEF PaidOnce
  <2> QED BY <2>2, <2>3
<1> QED BY <1>7, <1>8, <1>9, <1>11, <1>13, <1>14 DEF PaymentsInv

\* The receipt is written: the invoice is closed.
LEMMA MarkPaidKeeps ==
    ASSUME PaymentsInv, LedgerInv', NEW t \in Tasks, MarkPaid(t)
    PROVE  PaymentsInv'
<1> DEFINE w == task[t].work
<1>1. TypeOK /\ TypeOK' /\ WorkOf(t)
  BY DEF PaymentsInv, LedgerInv, WorkIsForm
<1>2. task[t].step = "receipt" /\ w \in Invoices /\ payments[w] > 0
  BY <1>1 DEF MarkPaid, WorkOf, PaymentsInv, ReceiptsArePaidFor
<1>3. OthersSame(t) /\ task'[t] = IdleTask /\ consent' = consent \ {t}
  BY <1>1, EndsFacts DEF MarkPaid
<1>4. task'[t].step = "idle" /\ task'[t].work = NoWork /\ NoWork \notin Invoices
  BY <1>3, IdleType, WorkTypes
<1>5. /\ paid' = paid \cup {w}
      /\ UNCHANGED <<wallet, minted, lost, payments, doubtful>>
  BY DEF MarkPaid, money
<1>6. StarsConserved'
  <2>1. Transit'[t] = Transit[t]
    BY <1>2, <1>4 DEF Transit, InTransit
  <2> QED BY <1>1, <1>3, <1>5, <2>1, SameWallets, ConservedNext DEF PaymentsInv
<1>7. PurposesFit'
  BY <1>3, <1>4 DEF PaymentsInv, PurposesFit, PurposeOf, OthersSame
<1>8. PaidOnlyIfApproved'
  BY <1>3, <1>4 DEF PaymentsInv, PaidOnlyIfApproved, OthersSame
<1>9. OverlapIsDoubtful'
  BY <1>3, <1>4, <1>5 DEF PaymentsInv, OverlapIsDoubtful, OthersSame
<1>10. ReceiptsArePaidFor'
  BY <1>2, <1>3, <1>4, <1>5 DEF PaymentsInv, ReceiptsArePaidFor, OthersSame
<1>11. NoDoubtNoSecond'
  <2> SUFFICES ASSUME NEW k \in Invoices, k \notin doubtful PROVE PaidOnce(k)'
    BY <1>5 DEF NoDoubtNoSecond, PaidOnce
  <2>1. PaidOnce(k)
    BY DEF PaymentsInv, NoDoubtNoSecond
  <2>2. payments[k] > 0 => \/ k \in paid'
                           \/ \E s \in Tasks : task'[s].work = k /\ task'[s].step = "receipt"
    BY <1>3, <1>5, <2>1 DEF PaidOnce, OthersSame
  <2>3. \A s \in Tasks : task'[s].work = k /\ task'[s].step \notin {"load", "receipt"} => payments[k] = 0
    BY <1>3, <1>4, <2>1 DEF PaidOnce, OthersSame
  <2> QED BY <1>5, <2>1, <2>2, <2>3 DEF PaidOnce
<1> QED BY <1>6, <1>7, <1>8, <1>9, <1>10, <1>11 DEF PaymentsInv

LEMMA FormsKeep ==
    ASSUME PaymentsInv, LedgerInv',
           \/ \E k \in Kinds : CreatePaymentForm(k)
           \/ \E i \in FormIds : FormExpires(i)
           \/ \E a \in Users : OpenWallet(a)
           \/ UNCHANGED vars
    PROVE  PaymentsInv'
<1>1. UNCHANGED <<wallet, minted, task, paid, payments, doubtful, consent, lost>>
  BY DEF CreatePaymentForm, FormExpires, OpenWallet, vars, money, store, history
<1>2. StarsConserved'
  <2>1. Transit' = Transit
    BY <1>1 DEF Transit, InTransit
  <2>2. /\ SumOf(wallet, Accounts)' = SumOf(wallet', Accounts)
        /\ SumOf(Transit, Tasks)' = SumOf(Transit', Tasks)
    OBVIOUS
  <2> QED BY <1>1, <2>1, <2>2 DEF PaymentsInv, StarsConserved
<1>3. PurposesFit' /\ PaidOnlyIfApproved' /\ OverlapIsDoubtful'
  BY <1>1 DEF PaymentsInv, PurposesFit, PurposeOf, PaidOnlyIfApproved, OverlapIsDoubtful
<1>4. ReceiptsArePaidFor' /\ NoDoubtNoSecond'
  BY <1>1 DEF PaymentsInv, ReceiptsArePaidFor, NoDoubtNoSecond, PaidOnce
<1> QED BY <1>2, <1>3, <1>4 DEF PaymentsInv

LEMMA PaymentsNext == PaymentsInv /\ [Next]_vars => PaymentsInv'
<1> SUFFICES ASSUME PaymentsInv, [Next]_vars PROVE PaymentsInv'
  OBVIOUS
<1>1. LedgerInv /\ LedgerInv' /\ TypeOK' /\ \A t \in Tasks : PurposeOf(t)
  BY LedgerNext DEF PaymentsInv, LedgerInv, PurposesFit
<1>2. CASE \/ \E k \in Kinds : CreatePaymentForm(k)
           \/ \E i \in FormIds : FormExpires(i)
           \/ \E a \in Users : OpenWallet(a)
           \/ UNCHANGED vars
  BY <1>1, <1>2, FormsKeep
<1>3. ASSUME NEW t \in Tasks, TaskStep(t) PROVE PaymentsInv'
  <2>1. CASE InvoiceIsPaid(t) \/ CheckExpired(t) \/ PrecheckoutTimeout(t) \/ PayTooLow(t)
             \/ CreditCommits(t) \/ SetCommits(t) \/ RowConflict(t)
    BY <1>1, <2>1, FinishKeeps, InvoiceIsPaidFinishes, CheckExpiredFinishes,
       PrecheckoutTimeoutFinishes, PayTooLowFinishes, CreditCommitsFinishes,
       SetCommitsFinishes, RollbackFinishes DEF RowConflict
  <2>2. CASE CheckForm(t) \/ AwaitAnswer(t) \/ OpenPayerWallet(t) \/ DebitBegins(t)
             \/ CreditBegins(t) \/ PayBegins(t) \/ PaySelects(t) \/ SetBegins(t)
    BY <1>1, <2>2, AdvanceKeeps, CheckFormAdvances, AwaitAnswerAdvances,
       OpenPayerWalletAdvances, DebitBeginsAdvances, CreditBeginsAdvances,
       PayBeginsAdvances, PaySelectsAdvances, SetBeginsAdvances
  <2>3. CASE DeleteForm(t)
    BY <1>1, <2>3, AdvanceKeeps, FinishKeeps, DeleteFormAdvances, DeleteFormFinishes
  <2>4. CASE DebitCommits(t)
    BY <1>1, <2>4, AdvanceKeeps, FinishKeeps, DebitCommitsAdvances, DebitCommitsFinishes
  <2>5. CASE PayCommits(t)
    BY <1>1, <2>5, PayCommitsKeeps
  <2>6. CASE MarkPaid(t)
    BY <1>1, <2>6, MarkPaidKeeps
  <2> QED BY <1>3, <2>1, <2>2, <2>3, <2>4, <2>5, <2>6 DEF TaskStep
<1>4. ASSUME NEW t \in Tasks, Fail(t) PROVE PaymentsInv'
  BY <1>1, <1>4, FinishKeeps, RollbackFinishes DEF Fail
<1>5. ASSUME NEW t \in Tasks, NEW success \in BOOLEAN, BotAnswers(t, success) PROVE PaymentsInv'
  <2>1. CASE task[t].step = "ask" \/ success
    BY <1>1, <1>5, <2>1, AdvanceKeeps, BotAnswersAdvances
  <2>2. CASE task[t].step # "ask" /\ success = FALSE
    BY <1>1, <1>5, <2>2, FinishKeeps, BotRefuses
  <2> QED BY <2>1, <2>2
<1>6. ASSUME NEW t \in Tasks,
             \/ \E i \in FormIds : Submit(t, i)
             \/ \E a \in Users, n \in Amounts : GrantStars(t, a, n) \/ SetStarsBalance(t, a, n)
      PROVE  PaymentsInv'
  BY <1>1, <1>6, TakeUps
<1> QED BY <1>2, <1>3, <1>4, <1>5, <1>6 DEF Next

\* No star is lost or made, no invoice is paid against the will of its bot, and
\* none is paid twice unless two submissions overlapped or one failed between
\* the payment and its receipt: for any accounts, forms, bots and requests
\* (send_stars_form, _transfer_stars, _await_bot_precheckout).
THEOREM PaymentsRight == Spec => []PaymentsAreRight
<1>1. Init => PaymentsInv
  BY PaymentsInit
<1>2. PaymentsInv /\ [Next]_vars => PaymentsInv'
  BY PaymentsNext
<1>3. PaymentsInv => PaymentsAreRight
  <2> SUFFICES ASSUME PaymentsInv PROVE PaidTwiceOnlyIfDoubtful
    BY DEF PaymentsInv, PaymentsAreRight
  <2> SUFFICES ASSUME NEW k \in Invoices
               PROVE  (payments[k] > 1 => k \in doubtful) /\ (k \in paid => payments[k] > 0)
    BY DEF PaidTwiceOnlyIfDoubtful
  <2>1. payments[k] \in Nat /\ (k \notin doubtful => payments[k] <= 1)
    BY DEF PaymentsInv, LedgerInv, TypeOK, NoDoubtNoSecond, PaidOnce
  <2>2. k \in paid => payments[k] > 0
    BY DEF PaymentsInv, ReceiptsArePaidFor
  <2> QED BY <2>1, <2>2
<1> QED BY <1>1, <1>2, <1>3, PTL DEF Spec

=============================================================================
