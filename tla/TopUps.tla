------------------------------- MODULE TopUps -------------------------------
(***************************************************************************)
(* Adding money: automatic invoices paid in USDT (through Plisio) or by    *)
(* ShamCash (verified through Sam API by the transaction number the user   *)
(* sends), and manual deposit requests that an administrator accepts or    *)
(* rejects.  handlers/deposit_methods.py, handlers/deposit.py and the job  *)
(* tasks/invoice_monitor.py.                                               *)
(*                                                                         *)
(* A task (an update of a user or administrator, or the monitor's turn of  *)
(* one invoice) decides on the PENDING row it loaded and then suspends at  *)
(* the service it asks, at the credit and at the commit; any of the three  *)
(* may raise.  A commit writes the status the task decided on, whatever    *)
(* the row has become.  The credit carries a payment reference and is one  *)
(* step (PaymentCreditedOnce of Wallet).                                   *)
(***************************************************************************)
EXTENDS Integers

CONSTANTS TopUpIds,   \* ids of invoices and deposit requests
          Handlers,   \* concurrent updates of users and administrators
          Monitor,    \* the job check_pending_invoices
          MaxFaults,  \* bound: failures of a service or of the database
          NoId

ASSUME TopUpsAssumption ==
  Monitor \notin Handlers /\ MaxFaults \in Nat /\ NoId \notin TopUpIds

VARIABLES method,   \* per id: what kind of row it is
          status,   \* tables auto_invoices and deposit_requests, committed
          credits,  \* per id: rows of the ledger that name it
          plisio,   \* per id: what Plisio reports of a USDT invoice
          late,     \* per id: the invoice's deadline has passed
          task,     \* progress of the updates and of the monitor's turn
          todo,     \* invoices of this pass the monitor has still to visit
          faults,   \* failures so far
          trouble,  \* per id: history, which of its calls have failed
          crashed   \* the bot process has been restarted

vars == <<method, status, credits, plisio, late, task, todo, faults, trouble,
          crashed>>
world == <<method, plisio, late, crashed>>

Methods == {"usdt", "shamcash", "manual"}
Status == {"pending", "paid", "failed", "expired", "cancelled",
           "approved", "rejected"}
\* What get_payment_info makes of Plisio's statuses: new and pending, then
\* confirming (the payment is seen), completed and mismatch, the failures.
Answers == {"process", "check", "paid", "failed"}
Tasks == Handlers \cup {Monitor}
Invoice(i) == method[i] # "manual"

TypeOK ==
  /\ method \in [TopUpIds -> Methods]
  /\ status \in [TopUpIds -> Status \cup {"none"}]
  /\ credits \in [TopUpIds -> Nat]
  /\ plisio \in [TopUpIds -> Answers]
  /\ late \in [TopUpIds -> BOOLEAN]
  /\ task \in [Tasks -> [at : {"idle", "ask", "credit", "commit"},
                         id : TopUpIds \cup {NoId},
                         to : Status \cup {"none"}, last : BOOLEAN]]
  /\ todo \subseteq TopUpIds
  /\ faults \in 0 .. MaxFaults
  /\ trouble \in [TopUpIds -> SUBSET {"credit", "last"}]
  /\ crashed \in BOOLEAN
  /\ \A t \in Tasks : task[t].at # "idle" =>
       /\ task[t].id \in TopUpIds /\ task[t].to \in Status
       /\ task[t].to \in {"approved", "rejected"} <=> ~Invoice(task[t].id)

NoTask == [at |-> "idle", id |-> NoId, to |-> "none", last |-> FALSE]

Init ==
  /\ method \in [TopUpIds -> Methods]
  /\ status = [i \in TopUpIds |-> "none"]
  /\ credits = [i \in TopUpIds |-> 0]
  /\ plisio = [i \in TopUpIds |-> "process"]
  /\ late = [i \in TopUpIds |-> FALSE]
  /\ task = [t \in Tasks |-> NoTask]
  /\ todo = {}
  /\ faults = 0
  /\ trouble = [i \in TopUpIds |-> {}]
  /\ crashed = FALSE

-----------------------------------------------------------------------------
(* A new row, and the buttons under it.                                    *)

\* The row is inserted PENDING.
Insert(i, kind) ==
  /\ status[i] = "none" /\ method[i] = kind
  /\ status' = [status EXCEPT ![i] = "pending"]
  /\ UNCHANGED <<credits, task, todo, faults, trouble, world>>

\* shamcash_auto_amount_received and usdt_auto_amount_received insert invoices,
\* shamcash_manual_tx_received and its like deposit requests.
ShamCashAutoAmount(i) == Insert(i, "shamcash")
UsdtAutoAmount(i) == Insert(i, "usdt")
ManualTx(i) == Insert(i, "manual")

Begin(t, i, at, to, last) ==
  /\ task[t].at = "idle"
  /\ task' = [task EXCEPT ![t] = [at |-> at, id |-> i, to |-> to,
                                  last |-> last]]

\* Every handler loads the row and refuses it unless it is PENDING.
Start(h, i, at, to) ==
  /\ status[i] = "pending"
  /\ Begin(h, i, at, to, FALSE)
  /\ UNCHANGED <<status, credits, todo, faults, trouble, world>>

\* A transaction number, which is not verified after the deadline.
ShamCashTx(h, i) ==
  /\ method[i] = "shamcash"
  /\ \/ ~late[i] /\ Start(h, i, "ask", "paid")
     \/ late[i] /\ Start(h, i, "commit", "expired")

UsdtCheck(h, i) == method[i] = "usdt" /\ Start(h, i, "ask", "paid")

CancelInvoice(h, i) == Invoice(i) /\ Start(h, i, "commit", "cancelled")

DepositAccept(h, i) == ~Invoice(i) /\ Start(h, i, "credit", "approved")

DepositReject(h, i) == ~Invoice(i) /\ Start(h, i, "commit", "rejected")

Press(h, i) == \/ ShamCashTx(h, i) \/ UsdtCheck(h, i) \/ CancelInvoice(h, i)
               \/ DepositAccept(h, i) \/ DepositReject(h, i)

-----------------------------------------------------------------------------
(* A pass of the monitor: every PENDING invoice is loaded first, then each *)
(* has its turn; of the ShamCash ones only the late are touched.           *)

Snapshot ==
  /\ task[Monitor].at = "idle" /\ todo = {}
  /\ todo' = {i \in TopUpIds : Invoice(i) /\ status[i] = "pending"}
  /\ todo' # {}
  /\ UNCHANGED <<status, credits, task, faults, trouble, world>>

Turn(i) ==
  /\ i \in todo
  /\ todo' = todo \ {i}
  /\ task[Monitor].at = "idle"
  /\ UNCHANGED <<status, credits, faults, trouble, world>>

\* Mutated `TurnUsdt': every check of the monitor is the last one.
TurnUsdtLast(i) ==
  method[i] = "usdt" /\ Turn(i) /\ Begin(Monitor, i, "ask", "paid", TRUE)

\* After the deadline the check is the last one.
TurnUsdt(i) ==
  method[i] = "usdt" /\ Turn(i) /\ Begin(Monitor, i, "ask", "paid", late[i])

TurnShamCash(i) ==
  /\ method[i] = "shamcash" /\ Turn(i)
  /\ \/ late[i] /\ Begin(Monitor, i, "commit", "expired", TRUE)
     \/ ~late[i] /\ UNCHANGED task

-----------------------------------------------------------------------------
(* The rest of a task.                                                     *)

Go(t, at, to) == task' = [task EXCEPT ![t].at = at, ![t].to = to]
Done(t) == task' = [task EXCEPT ![t] = NoTask]

\* The task ends without the money: after the monitor's last check of a late
\* invoice, whether it raised or not, the invoice is marked EXPIRED.
GiveUp(t) ==
  \/ task[t].last /\ task[t].to # "expired" /\ Go(t, "commit", "expired")
  \/ ~(task[t].last /\ task[t].to # "expired") /\ Done(t)

\* A call raises.  A rollback leaves the monitor's other copies unusable and
\* the rest of its pass fails.
Fault(t) ==
  LET i == task[t].id IN
    /\ faults < MaxFaults /\ faults' = faults + 1
    /\ trouble' = [trouble EXCEPT ![i] =
                     @ \cup (IF task[t].at = "credit" THEN {"credit"} ELSE {})
                       \cup (IF task[t].last THEN {"last"} ELSE {})]
    /\ todo' \in IF t = Monitor THEN {todo, {}} ELSE {todo}
    /\ GiveUp(t)

\* Mutated `Answered': the row is marked PAID and the credit never given.
AnsweredUnpaid(t, answer) ==
  IF answer = "paid" THEN Go(t, "commit", task[t].to) ELSE GiveUp(t)

\* Mutated `Answered': no last check of a late invoice.
AnsweredTooLate(t, answer) ==
  IF answer = "paid" /\ ~task[t].last THEN Go(t, "credit", task[t].to)
                                      ELSE GiveUp(t)

\* What Plisio's answer leads to; the last check only looks for "paid", and a
\* payment that is seen but not confirmed is nothing to it.
Answered(t, answer) ==
  \/ answer = "paid" /\ Go(t, "credit", task[t].to)
  \/ answer = "failed" /\ ~task[t].last /\ Go(t, "commit", "failed")
  \/ answer = "failed" /\ task[t].last /\ GiveUp(t)
  \/ answer \in {"process", "check"} /\ GiveUp(t)

AskPlisio(t) ==
  /\ task[t].at = "ask" /\ method[task[t].id] = "usdt"
  /\ \/ Answered(t, plisio[task[t].id]) /\ UNCHANGED <<todo, faults, trouble>>
     \/ Fault(t)
  /\ UNCHANGED <<status, credits, world>>

\* Sam API verifies the transaction, finds the invoice expired or does not
\* find the transaction, which the user may then send again.
VerifyShamCash(t) ==
  /\ task[t].at = "ask" /\ method[task[t].id] = "shamcash"
  /\ \/ /\ \/ Go(t, "credit", "paid") \/ Go(t, "commit", "expired") \/ Done(t)
        /\ UNCHANGED <<todo, faults, trouble>>
     \/ Fault(t)
  /\ UNCHANGED <<status, credits, world>>

\* add_balance(payment_reference="invoice:<i>" or "deposit:<i>").
Credited(i) == IF credits[i] > 0 THEN credits[i] ELSE credits[i] + 1

Credit(t) ==
  /\ task[t].at = "credit"
  /\ \/ /\ credits' = [credits EXCEPT ![task[t].id] = Credited(task[t].id)]
        /\ Go(t, "commit", task[t].to)
        /\ UNCHANGED <<todo, faults, trouble>>
     \/ Fault(t) /\ UNCHANGED credits
  /\ UNCHANGED <<status, world>>

\* The status is committed and the messages follow; one that raises inside
\* the monitor's last check sends the invoice on to EXPIRED.
Commit(t) ==
  /\ task[t].at = "commit"
  /\ \/ /\ status' = [status EXCEPT ![task[t].id] = task[t].to]
        /\ \/ Done(t) /\ UNCHANGED <<todo, faults, trouble>>
           \/ task[t].last /\ Fault(t)
     \/ Fault(t) /\ UNCHANGED status
  /\ UNCHANGED <<credits, world>>

Continue(t) == AskPlisio(t) \/ VerifyShamCash(t) \/ Credit(t) \/ Commit(t)

Poll == \/ Snapshot \/ Continue(Monitor)
        \/ \E i \in TopUpIds : TurnUsdt(i) \/ TurnShamCash(i)

-----------------------------------------------------------------------------
(* The environment.                                                        *)

\* Plisio sees the payment, finds it complete, or failed.
Settle(i) ==
  /\ method[i] = "usdt" /\ status[i] # "none"
  /\ plisio[i] \in {"process", "check"}
  /\ \E answer \in Answers \ {"process", plisio[i]} :
       plisio' = [plisio EXCEPT ![i] = answer]
  /\ UNCHANGED <<method, status, credits, late, task, todo, faults, trouble,
                 crashed>>

DeadlinePasses(i) ==
  /\ Invoice(i) /\ status[i] # "none" /\ ~late[i]
  /\ late' = [late EXCEPT ![i] = TRUE]
  /\ UNCHANGED <<method, status, credits, plisio, task, todo, faults, trouble,
                 crashed>>

\* The bot process is restarted, once: only the database survives.
Crash ==
  /\ ~crashed /\ crashed' = TRUE
  /\ task' = [t \in Tasks |-> NoTask]
  /\ todo' = {}
  /\ UNCHANGED <<method, status, credits, plisio, late, faults, trouble>>

Next ==
  \/ \E i \in TopUpIds : \/ ShamCashAutoAmount(i) \/ UsdtAutoAmount(i)
                          \/ ManualTx(i) \/ Settle(i) \/ DeadlinePasses(i)
  \/ \E h \in Handlers : Continue(h) \/ \E i \in TopUpIds : Press(h, i)
  \/ Poll
  \/ Crash

Spec == Init /\ [][Next]_vars

\* The scheduler restarts the monitor every thirty seconds and its calls
\* return or raise; an update that has begun goes on.
FairSpec ==
  /\ Spec
  /\ WF_vars(Poll)
  /\ \A h \in Handlers : WF_vars(Continue(h))

-----------------------------------------------------------------------------
(* What users and the operator rely on.                                    *)

\* Nothing is shown as paid or approved before the money is there, whatever
\* fails or is restarted in between ("add the balance first",
\* invoice_monitor.py:111, deposit_methods.py:836, deposit.py:232-246).
PaidIsCredited ==
  \A i \in TopUpIds : status[i] \in {"paid", "approved"} => credits[i] > 0

\* Plisio has the USDT payment complete (completed or mismatch) while its
\* invoice is PENDING and the deadline has not passed.
PaidInTime(i) == status[i] = "pending" /\ plisio[i] = "paid" /\ ~late[i]

\* A USDT payment that is complete at Plisio before the invoice's deadline is
\* credited, unless the user cancels or a call of the last check fails.
PaymentIsCredited ==
  \A i \in TopUpIds :
    PaidInTime(i)
      ~> credits[i] > 0 \/ status[i] = "cancelled" \/ "last" \in trouble[i]

\* Of this, what no state may break: the invoice is PAID and the payment
\* credited, or it is still PENDING, where the next pass finds it; no stale
\* check, no late answer and no deadline puts it aside, before or after PAID.
Kept(i) ==
  \/ status[i] = "paid" /\ credits[i] > 0
  \/ status[i] \in {"pending", "cancelled"}
  \/ "last" \in trouble[i]
PaymentIsKept == \A i \in TopUpIds : [](PaidInTime(i) => []Kept(i))

\* Plisio sees the payment, complete or still confirming, in time.
SeenInTime(i) ==
  status[i] = "pending" /\ plisio[i] \in {"check", "paid"} /\ ~late[i]

\* "Before it is recorded as expired it is checked one last time; perhaps the
\* payment was made in the last moments" (invoice_monitor.py:218-219): a payment
\* that Plisio saw in time and completes is kept.
PaymentSeenIsKept ==
  \A i \in TopUpIds : [](SeenInTime(i) => [](plisio[i] = "paid" => Kept(i)))

\* If the database fails while a paid invoice is credited, "the invoice
\* remains pending and the monitor can retry instead of losing the payment"
\* (invoice_monitor.py:111-112).
FailedCreditIsRetried ==
  \A i \in TopUpIds :
    method[i] = "usdt" /\ "credit" \in trouble[i]
      ~> credits[i] > 0 \/ status[i] = "cancelled"
=============================================================================
