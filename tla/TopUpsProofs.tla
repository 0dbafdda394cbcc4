---------------------------- MODULE TopUpsProofs ----------------------------
(***************************************************************************)
(* Theorems about TopUps, for every set of top-ups and concurrent updates  *)
(* and any number of failures: the type invariant, that none is shown as   *)
(* paid or approved before it is credited, and that a payment which Plisio *)
(* has complete before the deadline is not put aside.                      *)
(***************************************************************************)
EXTENDS TopUps, TLAPS

TaskRecord == [at : {"idle", "ask", "credit", "commit"},
               id : TopUpIds \cup {NoId},
               to : Status \cup {"none"}, last : BOOLEAN]

\* What a task is about to do fits the row it is about: only invoices have a
\* last check, and PAID or APPROVED is committed after the credit.
Fits(r) ==
  r.at # "idle" =>
    /\ r.id \in TopUpIds /\ r.to \in Status
    /\ r.to \in {"approved", "rejected"} <=> ~Invoice(r.id)
    /\ r.last => Invoice(r.id)
    /\ r.at = "commit" /\ r.to \in {"paid", "approved"} => credits[r.id] > 0

IInv ==
  /\ TypeOK
  /\ PaidIsCredited
  /\ \A t \in Tasks : Fits(task[t])

-----------------------------------------------------------------------------
(* Steps of one task.                                                      *)

\* When only one task moves, only that task has to be looked at.
LEMMA OneTask ==
  ASSUME IInv, NEW t \in Tasks, NEW r \in TaskRecord,
         task' = [task EXCEPT ![t] = r],
         Fits(r)', method' = method, credits' = credits
  PROVE  /\ task' \in [Tasks -> TaskRecord]
         /\ \A u \in Tasks : Fits(task[u])'
<1>1. task \in [Tasks -> TaskRecord]
  BY DEF IInv, TypeOK, TaskRecord
<1>2. task' \in [Tasks -> TaskRecord]
  BY <1>1
<1>3. ASSUME NEW u \in Tasks PROVE Fits(task[u])'
  <2>1. CASE u = t
    BY <1>1, <2>1
  <2>2. CASE u # t
    <3>1. task'[u] = task[u] BY <1>1, <2>2
    <3>2. Fits(task[u]) BY DEF IInv
    <3> QED BY <3>1, <3>2 DEF Fits, Invoice
  <2> QED BY <2>1, <2>2
<1> QED BY <1>2, <1>3

\* A task goes to its next call, or to a commit that is in order.
LEMMA GoesOn ==
  ASSUME IInv, NEW t \in Tasks, NEW at \in {"ask", "credit", "commit"},
         NEW to \in Status, task[t].at # "idle", Go(t, at, to),
         to \in {"approved", "rejected"} <=> ~Invoice(task[t].id),
         at = "commit" /\ to \in {"paid", "approved"} => credits[task[t].id] > 0,
         method' = method, credits' = credits
  PROVE  /\ task' \in [Tasks -> TaskRecord]
         /\ \A u \in Tasks : Fits(task[u])'
<1>1. task \in [Tasks -> TaskRecord] /\ task[t] \in TaskRecord /\ Fits(task[t])
  BY DEF IInv, TypeOK, TaskRecord
<1> PICK r : r = [task[t] EXCEPT !.at = at, !.to = to]
  OBVIOUS
<1>2. r \in TaskRecord /\ r.at = at /\ r.to = to /\ r.id = task[t].id
      /\ r.last = task[t].last
  BY <1>1 DEF TaskRecord
<1>3. task' = [task EXCEPT ![t] = r]
  BY <1>1 DEF Go
<1>4. Fits(r)'
  BY <1>1, <1>2 DEF Fits, Invoice
<1> QED BY <1>2, <1>3, <1>4, OneTask

LEMMA Ends ==
  ASSUME IInv, NEW t \in Tasks, Done(t), method' = method, credits' = credits
  PROVE  /\ task' \in [Tasks -> TaskRecord]
         /\ \A u \in Tasks : Fits(task[u])'
<1>1. NoTask \in TaskRecord /\ Fits(NoTask)'
  BY DEF NoTask, TaskRecord, Fits
<1>2. task' = [task EXCEPT ![t] = NoTask]
  BY DEF Done
<1> QED BY <1>1, <1>2, OneTask

LEMMA GivesUp ==
  ASSUME IInv, NEW t \in Tasks, task[t].at # "idle", GiveUp(t),
         method' = method, credits' = credits
  PROVE  /\ task' \in [Tasks -> TaskRecord]
         /\ \A u \in Tasks : Fits(task[u])'
<1>1. CASE task[t].last /\ Go(t, "commit", "expired")
  <2>1. Invoice(task[t].id) BY <1>1 DEF IInv, Fits
  <2>2. "expired" \in Status BY DEF Status
  <2> QED BY <1>1, <2>1, <2>2, GoesOn
<1>2. CASE Done(t)
  BY <1>2, Ends
<1> QED BY <1>1, <1>2 DEF GiveUp

LEMMA Faults ==
  ASSUME IInv, NEW t \in Tasks, task[t].at # "idle", Fault(t),
         method' = method, credits' = credits
  PROVE  /\ task' \in [Tasks -> TaskRecord]
         /\ \A u \in Tasks : Fits(task[u])'
         /\ faults' \in 0 .. MaxFaults
         /\ trouble' \in [TopUpIds -> SUBSET {"credit", "last"}]
         /\ todo' \subseteq TopUpIds
<1>1. GiveUp(t) BY DEF Fault
<1>2. faults' \in 0 .. MaxFaults
  BY TopUpsAssumption DEF Fault, IInv, TypeOK
<1>3. trouble' \in [TopUpIds -> SUBSET {"credit", "last"}]
  BY DEF Fault, IInv, TypeOK
<1>4. todo' \subseteq TopUpIds
  BY DEF Fault, IInv, TypeOK
<1> QED BY <1>1, <1>2, <1>3, <1>4, GivesUp

\* A handler or the monitor takes up a row.
LEMMA Begins ==
  ASSUME IInv, NEW t \in Tasks, NEW i \in TopUpIds,
         NEW at \in {"ask", "credit", "commit"}, NEW to \in Status,
         NEW last \in BOOLEAN, Begin(t, i, at, to, last),
         to \in {"approved", "rejected"} <=> ~Invoice(i),
         last => Invoice(i),
         ~(at = "commit" /\ to \in {"paid", "approved"}),
         method' = method, credits' = credits
  PROVE  /\ task' \in [Tasks -> TaskRecord]
         /\ \A u \in Tasks : Fits(task[u])'
<1> DEFINE r == [at |-> at, id |-> i, to |-> to, last |-> last]
<1>1. r \in TaskRecord BY DEF TaskRecord
<1>2. Fits(r)' BY DEF Fits, Invoice
<1>3. task' = [task EXCEPT ![t] = r] BY DEF Begin
<1> QED BY <1>1, <1>2, <1>3, OneTask

-----------------------------------------------------------------------------
(* The inductive step, an action at a time.                                *)

\* What TypeOK says of the variables other than task.
RestOK ==
  /\ method \in [TopUpIds -> Methods]
  /\ status \in [TopUpIds -> Status \cup {"none"}]
  /\ credits \in [TopUpIds -> Nat]
  /\ plisio \in [TopUpIds -> Answers]
  /\ late \in [TopUpIds -> BOOLEAN]
  /\ todo \subseteq TopUpIds
  /\ faults \in 0 .. MaxFaults
  /\ trouble \in [TopUpIds -> SUBSET {"credit", "last"}]
  /\ crashed \in BOOLEAN

LEMMA Split ==
  TypeOK <=> /\ RestOK
             /\ task \in [Tasks -> TaskRecord]
             /\ \A t \in Tasks : task[t].at # "idle" =>
                  /\ task[t].id \in TopUpIds /\ task[t].to \in Status
                  /\ task[t].to \in {"approved", "rejected"}
                       <=> ~Invoice(task[t].id)
BY DEF TypeOK, RestOK, TaskRecord

LEMMA Assembled ==
  ASSUME RestOK', task' \in [Tasks -> TaskRecord],
         \A t \in Tasks : Fits(task[t])'
  PROVE  TypeOK'
BY DEF RestOK, TypeOK, TaskRecord, Fits, Invoice

\* A step that moves one task and leaves rows and credits alone.
LEMMA TaskOnly ==
  ASSUME IInv, RestOK', method' = method, status' = status,
         credits' = credits, task' \in [Tasks -> TaskRecord],
         \A t \in Tasks : Fits(task[t])'
  PROVE  IInv'
<1>1. PaidIsCredited'
  BY DEF IInv, PaidIsCredited
<1> QED BY <1>1, Assembled DEF IInv

\* A step that leaves the tasks and the credits alone and marks nothing paid.
LEMMA RowsOnly ==
  ASSUME IInv, RestOK', method' = method, credits' = credits, task' = task,
         \A i \in TopUpIds :
           status'[i] = status[i] \/ status'[i] \notin {"paid", "approved"}
  PROVE  IInv'
<1>1. PaidIsCredited'
  BY DEF IInv, PaidIsCredited
<1>2. task' \in [Tasks -> TaskRecord]
  BY Split DEF IInv
<1>3. ASSUME NEW t \in Tasks PROVE Fits(task[t])'
  BY DEF IInv, Fits, Invoice
<1> QED BY <1>1, <1>2, <1>3, Assembled DEF IInv

LEMMA InsertStep ==
  ASSUME IInv, NEW i \in TopUpIds, NEW kind \in Methods, Insert(i, kind)
  PROVE  IInv'
<1>1. RestOK'
  BY Split DEF IInv, Insert, RestOK, world, Status
<1>2. \A j \in TopUpIds :
        status'[j] = status[j] \/ status'[j] \notin {"paid", "approved"}
  BY DEF Insert, IInv, TypeOK
<1> QED BY <1>1, <1>2, RowsOnly DEF Insert, world

LEMMA StartStep ==
  ASSUME IInv, NEW h \in Tasks, NEW i \in TopUpIds,
         NEW at \in {"ask", "credit", "commit"}, NEW to \in Status,
         Start(h, i, at, to),
         to \in {"approved", "rejected"} <=> ~Invoice(i),
         ~(at = "commit" /\ to \in {"paid", "approved"})
  PROVE  IInv'
<1>1. RestOK'
  BY Split DEF IInv, Start, RestOK, world
<1>2. /\ task' \in [Tasks -> TaskRecord]
      /\ \A u \in Tasks : Fits(task[u])'
  BY Begins DEF Start, world
<1> QED BY <1>1, <1>2, TaskOnly DEF Start, world

LEMMA PressStep ==
  ASSUME IInv, NEW h \in Handlers, NEW i \in TopUpIds, Press(h, i)
  PROVE  IInv'
<1>0. h \in Tasks BY DEF Tasks
<1>1. CASE ShamCashTx(h, i)
  BY <1>0, <1>1, StartStep DEF ShamCashTx, Status, Invoice
<1>2. CASE UsdtCheck(h, i)
  BY <1>0, <1>2, StartStep DEF UsdtCheck, Status, Invoice
<1>3. CASE CancelInvoice(h, i)
  BY <1>0, <1>3, StartStep DEF CancelInvoice, Status
<1>4. CASE DepositAccept(h, i)
  BY <1>0, <1>4, StartStep DEF DepositAccept, Status
<1>5. CASE DepositReject(h, i)
  BY <1>0, <1>5, StartStep DEF DepositReject, Status
<1> QED BY <1>1, <1>2, <1>3, <1>4, <1>5 DEF Press

LEMMA SnapshotStep == ASSUME IInv, Snapshot PROVE IInv'
<1>1. RestOK' BY Split DEF IInv, Snapshot, RestOK, world
<1>2. method' = method /\ credits' = credits /\ task' = task
      /\ status' = status
  BY DEF Snapshot, world
<1> QED BY <1>1, <1>2, RowsOnly

LEMMA TurnStep ==
  ASSUME IInv, NEW i \in TopUpIds, TurnUsdt(i) \/ TurnShamCash(i)
  PROVE  IInv'
<1>1. Turn(i) BY DEF TurnUsdt, TurnShamCash
<1>2. RestOK' BY <1>1, Split DEF IInv, Turn, RestOK, world
<1>3. method' = method /\ credits' = credits /\ status' = status
  BY <1>1 DEF Turn, world
<1>4. Monitor \in Tasks BY DEF Tasks
<1>5. late[i] \in BOOLEAN BY DEF IInv, TypeOK
<1>6. CASE UNCHANGED task
  BY <1>2, <1>3, <1>6, RowsOnly
<1>7. CASE TurnUsdt(i)
  <2>1. PICK last \in BOOLEAN : last = late[i] BY <1>5
  <2>2. Begin(Monitor, i, "ask", "paid", last) /\ Invoice(i)
    BY <1>7, <2>1 DEF TurnUsdt, Invoice
  <2>3. /\ task' \in [Tasks -> TaskRecord]
        /\ \A u \in Tasks : Fits(task[u])'
    BY <1>3, <1>4, <2>2, Begins DEF Status
  <2> QED BY <1>2, <1>3, <2>3, TaskOnly
<1>8. CASE TurnShamCash(i) /\ late[i]
  <2>1. Begin(Monitor, i, "commit", "expired", TRUE) /\ Invoice(i)
    BY <1>8 DEF TurnShamCash, Invoice
  <2>2. /\ task' \in [Tasks -> TaskRecord]
        /\ \A u \in Tasks : Fits(task[u])'
    BY <1>3, <1>4, <2>1, Begins DEF Status
  <2> QED BY <1>2, <1>3, <2>2, TaskOnly
<1> QED BY <1>6, <1>7, <1>8 DEF TurnShamCash

LEMMA AskStep ==
  ASSUME IInv, NEW t \in Tasks, AskPlisio(t) \/ VerifyShamCash(t)
  PROVE  IInv'
<1>1. /\ task[t].at # "idle" /\ Fits(task[t]) /\ task[t].id \in TopUpIds
      /\ method' = method /\ credits' = credits /\ status' = status
      /\ plisio' = plisio /\ late' = late /\ crashed' = crashed
  BY DEF AskPlisio, VerifyShamCash, IInv, Fits, world
<1>2. Invoice(task[t].id)
  BY DEF AskPlisio, VerifyShamCash, Invoice
<1>3. task[t].to \in Status /\ task[t].to \notin {"approved", "rejected"}
  BY <1>1, <1>2 DEF Fits
<1>4. CASE Fault(t)
  <2>1. RestOK' BY <1>1, <1>4, Faults, Split DEF IInv, RestOK
  <2>2. /\ task' \in [Tasks -> TaskRecord]
        /\ \A u \in Tasks : Fits(task[u])'
    BY <1>1, <1>4, Faults
  <2> QED BY <1>1, <2>1, <2>2, TaskOnly
<1>5. CASE UNCHANGED <<todo, faults, trouble>>
  <2>1. RestOK' BY <1>1, <1>5, Split DEF IInv, RestOK
  <2>2. CASE GiveUp(t) \/ Done(t)
    BY <1>1, <2>1, <2>2, GivesUp, Ends, TaskOnly
  <2>3. PICK to \in Status : to = task[t].to BY <1>3
  <2>4. CASE Go(t, "credit", task[t].to)
    <3>1. Go(t, "credit", to) BY <2>3, <2>4 DEF Go
    <3> QED BY <1>1, <1>2, <1>3, <2>1, <2>3, <3>1, GoesOn, TaskOnly
  <2>5. CASE Go(t, "credit", "paid") \/ Go(t, "commit", "expired")
             \/ Go(t, "commit", "failed")
    BY <1>1, <1>2, <2>1, <2>5, GoesOn, TaskOnly DEF Status
  <2> QED BY <1>4, <2>2, <2>4, <2>5 DEF AskPlisio, VerifyShamCash, Answered
<1> QED BY <1>4, <1>5 DEF AskPlisio, VerifyShamCash

\* The credit adds one movement to a top-up that had none.
LEMMA CreditStep ==
  ASSUME IInv, NEW t \in Tasks, Credit(t)
  PROVE  IInv'
<1>1. /\ task[t].at # "idle" /\ Fits(task[t]) /\ task[t].id \in TopUpIds
      /\ task[t].to \in Status /\ task \in [Tasks -> TaskRecord]
      /\ UNCHANGED <<status, method, plisio, late, crashed>>
  BY Split DEF Credit, IInv, Fits, world
<1>2. CASE Fault(t) /\ UNCHANGED credits
  <2>1. RestOK' BY <1>1, <1>2, Faults, Split DEF IInv, RestOK
  <2>2. /\ task' \in [Tasks -> TaskRecord]
        /\ \A u \in Tasks : Fits(task[u])'
    BY <1>1, <1>2, Faults
  <2> QED BY <1>1, <1>2, <2>1, <2>2, TaskOnly
<1>3. CASE /\ credits' = [credits EXCEPT ![task[t].id] = Credited(task[t].id)]
           /\ Go(t, "commit", task[t].to)
           /\ UNCHANGED <<todo, faults, trouble>>
  <2>1. credits \in [TopUpIds -> Nat]
    BY DEF IInv, TypeOK
  <2>2. credits' \in [TopUpIds -> Nat]
    BY <1>1, <1>3, <2>1 DEF Credited
  <2>3. \A i \in TopUpIds : credits[i] > 0 => credits'[i] > 0
    BY <1>1, <1>3, <2>1 DEF Credited
  <2>4. credits'[task[t].id] > 0
    BY <1>1, <1>3, <2>1 DEF Credited
  <2>6. PaidIsCredited'
    BY <1>1, <2>3 DEF IInv, PaidIsCredited
  <2>7. RestOK'
    BY <1>1, <1>3, <2>2, Split DEF IInv, RestOK
  <2>8. task' = [task EXCEPT ![t] = [task[t] EXCEPT !.at = "commit",
                                                    !.to = task[t].to]]
    BY <1>1, <1>3 DEF Go
  <2>9. [task[t] EXCEPT !.at = "commit", !.to = task[t].to] \in TaskRecord
    BY <1>1 DEF TaskRecord
  <2>10. task' \in [Tasks -> TaskRecord]
    BY <1>1, <2>8, <2>9
  <2>11. ASSUME NEW u \in Tasks PROVE Fits(task[u])'
    <3>1. Fits(task[u]) BY DEF IInv
    <3>2. CASE u # t
      <4>1. task'[u] = task[u] BY <1>1, <2>8, <3>2
      <4> QED BY <1>1, <2>3, <3>1, <4>1 DEF Fits, Invoice
    <3>3. CASE u = t
      <4>1. /\ task'[t].at = "commit" /\ task'[t].to = task[t].to
            /\ task'[t].id = task[t].id /\ task'[t].last = task[t].last
        BY <1>1, <2>8 DEF TaskRecord
      <4> QED BY <1>1, <2>4, <3>3, <4>1 DEF Fits, Invoice
    <3> QED BY <3>2, <3>3
  <2> QED BY <2>6, <2>7, <2>10, <2>11, Assembled DEF IInv
<1> QED BY <1>2, <1>3 DEF Credit

LEMMA CommitStep ==
  ASSUME IInv, NEW t \in Tasks, Commit(t)
  PROVE  IInv'
<1>1. /\ task[t].at = "commit" /\ Fits(task[t]) /\ task[t].id \in TopUpIds
      /\ task[t].to \in Status
      /\ UNCHANGED <<credits, method, plisio, late, crashed>>
  BY DEF Commit, IInv, Fits, world
<1>2. /\ task' \in [Tasks -> TaskRecord]
      /\ \A u \in Tasks : Fits(task[u])'
      /\ faults' \in 0 .. MaxFaults
      /\ trouble' \in [TopUpIds -> SUBSET {"credit", "last"}]
      /\ todo' \subseteq TopUpIds
  <2>1. CASE Fault(t) BY <1>1, <2>1, Faults
  <2>2. CASE Done(t) /\ UNCHANGED <<todo, faults, trouble>>
    BY <1>1, <2>2, Ends DEF IInv, TypeOK
  <2> QED BY <2>1, <2>2 DEF Commit
<1>3. status' = [status EXCEPT ![task[t].id] = task[t].to] \/ status' = status
  BY DEF Commit
<1>4. RestOK'
  BY <1>1, <1>2, <1>3, Split DEF IInv, RestOK
<1>6. PaidIsCredited'
  BY <1>1, <1>3, <1>4 DEF Fits, IInv, TypeOK, PaidIsCredited
<1> QED BY <1>2, <1>4, <1>6, Assembled DEF IInv

LEMMA EnvironmentStep ==
  ASSUME IInv,
         (\E i \in TopUpIds : Settle(i) \/ DeadlinePasses(i)) \/ UNCHANGED vars
  PROVE  IInv'
<1>1. RestOK'
  <2>1. RestOK BY Split DEF IInv
  <2>2. CASE \E i \in TopUpIds : Settle(i)
    <3>1. plisio' \in [TopUpIds -> Answers] BY <2>1, <2>2 DEF RestOK, Settle
    <3> QED BY <2>1, <2>2, <3>1 DEF RestOK, Settle
  <2>3. CASE \E i \in TopUpIds : DeadlinePasses(i)
    BY <2>1, <2>3 DEF RestOK, DeadlinePasses
  <2>4. CASE UNCHANGED vars BY <2>1, <2>4 DEF RestOK, vars
  <2> QED BY <2>2, <2>3, <2>4
<1>2. UNCHANGED <<method, status, credits, task>>
  BY DEF Settle, DeadlinePasses, vars
<1> QED BY <1>1, <1>2, RowsOnly

LEMMA CrashStep == ASSUME IInv, Crash PROVE IInv'
<1>1. RestOK' BY Split DEF IInv, RestOK, Crash
<1>2. UNCHANGED <<method, status, credits>> BY DEF Crash
<1>3. /\ task' \in [Tasks -> TaskRecord]
      /\ \A u \in Tasks : Fits(task[u])'
  BY DEF Crash, NoTask, TaskRecord, Fits
<1> QED BY <1>1, <1>2, <1>3, TaskOnly

-----------------------------------------------------------------------------
(* The theorems.                                                           *)

\* The strengthened invariant of every execution.
THEOREM Inductive == Spec => []IInv
<1>1. Init => IInv
  <2> SUFFICES ASSUME Init PROVE IInv
    OBVIOUS
  <2>1. RestOK
    <3>1. /\ status \in [TopUpIds -> Status \cup {"none"}]
          /\ credits \in [TopUpIds -> Nat] /\ method \in [TopUpIds -> Methods]
          /\ plisio \in [TopUpIds -> Answers]
          /\ late \in [TopUpIds -> BOOLEAN] /\ crashed \in BOOLEAN
      BY DEF Init, Answers
    <3>2. trouble \in [TopUpIds -> SUBSET {"credit", "last"}]
      BY DEF Init
    <3>3. todo \subseteq TopUpIds /\ faults \in 0 .. MaxFaults
      BY TopUpsAssumption DEF Init
    <3> QED BY <3>1, <3>2, <3>3 DEF RestOK
  <2>2. task \in [Tasks -> TaskRecord] /\ \A t \in Tasks : task[t].at = "idle"
    BY DEF Init, NoTask, TaskRecord
  <2>3. TypeOK
    BY <2>1, <2>2, Split
  <2>4. \A t \in Tasks : Fits(task[t])
    BY <2>2 DEF Fits
  <2> QED BY <2>3, <2>4 DEF Init, IInv, PaidIsCredited
<1>2. IInv /\ [Next]_vars => IInv'
  <2> SUFFICES ASSUME IInv, [Next]_vars PROVE IInv'
    OBVIOUS
  <2>1. ASSUME NEW i \in TopUpIds,
               ShamCashAutoAmount(i) \/ UsdtAutoAmount(i) \/ ManualTx(i)
        PROVE IInv'
    BY <2>1, InsertStep
       DEF ShamCashAutoAmount, UsdtAutoAmount, ManualTx, Methods
  <2>2. ASSUME NEW t \in Tasks, Continue(t) PROVE IInv'
    BY <2>2, AskStep, CreditStep, CommitStep DEF Continue
  <2>3. Monitor \in Tasks /\ Handlers \subseteq Tasks
    BY DEF Tasks
  <2>4. CASE Poll
    BY <2>2, <2>3, <2>4, SnapshotStep, TurnStep DEF Poll
  <2> QED BY <2>1, <2>2, <2>3, <2>4, PressStep, EnvironmentStep, CrashStep
          DEF Next
<1> QED BY <1>1, <1>2, PTL DEF Spec

\* Every execution is type correct.
THEOREM TypeCorrect == Spec => []TypeOK
BY Inductive, PTL DEF IInv

\* No top-up is shown as paid or approved before the money is there, with any
\* failures and a restart between any two steps.
THEOREM CreditComesFirst == Spec => []PaidIsCredited
BY Inductive, PTL DEF IInv

-----------------------------------------------------------------------------
(* A payment in time is not put aside.                                     *)

\* What a task may be about to do to a USDT invoice: only the monitor's last
\* check, which waits for the deadline, goes on to EXPIRED, and FAILED is
\* Plisio's word.
Sure(r) ==
  r.at # "idle" /\ method[r.id] = "usdt" =>
    /\ r.last => late[r.id]
    /\ r.at \in {"ask", "credit"} => r.to = "paid"
    /\ r.at = "commit" =>
         \/ r.to \in {"paid", "cancelled"}
         \/ r.to = "failed" /\ plisio[r.id] = "failed"
         \/ r.to = "expired" /\ r.last

SureInv ==
  /\ \A t \in Tasks : Sure(task[t])
  /\ \A i \in TopUpIds : plisio[i] # "process" => method[i] = "usdt"

\* The row is on its way to PAID or to a cancellation, and nobody is about to
\* write anything else.
Waits(i) ==
  /\ status[i] \in {"pending", "paid", "cancelled"}
  /\ \A t \in Tasks : task[t].at = "commit" /\ task[t].id = i =>
                        task[t].to \in {"paid", "cancelled"}

Safe(i) == plisio[i] = "paid" /\ ("last" \in trouble[i] \/ Waits(i))

LEMMA InTimeIsSafe ==
  ASSUME IInv, SureInv, NEW i \in TopUpIds, PaidInTime(i)
  PROVE  Safe(i)
<1>1. method[i] = "usdt" /\ plisio[i] = "paid" /\ status[i] = "pending" /\ ~late[i]
  BY DEF PaidInTime, SureInv
<1>2. ASSUME NEW t \in Tasks, task[t].at = "commit", task[t].id = i
      PROVE  task[t].to \in {"paid", "cancelled"}
  <2>1. Sure(task[t]) BY DEF SureInv
  <2> QED BY <1>1, <1>2, <2>1 DEF Sure
<1> QED BY <1>1, <1>2 DEF Safe, Waits

-----------------------------------------------------------------------------
(* One task moves.                                                         *)

\* What a step of task t may do: it ends, or goes on with the same row.
LEMMA TaskMoves ==
  ASSUME IInv, NEW t \in Tasks, Continue(t)
  PROVE  /\ UNCHANGED <<method, plisio, late>>
         /\ \A u \in Tasks \ {t} : task'[u] = task[u]
         /\ task[t].at # "idle" /\ task[t].id \in TopUpIds
         /\ \/ task'[t].at = "idle"
            \/ task'[t].id = task[t].id /\ task'[t].last = task[t].last
<1>1. /\ UNCHANGED <<method, plisio, late>>
      /\ task[t].at # "idle" /\ Fits(task[t])
  BY DEF Continue, AskPlisio, VerifyShamCash, Credit, Commit, world, IInv
<1>2. \/ Done(t)
      \/ \E at \in {"credit", "commit"}, to \in Status : Go(t, at, to)
  <2>1. task[t].to \in Status BY <1>1 DEF Fits
  <2> QED
    BY <2>1 DEF Continue, AskPlisio, VerifyShamCash, Credit, Commit, Answered,
                Fault, GiveUp, Status
<1>3. task \in [Tasks -> TaskRecord] BY Split DEF IInv
<1>4. CASE Done(t)
  BY <1>1, <1>3, <1>4 DEF Done, NoTask, Fits
<1>5. ASSUME NEW at \in {"credit", "commit"}, NEW to \in Status, Go(t, at, to)
      PROVE  /\ \A u \in Tasks \ {t} : task'[u] = task[u]
             /\ task'[t].id = task[t].id /\ task'[t].last = task[t].last
  BY <1>3, <1>5 DEF Go, TaskRecord
<1> QED BY <1>1, <1>2, <1>4, <1>5 DEF Fits

LEMMA Going ==
  ASSUME IInv, NEW t \in Tasks, NEW at \in {"credit", "commit"}, NEW to,
         Go(t, at, to)
  PROVE  task'[t].at = at /\ task'[t].to = to
BY Split DEF IInv, Go, TaskRecord

LEMMA Ending ==
  ASSUME IInv, NEW t \in Tasks, Done(t)
  PROVE  task'[t].at = "idle"
BY Split DEF IInv, Done, NoTask

\* A failed call ends the task, or sends the last check on to EXPIRED; that
\* check has then failed.
LEMMA Failing ==
  ASSUME IInv, NEW t \in Tasks, task[t].at # "idle", Fault(t)
  PROVE  /\ \A i \in TopUpIds : trouble[i] \subseteq trouble'[i]
         /\ task[t].last => "last" \in trouble'[task[t].id]
         /\ \/ task'[t].at = "idle"
            \/ task[t].last /\ task'[t].at = "commit" /\ task'[t].to = "expired"
<1>1. task[t].id \in TopUpIds /\ trouble \in [TopUpIds -> SUBSET {"credit", "last"}]
  BY DEF IInv, Fits, TypeOK
<1>2. GiveUp(t) BY DEF Fault
<1>3. \/ task'[t].at = "idle"
      \/ task[t].last /\ task'[t].at = "commit" /\ task'[t].to = "expired"
  BY <1>2, Going, Ending DEF GiveUp
<1> QED BY <1>1, <1>3 DEF Fault

\* What the step leads to, for a USDT invoice that Plisio reports as paid.
LEMMA PaidAnswer ==
  ASSUME IInv, NEW t \in Tasks, AskPlisio(t), plisio[task[t].id] = "paid"
  PROVE  \/ task'[t].at = "credit" /\ task'[t].to = task[t].to
            /\ UNCHANGED trouble
         \/ Fault(t)
BY Going DEF AskPlisio, Answered

LEMMA SureTask ==
  ASSUME IInv, SureInv, NEW t \in Tasks, Continue(t)
  PROVE  SureInv'
<1>1. /\ UNCHANGED <<method, plisio, late>>
      /\ \A u \in Tasks \ {t} : task'[u] = task[u]
      /\ task[t].at # "idle" /\ task[t].id \in TopUpIds
      /\ \/ task'[t].at = "idle"
         \/ task'[t].id = task[t].id /\ task'[t].last = task[t].last
  BY TaskMoves
<1>2. Sure(task[t]) BY DEF SureInv
<1>3. CASE task'[t].at = "idle" \/ method[task[t].id] # "usdt"
  <2>1. Sure(task[t])' BY <1>1, <1>3 DEF Sure
  <2> QED BY <1>1, <2>1 DEF SureInv, Sure
<1>4. CASE method[task[t].id] = "usdt" /\ task'[t].at # "idle"
  <2>1. \/ task'[t].at = "credit" /\ task'[t].to = task[t].to /\ task[t].at = "ask"
        \/ task'[t].at = "commit" /\ task'[t].to = task[t].to /\ task[t].at = "credit"
        \/ task'[t].at = "commit" /\ task'[t].to = "failed"
           /\ plisio[task[t].id] = "failed"
        \/ task'[t].at = "commit" /\ task'[t].to = "expired" /\ task[t].last
    <3>1. CASE Fault(t) BY <1>1, <1>4, <3>1, Failing
    <3>2. CASE GiveUp(t) BY <1>4, <3>2, Going, Ending DEF GiveUp
    <3>3. CASE Done(t) BY <1>4, <3>3, Ending
    <3>4. CASE AskPlisio(t) /\ Answered(t, plisio[task[t].id])
      BY <3>2, <3>4, Going DEF AskPlisio, Answered
    <3>5. CASE Credit(t) /\ Go(t, "commit", task[t].to)
      BY <3>5, Going DEF Credit
    <3> QED
      BY <1>4, <3>1, <3>3, <3>4, <3>5
      DEF Continue, AskPlisio, VerifyShamCash, Credit, Commit
  <2>2. Sure(task[t])' BY <1>1, <1>2, <1>4, <2>1 DEF Sure
  <2> QED BY <1>1, <2>2 DEF SureInv, Sure
<1> QED BY <1>3, <1>4

\* A step of a task puts no safe payment aside.
LEMMA SafeTask ==
  ASSUME IInv, SureInv, NEW t \in Tasks, Continue(t),
         NEW i \in TopUpIds, Safe(i)
  PROVE  Safe(i)'
<1>1. /\ UNCHANGED <<method, plisio, late>>
      /\ \A u \in Tasks \ {t} : task'[u] = task[u]
      /\ task[t].at # "idle" /\ task[t].id \in TopUpIds
      /\ \/ task'[t].at = "idle"
         \/ task'[t].id = task[t].id /\ task'[t].last = task[t].last
  BY TaskMoves
<1>2. \A j \in TopUpIds : trouble[j] \subseteq trouble'[j]
  BY <1>1, Failing DEF Continue, AskPlisio, VerifyShamCash, Credit, Commit
<1>3. CASE "last" \in trouble[i]
  BY <1>1, <1>2, <1>3 DEF Safe
<1>4. CASE Waits(i) /\ task[t].id # i
  <2>1. status'[i] = status[i]
    BY <1>1, <1>4 DEF Continue, AskPlisio, VerifyShamCash, Credit, Commit, IInv,
                      TypeOK
  <2>2. Waits(i)' BY <1>1, <1>4, <2>1 DEF Waits
  <2> QED BY <1>1, <2>2 DEF Safe
<1>5. CASE Waits(i) /\ task[t].id = i
  <2> DEFINE kept == status'[i] \in {"pending", "paid", "cancelled"}
  <2>1. method[i] = "usdt" /\ plisio[i] = "paid" BY DEF Safe, SureInv
  <2>2. CASE kept /\ (task'[t].at = "commit" =>
                        task'[t].to \in {"paid", "cancelled"})
    <3>1. Waits(i)' BY <1>1, <1>5, <2>2 DEF Waits
    <3> QED BY <1>1, <3>1 DEF Safe
  <2>3. CASE Fault(t) /\ kept
    <3>1. task'[t].at = "idle" \/ "last" \in trouble'[i]
      BY <1>1, <1>5, <2>3, Failing
    <3> QED BY <1>1, <2>2, <2>3, <3>1 DEF Safe
  <2>4. CASE AskPlisio(t)
    <3>1. status' = status BY <2>4 DEF AskPlisio
    <3> QED
      BY <1>5, <2>1, <2>2, <2>3, <2>4, <3>1, PaidAnswer DEF Waits
  <2>5. CASE Credit(t)
    <3>1. status' = status BY <2>5 DEF Credit
    <3>2. task[t].at = "credit" /\ task[t].to = "paid"
      BY <1>5, <2>1, <2>5 DEF Credit, SureInv, Sure
    <3>3. CASE Go(t, "commit", task[t].to)
      <4>1. task'[t].to = "paid" BY <3>2, <3>3, Going
      <4> QED BY <1>5, <2>2, <3>1, <4>1 DEF Waits
    <3> QED BY <1>5, <2>3, <2>5, <3>1, <3>3 DEF Credit, Waits
  <2>6. CASE Commit(t)
    <3>1. task[t].to \in {"paid", "cancelled"}
      BY <1>1, <1>5, <2>6 DEF Commit, Waits
    <3>2. kept
      BY <1>5, <2>6, <3>1 DEF Commit, Waits, IInv, TypeOK
    <3> QED BY <2>2, <2>3, <2>6, <3>2, Ending DEF Commit
  <2> QED
    BY <1>5, <2>1, <2>4, <2>5, <2>6 DEF Continue, VerifyShamCash
<1> QED BY <1>3, <1>4, <1>5 DEF Safe

-----------------------------------------------------------------------------
(* The other steps.                                                        *)

\* A task takes up a row that is PENDING.
LEMMA SureBegin ==
  ASSUME IInv, SureInv, UNCHANGED <<method, plisio, late>>,
         NEW t \in Tasks, NEW r \in TaskRecord, task[t].at = "idle",
         task' = [task EXCEPT ![t] = r], Sure(r)
  PROVE  SureInv'
<1>1. task \in [Tasks -> TaskRecord] BY Split DEF IInv
<1>2. task'[t] = r /\ \A u \in Tasks \ {t} : task'[u] = task[u]
  BY <1>1
<1>3. ASSUME NEW u \in Tasks PROVE Sure(task[u])'
  BY <1>2 DEF SureInv, Sure
<1> QED BY <1>3 DEF SureInv

LEMMA SafeBegin ==
  ASSUME IInv, UNCHANGED <<method, plisio, status, credits, trouble>>,
         NEW t \in Tasks, NEW r \in TaskRecord,
         task' = [task EXCEPT ![t] = r],
         NEW i \in TopUpIds, Safe(i),
         r.id = i => r.at # "commit" \/ r.to = "cancelled"
  PROVE  Safe(i)'
<1>1. task \in [Tasks -> TaskRecord] BY Split DEF IInv
<1>2. task'[t] = r /\ \A u \in Tasks \ {t} : task'[u] = task[u]
  BY <1>1
<1>3. Waits(i) => Waits(i)' BY <1>2 DEF Waits
<1> QED BY <1>3 DEF Safe

LEMMA Begun ==
  ASSUME IInv, SureInv, NEW t \in Tasks, NEW i \in TopUpIds,
         NEW at \in {"ask", "credit", "commit"}, NEW to \in Status,
         NEW last \in BOOLEAN, Begin(t, i, at, to, last),
         UNCHANGED <<method, plisio, late, status, credits, trouble>>,
         method[i] = "usdt" => /\ last => late[i]
                               /\ \/ at = "ask" /\ to = "paid"
                                  \/ at = "commit" /\ to = "cancelled"
  PROVE  /\ SureInv'
         /\ \A j \in TopUpIds : Safe(j) => Safe(j)'
<1> DEFINE r == [at |-> at, id |-> i, to |-> to, last |-> last]
<1>1. r \in TaskRecord /\ Sure(r) BY DEF TaskRecord, Sure
<1>2. task[t].at = "idle" /\ task' = [task EXCEPT ![t] = r] BY DEF Begin
<1>3. /\ r.id = i
      /\ method[i] = "usdt" => r.at # "commit" \/ r.to = "cancelled"
  OBVIOUS
<1> HIDE DEF r
<1>4. SureInv' BY <1>1, <1>2, SureBegin
<1>5. ASSUME NEW j \in TopUpIds, Safe(j) PROVE Safe(j)'
  <2>1. method[j] = "usdt" BY <1>5 DEF Safe, SureInv
  <2> QED BY <1>1, <1>2, <1>3, <1>5, <2>1, SafeBegin
<1> QED BY <1>4, <1>5

LEMMA HandlerBegins ==
  ASSUME IInv, SureInv, NEW h \in Handlers, NEW i \in TopUpIds, Press(h, i)
  PROVE  SureInv' /\ \A j \in TopUpIds : Safe(j) => Safe(j)'
<1>1. h \in Tasks BY DEF Tasks
<1>2. \E at \in {"ask", "credit", "commit"}, to \in Status :
        /\ Start(h, i, at, to)
        /\ method[i] = "usdt" => \/ at = "ask" /\ to = "paid"
                                 \/ at = "commit" /\ to = "cancelled"
  BY DEF Press, ShamCashTx, UsdtCheck, CancelInvoice, DepositAccept,
         DepositReject, Invoice, Status
<1>3. PICK at \in {"ask", "credit", "commit"}, to \in Status :
        /\ Start(h, i, at, to)
        /\ method[i] = "usdt" => \/ at = "ask" /\ to = "paid"
                                 \/ at = "commit" /\ to = "cancelled"
  BY <1>2
<1>4. /\ Begin(h, i, at, to, FALSE)
      /\ UNCHANGED <<method, plisio, late, status, credits, trouble>>
  BY <1>3 DEF Start, world
<1> QED BY <1>1, <1>3, <1>4, Begun

LEMMA TurnBegins ==
  ASSUME IInv, SureInv, NEW i \in TopUpIds, TurnUsdt(i) \/ TurnShamCash(i)
  PROVE  SureInv' /\ \A j \in TopUpIds : Safe(j) => Safe(j)'
<1>1. UNCHANGED <<method, plisio, late, status, credits, trouble>>
  BY DEF TurnUsdt, TurnShamCash, Turn, world
<1>2. Monitor \in Tasks /\ late[i] \in BOOLEAN BY DEF Tasks, IInv, TypeOK
<1>3. CASE TurnUsdt(i)
  <2>1. PICK last \in BOOLEAN : last = late[i] BY <1>2
  <2>2. Begin(Monitor, i, "ask", "paid", last) BY <1>3, <2>1 DEF TurnUsdt
  <2>3. "paid" \in Status BY DEF Status
  <2> QED BY <1>1, <1>2, <2>1, <2>2, <2>3, Begun
<1>4. CASE TurnShamCash(i) /\ UNCHANGED task
  BY <1>1, <1>4 DEF SureInv, Sure, Safe, Waits
<1>5. CASE TurnShamCash(i) /\ Begin(Monitor, i, "commit", "expired", TRUE)
  <2>1. method[i] # "usdt" /\ "expired" \in Status
    BY <1>5 DEF TurnShamCash, Status
  <2> QED BY <1>1, <1>2, <1>5, <2>1, Begun
<1> QED BY <1>3, <1>4, <1>5 DEF TurnShamCash

\* Steps that move no task.
LEMMA NobodyMoves ==
  ASSUME IInv, SureInv,
         \/ \E i \in TopUpIds : \/ ShamCashAutoAmount(i) \/ UsdtAutoAmount(i)
                                \/ ManualTx(i) \/ Settle(i) \/ DeadlinePasses(i)
         \/ Snapshot \/ Crash \/ UNCHANGED vars
  PROVE  SureInv' /\ \A j \in TopUpIds : Safe(j) => Safe(j)'
<1>1. TypeOK BY DEF IInv
<1>2. CASE UNCHANGED <<method, plisio, late, status, credits, trouble, task>>
  BY <1>2 DEF SureInv, Sure, Safe, Waits
<1>3. CASE Snapshot \/ UNCHANGED vars
  BY <1>2, <1>3 DEF Snapshot, world, vars
<1>4. CASE Crash
  BY <1>4 DEF Crash, NoTask, SureInv, Sure, Safe, Waits
<1>5. ASSUME NEW i \in TopUpIds, Settle(i)
      PROVE  SureInv' /\ \A j \in TopUpIds : Safe(j) => Safe(j)'
  <2>1. /\ method[i] = "usdt" /\ plisio[i] \in {"process", "check"}
        /\ \A j \in TopUpIds \ {i} : plisio'[j] = plisio[j]
        /\ UNCHANGED <<method, late, status, credits, trouble, task>>
    BY <1>1, <1>5 DEF Settle, TypeOK
  <2>2. \A t \in Tasks : task[t].at # "idle" => task[t].id \in TopUpIds
    BY DEF IInv, Fits
  <2>3. ASSUME NEW t \in Tasks PROVE Sure(task[t])'
    BY <2>1, <2>2 DEF SureInv, Sure
  <2>4. \A j \in TopUpIds : Safe(j) => Safe(j)'
    BY <2>1 DEF Safe, Waits
  <2> QED BY <2>1, <2>3, <2>4 DEF SureInv
<1>6. ASSUME NEW i \in TopUpIds, DeadlinePasses(i)
      PROVE  SureInv' /\ \A j \in TopUpIds : Safe(j) => Safe(j)'
  <2>1. /\ \A j \in TopUpIds : late[j] => late'[j]
        /\ UNCHANGED <<method, plisio, status, credits, trouble, task>>
    BY <1>1, <1>6 DEF DeadlinePasses, TypeOK
  <2>2. \A t \in Tasks : task[t].at # "idle" => task[t].id \in TopUpIds
    BY DEF IInv, Fits
  <2>3. ASSUME NEW t \in Tasks PROVE Sure(task[t])'
    BY <2>1, <2>2 DEF SureInv, Sure
  <2> QED BY <2>1, <2>3 DEF SureInv, Safe, Waits
<1>7. ASSUME NEW i \in TopUpIds, NEW kind, Insert(i, kind)
      PROVE  SureInv' /\ \A j \in TopUpIds : Safe(j) => Safe(j)'
  <2>1. UNCHANGED <<method, plisio, late, credits, trouble, task>>
    BY <1>7 DEF Insert, world
  <2>2. \A j \in TopUpIds : status[j] \in {"pending", "paid", "cancelled"} =>
                              status'[j] \in {"pending", "paid", "cancelled"}
    BY <1>1, <1>7 DEF Insert, TypeOK
  <2> QED BY <2>1, <2>2 DEF SureInv, Sure, Safe, Waits
<1> QED
  BY <1>3, <1>4, <1>5, <1>6, <1>7
  DEF ShamCashAutoAmount, UsdtAutoAmount, ManualTx

LEMMA OnePaymentIsKept ==
  ASSUME NEW i \in TopUpIds
  PROVE  Spec => [](PaidInTime(i) => []Kept(i))
<1>1. Init => SureInv
  BY DEF Init, SureInv, Sure, NoTask
<1>2. IInv /\ SureInv /\ [Next]_vars =>
        SureInv' /\ \A j \in TopUpIds : Safe(j) => Safe(j)'
  <2> SUFFICES ASSUME IInv, SureInv, [Next]_vars
               PROVE  SureInv' /\ \A j \in TopUpIds : Safe(j) => Safe(j)'
    OBVIOUS
  <2>1. Monitor \in Tasks /\ Handlers \subseteq Tasks BY DEF Tasks
  <2>2. CASE \E t \in Tasks : Continue(t)
    BY <2>2, SureTask, SafeTask
  <2>3. CASE Poll
    BY <2>1, <2>2, <2>3, TurnBegins, NobodyMoves DEF Poll
  <2>4. CASE \E h \in Handlers : \E j \in TopUpIds : Press(h, j)
    BY <2>4, HandlerBegins
  <2> QED BY <2>1, <2>2, <2>3, <2>4, NobodyMoves DEF Next
<1>3. IInv /\ SureInv /\ PaidInTime(i) => Safe(i)
  BY InTimeIsSafe
<1>4. IInv /\ Safe(i) => Kept(i)
  BY DEF Safe, Waits, Kept, IInv, PaidIsCredited
<1>5. IInv /\ SureInv /\ Safe(i) /\ [Next]_vars => Safe(i)'
  BY <1>2
<1>6. IInv /\ SureInv /\ [Next]_vars => SureInv'
  BY <1>2
<1> QED BY <1>1, <1>3, <1>4, <1>5, <1>6, Inductive, PTL DEF Spec

\* A payment that Plisio has complete before the deadline is credited and its
\* invoice PAID for good, or the invoice stays PENDING until it is, unless the
\* user cancels or the last check fails (invoice_monitor.py:104-136, 215-234).
THEOREM PaymentsAreKept == Spec => PaymentIsKept
  BY OnePaymentIsKept DEF PaymentIsKept
====
