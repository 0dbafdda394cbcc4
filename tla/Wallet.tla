------------------------------- MODULE Wallet -------------------------------
(***************************************************************************)
(* BalanceService (services/balance_service.py): credits, debits and       *)
(* transfers by concurrent tasks of one or several processes that share a  *)
(* database.  A task works through a database session whose identity map   *)
(* hands the SAME user object out until nobody refers to it any more       *)
(* (expire_on_commit=False, database/engine.py:22), so a task may compute  *)
(* from a copy of the row it read before it took the user's lock.          *)
(*                                                                         *)
(* Steps are the database statements: an operation suspends at each one.   *)
(* A user's lock is an object that a process makes when it is first asked  *)
(* for.  The cleanup job (bot.py:188) forgets the objects nobody holds,    *)
(* those a suspended call is about to take among them, and the next caller *)
(* makes another: objects of one user are told apart by a generation.      *)
(* In which order the waiting calls get a lock is the matter of UserLocks. *)
(***************************************************************************)
EXTENDS Integers, Sequences, FiniteSets

CONSTANTS Users,
          Tasks,    \* update handlers, HTTP requests, scheduled jobs
          ProcOf,   \* the process of each task: locks are per process
          Calls,    \* per task: the calls it may make
          Pinning,  \* tasks that hold user objects between operations:
                    \* updates (UserMiddleware) and requests (deps.py:17-34)
          Cleaners, \* processes that run the cleanup job
          Refs,     \* external payment references (charge id, invoice:<id>)
          Rels,     \* internal origins: transaction type, table and row id
          Amounts,  \* positive amounts of money, in the smallest unit
          NoRef, NoRel, Unloaded, NoCall,
          MaxRows,  \* bound: no operation starts beyond this many rows
          MaxDrops  \* bound: locks of one user a process forgets

Kinds == {"credit", "debit", "purchase", "transfer"}

\* The arguments of add_balance, deduct_balance (is_purchase or not) and
\* transfer; `to' is the recipient of a transfer, otherwise the user.
CallSet == [kind : Kinds, user : Users, to : Users, amount : Amounts,
            ref : Refs \cup {NoRef}, rel : Rels \cup {NoRel}]
Credit(u, a, ref, rel) ==
  [kind |-> "credit", user |-> u, to |-> u, amount |-> a,
   ref |-> ref, rel |-> rel]
Debit(u, a, kind) ==
  [kind |-> kind, user |-> u, to |-> u, amount |-> a,
   ref |-> NoRef, rel |-> NoRel]
Transfer(u, v, a) ==
  [kind |-> "transfer", user |-> u, to |-> v, amount |-> a,
   ref |-> NoRef, rel |-> NoRel]

\* Rows of `users': the columns BalanceService writes.
Account == [balance : Nat, spent : Nat, orders : Nat]
\* Rows of `transactions'.
Row == [kind : {"credit", "debit", "purchase", "out", "in"}, user : Users,
        amount : Int, after : Nat, ref : Refs \cup {NoRef},
        rel : Rels \cup {NoRel}]

ASSUME WalletAssumption ==
  /\ Amounts \subseteq Nat \ {0}
  /\ NoRef \notin Refs /\ NoRel \notin Rels
  /\ Unloaded \notin Account /\ NoCall \notin CallSet
  /\ Calls \in [Tasks -> SUBSET CallSet]
  /\ \A t \in Tasks : \A c \in Calls[t] :
       /\ c.kind = "transfer" <=> c.user # c.to
       /\ c.kind # "credit" => c.ref = NoRef /\ c.rel = NoRel
  /\ Users \subseteq Nat
  /\ Pinning \subseteq Tasks
  /\ MaxDrops \in Nat

VARIABLES account,  \* table users, committed
          ledger,   \* table transactions, committed, in insertion order
          cache,    \* per task: its session's identity map
          task,     \* per task: [at, call, result, locks]
          registry, \* per process and user: generation of the lock in _locks
          dropped   \* history: users whose lock was forgotten under a call

vars == <<account, ledger, cache, task, registry, dropped>>

\* "waiting" for the first lock, with the first for the "second", then inside.
Places == {"idle", "waiting", "second", "entered", "referenced", "checked",
           "conflict", "refresh"}
Procs == {ProcOf[t] : t \in Tasks}
Generation == 0 .. MaxDrops

TypeOK ==
  /\ account \in [Users -> Account]
  /\ ledger \in Seq(Row)
  /\ cache \in [Tasks -> [Users -> Account \cup {Unloaded}]]
  /\ task \in [Tasks -> [at : Places, call : CallSet \cup {NoCall},
                         result : {"none", "ok", "error"},
                         locks : [Users -> Generation]]]
  /\ registry \in [Procs -> [Users -> Generation]]
  /\ dropped \subseteq Users

Fresh == [u \in Users |-> Unloaded]
NoLocks == [u \in Users |-> 0]
NoTask == [at |-> "idle", call |-> NoCall, result |-> "none", locks |-> NoLocks]

Init ==
  /\ account = [u \in Users |-> [balance |-> 0, spent |-> 0, orders |-> 0]]
  /\ ledger = <<>>
  /\ cache = [t \in Tasks |-> Fresh]
  /\ task = [t \in Tasks |-> NoTask]
  /\ registry = [p \in Procs |-> NoLocks]
  /\ dropped = {}

-----------------------------------------------------------------------------
(* Sessions and locks.                                                     *)

At(t, place) == task[t].at = place
Ids(c) == {c.user, c.to}

Go(t, place) == task' = [task EXCEPT ![t].at = place]

\* The end of an operation: the locks are released and the session forgets
\* the users, unless the caller holds on to the objects.
Return(t, result, cached) ==
  /\ task' = [task EXCEPT ![t].at = "idle", ![t].result = result,
                          ![t].locks = NoLocks]
  /\ cache' = [cache EXCEPT ![t] = IF t \in Pinning THEN cached ELSE Fresh]

\* session.get: the identity map's object if there is one, else a SELECT.
Get(t, us) == [u \in Users |-> IF u \in us /\ cache[t][u] = Unloaded
                                 THEN account[u] ELSE cache[t][u]]

\* UserMiddleware, get_current_user and handlers load a user and keep it.
Pin(t) ==
  /\ t \in Pinning /\ At(t, "idle")
  /\ \E u \in Users : /\ cache[t][u] = Unloaded
                      /\ cache' = [cache EXCEPT ![t] = Get(t, {u})]
  /\ UNCHANGED <<account, ledger, task, registry, dropped>>

\* The session of the update, request or job is closed.
Close(t) ==
  /\ At(t, "idle") /\ cache[t] # Fresh
  /\ cache' = [cache EXCEPT ![t] = Fresh]
  /\ UNCHANGED <<account, ledger, task, registry, dropped>>

\* The order in which a transfer takes its locks.
First(c) == IF c.user < c.to THEN c.user ELSE c.to
Second(c) == IF c.user < c.to THEN c.to ELSE c.user

\* The users whose lock a task holds.
Holding(t) == CASE At(t, "idle") \/ At(t, "waiting") -> {}
                [] At(t, "second") -> {First(task[t].call)}
                [] OTHER -> Ids(task[t].call)

\* Mutated `Taken': nobody ever waits for a lock.
NeverTaken(t, u, g) == g > MaxDrops

\* Another task of the process holds this very lock object of the user.
Taken(t, u, g) ==
  \E s \in Tasks \ {t} : /\ ProcOf[s] = ProcOf[t]
                         /\ u \in Holding(s) /\ task[s].locks[u] = g

\* A call that has its first lock takes the second one as well (of a movement
\* of one user they are the same) and loads the rows, or waits for it.
Proceed(t, c, locks) ==
  LET go(place) == task' = [task EXCEPT ![t] =
        [at |-> place, call |-> c, result |-> "none", locks |-> locks]]
  IN \/ Taken(t, Second(c), locks[Second(c)]) /\ go("second") /\ UNCHANGED cache
     \/ /\ ~Taken(t, Second(c), locks[Second(c)])
        /\ go("entered") /\ cache' = [cache EXCEPT ![t] = Get(t, Ids(c))]

\* A call fetches its lock objects, both before it waits for any, and takes
\* them without suspending where they are free.
Enter(t) ==
  /\ At(t, "idle") /\ Len(ledger) < MaxRows
  /\ \E c \in Calls[t] :
       LET locks == [u \in Users |->
                       IF u \in Ids(c) THEN registry[ProcOf[t]][u] ELSE 0]
       IN \/ /\ Taken(t, First(c), locks[First(c)])
             /\ task' = [task EXCEPT ![t] = [at |-> "waiting", call |-> c,
                                       result |-> "none", locks |-> locks]]
             /\ UNCHANGED cache
          \/ ~Taken(t, First(c), locks[First(c)]) /\ Proceed(t, c, locks)
  /\ UNCHANGED <<account, ledger, registry, dropped>>

\* A waiting call gets the lock it waits for.
Resume(t) ==
  LET c == task[t].call
      locks == task[t].locks
  IN /\ \/ At(t, "waiting") /\ ~Taken(t, First(c), locks[First(c)])
        \/ At(t, "second") /\ ~Taken(t, Second(c), locks[Second(c)])
     /\ Proceed(t, c, locks)
     /\ UNCHANGED <<account, ledger, registry, dropped>>

\* cleanup_idle_locks: the objects that are not locked() leave the registry.
\* It makes a difference for those that a suspended call still refers to.
Dropped(p) ==
  {u \in Users :
     LET refer == {t \in Tasks :
           ProcOf[t] = p /\ ~At(t, "idle") /\ u \in Ids(task[t].call)
                         /\ task[t].locks[u] = registry[p][u]}
     IN refer # {} /\ \A t \in refer : u \notin Holding(t)}
CleanUp(p) ==
  /\ p \in Cleaners /\ Dropped(p) # {}
  /\ \A u \in Dropped(p) : registry[p][u] < MaxDrops
  /\ registry' = [registry EXCEPT ![p] = [u \in Users |->
       IF u \in Dropped(p) THEN registry[p][u] + 1 ELSE registry[p][u]]]
  /\ dropped' = dropped \cup Dropped(p)
  /\ UNCHANGED <<account, ledger, cache, task>>

-----------------------------------------------------------------------------
(* The operations, one database statement at a time.                       *)

\* The rows the two idempotency queries of add_balance look for.
SameRef(c) == {i \in 1 .. Len(ledger) : /\ c.ref # NoRef
                                        /\ ledger[i].ref = c.ref}
SameRel(c) == {i \in 1 .. Len(ledger) : /\ c.rel # NoRel
                                        /\ ledger[i].kind = "credit"
                                        /\ ledger[i].user = c.user
                                        /\ ledger[i].rel = c.rel}

\* A row found by a query is the very movement the call asks for.
Matches(c, i) == ledger[i].user = c.user /\ ledger[i].amount = c.amount

\* The outcome of an idempotency query: a known movement is not repeated,
\* one with other data is an error, an unknown one goes on.
Decide(t, rows, next) ==
  LET c == task[t].call IN
    \/ rows = {} /\ Go(t, next) /\ UNCHANGED cache
    \/ \E i \in rows : Matches(c, i) /\ Go(t, "refresh") /\ UNCHANGED cache
    \/ \E i \in rows : ~Matches(c, i) /\ Return(t, "error", cache[t])

CheckReference(t) ==
  /\ At(t, "entered") /\ task[t].call.kind = "credit"
  /\ Decide(t, SameRef(task[t].call), "referenced")
  /\ UNCHANGED <<account, ledger, registry, dropped>>

\* Mutated `CheckRelated': the second query is gone.
SkipRelated(t) ==
  /\ At(t, "referenced")
  /\ Go(t, "checked")
  /\ UNCHANGED <<account, ledger, cache, registry, dropped>>

CheckRelated(t) ==
  /\ At(t, "referenced")
  /\ Decide(t, SameRel(task[t].call), "checked")
  /\ UNCHANGED <<account, ledger, registry, dropped>>

\* Mutated `Insufficient': the boundary case is refused too late.
InsufficientOffByOne(b, a) == b + 1 < a

\* user.balance < amount: InsufficientBalanceError.
Insufficient(b, a) == b < a

CheckFunds(t) ==
  LET c == task[t].call IN
    /\ At(t, "entered") /\ c.kind # "credit"
    /\ \/ /\ Insufficient(cache[t][c.user].balance, c.amount)
          /\ Return(t, "error", cache[t])
       \/ /\ ~Insufficient(cache[t][c.user].balance, c.amount)
          /\ Go(t, "checked") /\ UNCHANGED cache
    /\ UNCHANGED <<account, ledger, registry, dropped>>

\* What a call adds to the balance of a user.
Delta(c, u) == IF c.kind = "credit" THEN c.amount
               ELSE IF u = c.user THEN -c.amount ELSE c.amount

\* The user's row as the operation leaves it, computed from the session's
\* object; the UPDATE writes the columns that changed and no others.
Updated(row, copy, c, u) ==
  IF c.kind = "purchase"
    THEN [balance |-> copy.balance - c.amount,
          spent |-> copy.spent + c.amount, orders |-> copy.orders + 1]
    ELSE [row EXCEPT !.balance = copy.balance + Delta(c, u)]

\* Mutated `NewRow': balance_after is taken before the movement.
NewRowBefore(t, kind, u) ==
  LET c == task[t].call IN
    [kind |-> kind, user |-> u, amount |-> Delta(c, u),
     after |-> cache[t][u].balance, ref |-> c.ref, rel |-> c.rel]

NewRow(t, kind, u) ==
  LET c == task[t].call IN
    [kind |-> kind, user |-> u, amount |-> Delta(c, u),
     after |-> cache[t][u].balance + Delta(c, u), ref |-> c.ref, rel |-> c.rel]

NewRows(t) ==
  LET c == task[t].call IN
    IF c.kind = "transfer" THEN <<NewRow(t, "out", c.user), NewRow(t, "in", c.to)>>
                           ELSE <<NewRow(t, c.kind, c.user)>>

\* Mutated `Duplicate': payment_reference carries no unique constraint.
NotUnique(c) == c = NoCall

\* The unique constraint on transactions.payment_reference.
Duplicate(c) == SameRef(c) # {}

\* session.commit: the users' rows and the ledger rows, together.
Commit(t) ==
  LET c == task[t].call IN
    /\ At(t, "checked") /\ ~Duplicate(c)
    /\ account' = [u \in Users |->
         IF u \in Ids(c) THEN Updated(account[u], cache[t][u], c, u)
                         ELSE account[u]]
    /\ ledger' = ledger \o NewRows(t)
    /\ cache' = [cache EXCEPT ![t] = [u \in Users |->
         IF u \in Ids(c) THEN Updated(cache[t][u], cache[t][u], c, u)
                         ELSE cache[t][u]]]
    /\ Go(t, "refresh")
    /\ UNCHANGED <<registry, dropped>>

\* IntegrityError: roll back, which expires every object of the session.
Conflict(t) ==
  /\ At(t, "checked") /\ Duplicate(task[t].call)
  /\ Go(t, "conflict")
  /\ cache' = [cache EXCEPT ![t] = Fresh]
  /\ UNCHANGED <<account, ledger, registry, dropped>>

\* The recovery after an IntegrityError: the movement that was there first.
Recover(t) ==
  LET c == task[t].call IN
    /\ At(t, "conflict")
    /\ \E i \in SameRef(c) :
         \/ Matches(c, i) /\ Return(t, "ok", Get(t, Ids(c)))
         \/ ~Matches(c, i) /\ Return(t, "error", cache[t])
    /\ UNCHANGED <<account, ledger, registry, dropped>>

\* session.refresh of the operation's users, and return.
Refresh(t) ==
  LET c == task[t].call IN
    /\ At(t, "refresh")
    /\ Return(t, "ok", [u \in Users |-> IF u \in Ids(c) THEN account[u]
                                                        ELSE cache[t][u]])
    /\ UNCHANGED <<account, ledger, registry, dropped>>

\* A process dies: its sessions and locks are gone, the database stays.
Crash(p) ==
  /\ task' = [t \in Tasks |-> IF ProcOf[t] = p THEN NoTask ELSE task[t]]
  /\ cache' = [t \in Tasks |-> IF ProcOf[t] = p THEN Fresh ELSE cache[t]]
  /\ registry' = [registry EXCEPT ![p] = NoLocks]
  /\ UNCHANGED <<account, ledger, dropped>>

Step(t) ==
  \/ Pin(t) \/ Close(t) \/ Enter(t) \/ Resume(t)
  \/ CheckReference(t) \/ CheckRelated(t) \/ CheckFunds(t)
  \/ Commit(t) \/ Conflict(t) \/ Recover(t) \/ Refresh(t)

Next ==
  \/ \E t \in Tasks : Step(t)
  \/ \E p \in Procs : CleanUp(p) \/ Crash(p)

Spec == Init /\ [][Next]_vars

-----------------------------------------------------------------------------
(* What the callers and the auditor of the ledger rely on.                 *)

\* A call that succeeded and carried a payment reference has been credited:
\* one row has the reference, with the caller's user and amount, however many
\* tasks of however many processes were told of the same payment
\* (balance_service.py:82-100, 129-154).
PaymentCreditedOnce ==
  \A t \in Tasks :
    LET c == task[t].call IN
      /\ At(t, "idle") /\ task[t].result = "ok"
      /\ c.kind = "credit" /\ c.ref # NoRef
      => \E i \in 1 .. Len(ledger) : Matches(c, i) /\ SameRef(c) = {i}

\* The same for movements identified by an internal record: a deposit request,
\* an invoice or a refund is credited once (balance_service.py:102-122).  No
\* constraint of the table helps: only the lock separates query and insert.  So
\* it holds as long as the cleanup has not forgotten a lock of the user that a
\* call was about to take; after that two calls may be inside together.
RelatedCreditedOnce ==
  \A t \in Tasks :
    LET c == task[t].call IN
      /\ At(t, "idle") /\ task[t].result = "ok"
      /\ c.kind = "credit" /\ c.rel # NoRel /\ c.user \notin dropped
      => \E i \in 1 .. Len(ledger) : Matches(c, i) /\ SameRel(c) = {i}

\* What the comment at balance_service.py:102-103 says, in every case: an
\* accepted deposit or a refund is not credited again by a retry.
RecordNeverRepeated ==
  \A t \in Tasks :
    LET c == task[t].call IN
      At(t, "idle") /\ task[t].result = "ok" /\ c.kind = "credit" /\ c.rel # NoRel
      => \E i \in 1 .. Len(ledger) : SameRel(c) = {i}

RowsOf(u, n) == {i \in 1 .. n : ledger[i].user = u}
Latest(u, n, i) ==
  i \in RowsOf(u, n) /\ \A j \in RowsOf(u, n) : j <= i

\* The newest ledger row of a user states the balance in the user's row, even
\* when tasks overwrite each other's work (balance_service.py:126, 191).
LastRowIsBalance ==
  \A u \in Users :
    /\ RowsOf(u, Len(ledger)) = {} => account[u].balance = 0
    /\ \A i \in 1 .. Len(ledger) :
         Latest(u, Len(ledger), i) => ledger[i].after = account[u].balance

\* The ledger adds up: every row continues from the balance the user's row
\* before it left (models.py:7, "a complete ledger of every movement").
LedgerAddsUp ==
  \A i \in 1 .. Len(ledger) :
    LET u == ledger[i].user IN
      /\ RowsOf(u, i - 1) = {} => ledger[i].after = ledger[i].amount
      /\ \A j \in 1 .. (i - 1) : Latest(u, i - 1, j) =>
           ledger[i].after = ledger[j].after + ledger[i].amount

\* A job that loads the user under the lock, as the invoice monitor and the
\* refunds of the number monitor do, moves the committed balance by exactly its
\* amount, whatever stale copies the updates hold (balance_service.py:75-76):
\* unless the user's lock was forgotten under a call, or calls of another
\* process move the user's money too.
Local(t, u) == \A s \in Tasks : (\E c \in Calls[s] : u \in Ids(c))
                                  => ProcOf[s] = ProcOf[t]
JobsAddUp ==
  [][\A t \in Tasks \ Pinning, u \in Users \ dropped :
       Commit(t) /\ u \in Ids(task[t].call) /\ Local(t, u)
       => account'[u].balance = account[u].balance + Delta(task[t].call, u)]_vars

\* The operations are those of the bank.
B == INSTANCE Bank WITH accounts <- [u \in Users |-> account[u].balance],
                        entries <- ledger
ImplementsBank == B!Spec
=============================================================================
