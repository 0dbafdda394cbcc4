---------------------------- MODULE WalletProofs ----------------------------
(***************************************************************************)
(* Theorems about Wallet, for every set of users, tasks, processes and     *)
(* calls: the types of the tables (no balance is ever negative); the       *)
(* newest row of the ledger states the balance, even when tasks overwrite  *)
(* each other's work; the operations are the Bank's; a payment is credited *)
(* once; and, for users whose lock the cleanup has not forgotten under a   *)
(* call, the operations of one process exclude each other, so that an      *)
(* internal record is credited once and the jobs' movements add up.        *)
(***************************************************************************)
EXTENDS Wallet, SequenceTheorems, FiniteSetTheorems, TLAPS

\* The task has the rows of its users in its session.
Loaded(t) == task[t].at \notin {"idle", "waiting", "second", "conflict"}

\* What a task knows at each place of an operation.
TaskOK(t) ==
  LET c == task[t].call IN
    /\ task[t].at # "idle" => c \in Calls[t]
    /\ Loaded(t) => \A u \in Ids(c) : cache[t][u] \in Account
    /\ task[t].at \in {"referenced", "conflict"} => c.kind = "credit"
    /\ task[t].at = "checked" /\ c.kind # "credit" =>
         c.amount <= cache[t][c.user].balance

IInv == TypeOK /\ \A t \in Tasks : TaskOK(t)

-----------------------------------------------------------------------------
(* Calls and rows.                                                         *)

LEMMA CallFacts ==
  ASSUME NEW t \in Tasks, NEW c \in Calls[t]
  PROVE  /\ c \in CallSet
         /\ c.kind \in Kinds /\ c.user \in Users /\ c.to \in Users
         /\ c.amount \in Nat /\ c.amount > 0
         /\ c.ref \in Refs \cup {NoRef} /\ c.rel \in Rels \cup {NoRel}
         /\ c.kind = "transfer" <=> c.user # c.to
         /\ c.kind # "credit" => c.ref = NoRef /\ c.rel = NoRel
<1>1. c \in CallSet /\ Amounts \subseteq Nat \ {0}
  BY WalletAssumption
<1>2. /\ c.kind = "transfer" <=> c.user # c.to
      /\ c.kind # "credit" => c.ref = NoRef /\ c.rel = NoRel
  BY WalletAssumption
<1>3. /\ c.kind \in Kinds /\ c.user \in Users /\ c.to \in Users
      /\ c.amount \in Amounts
      /\ c.ref \in Refs \cup {NoRef} /\ c.rel \in Rels \cup {NoRel}
  BY <1>1 DEF CallSet
<1>4. c.amount \in Nat \ {0} BY <1>1, <1>3, Zenon
<1>5. c.amount \in Nat /\ c.amount > 0 BY <1>4
<1> QED BY <1>1, <1>2, <1>3, <1>5

\* A movement leaves a well-typed row when a debited copy covers it.
LEMMA UpdatedFacts ==
  ASSUME NEW t \in Tasks, NEW c \in Calls[t], NEW u \in Ids(c),
         NEW row \in Account, NEW copy \in Account,
         c.kind # "credit" /\ u = c.user => c.amount <= copy.balance
  PROVE  /\ Updated(row, copy, c, u) \in Account
         /\ Updated(row, copy, c, u).balance = copy.balance + Delta(c, u)
<1>1. /\ c.amount \in Nat /\ c.kind \in Kinds
      /\ c.kind = "transfer" <=> c.user # c.to
  BY CallFacts
<1>2. copy.balance + Delta(c, u) \in Nat
  BY <1>1 DEF Delta, Account
<1>3. c.kind = "purchase" => Delta(c, u) = -c.amount
  BY <1>1 DEF Delta, Ids
<1>4. CASE c.kind = "purchase"
  BY <1>1, <1>2, <1>3, <1>4 DEF Updated, Account
<1>5. CASE c.kind # "purchase"
  BY <1>1, <1>2, <1>5 DEF Updated, Account
<1> QED BY <1>4, <1>5

\* The ledger rows of an operation that has passed its checks: of its users
\* only, one for each, and stating the balance the session's object had plus
\* the movement.
LEMMA NewRowsFacts ==
  ASSUME IInv, NEW t \in Tasks, task[t].at = "checked"
  PROVE  LET c == task[t].call
             n == Len(NewRows(t))
         IN /\ NewRows(t) \in Seq(Row)
            /\ n \in {1, 2}
            /\ n = 2 => NewRows(t)[1].user # NewRows(t)[2].user
            /\ \A k \in 1 .. n :
                 /\ NewRows(t)[k].user \in Ids(c)
                 /\ NewRows(t)[k].amount = Delta(c, NewRows(t)[k].user)
                 /\ NewRows(t)[k].after =
                      cache[t][NewRows(t)[k].user].balance
                        + Delta(c, NewRows(t)[k].user)
            /\ \A u \in Ids(c) : \E k \in 1 .. n : NewRows(t)[k].user = u
<1> DEFINE c == task[t].call
<1>1. c \in Calls[t] /\ \A u \in Ids(c) : cache[t][u] \in Account
  BY DEF IInv, TaskOK, Loaded
<1>2. /\ c.kind \in Kinds /\ c.user \in Users /\ c.to \in Users
      /\ c.amount \in Nat /\ c.amount > 0
      /\ c.ref \in Refs \cup {NoRef} /\ c.rel \in Rels \cup {NoRel}
      /\ c.kind = "transfer" <=> c.user # c.to
  BY <1>1, CallFacts
<1>3. c.kind # "credit" => c.amount <= cache[t][c.user].balance
  BY DEF IInv, TaskOK
<1>4. ASSUME NEW u \in Ids(c), NEW kind \in {"credit", "debit", "purchase", "out", "in"}
      PROVE  /\ NewRow(t, kind, u) \in Row
             /\ NewRow(t, kind, u).user = u
             /\ NewRow(t, kind, u).amount = Delta(c, u)
             /\ NewRow(t, kind, u).after = cache[t][u].balance + Delta(c, u)
  <2>1. cache[t][u].balance + Delta(c, u) \in Nat
    <3> HIDE DEF c
    <3>1. cache[t][u] \in Account BY <1>1
    <3>2. c.kind # "credit" /\ u = c.user => c.amount <= cache[t][u].balance
      BY <1>3
    <3>3. account[u] \in Account BY <1>2 DEF IInv, TypeOK, Ids
    <3>4. c \in Calls[t] BY <1>1
    <3>5. /\ Updated(account[u], cache[t][u], c, u) \in Account
          /\ Updated(account[u], cache[t][u], c, u).balance
               = cache[t][u].balance + Delta(c, u)
      BY <3>1, <3>2, <3>3, <3>4, UpdatedFacts
    <3> QED BY <3>5 DEF Account
  <2>2. Delta(c, u) \in Int BY <1>2 DEF Delta
  <2>3. u \in Users BY <1>2 DEF Ids
  <2> QED BY <1>2, <2>1, <2>2, <2>3 DEF NewRow, Row
<1>5. CASE c.kind = "transfer"
  <2>1. NewRows(t) = <<NewRow(t, "out", c.user), NewRow(t, "in", c.to)>>
    BY <1>5 DEF NewRows
  <2>2. c.user # c.to /\ Ids(c) = {c.user, c.to} BY <1>2, <1>5 DEF Ids
  <2> HIDE DEF c
  <2>3. /\ NewRow(t, "out", c.user) \in Row /\ NewRow(t, "in", c.to) \in Row
        /\ NewRow(t, "out", c.user).user = c.user
        /\ NewRow(t, "in", c.to).user = c.to
    BY <1>4, <2>2
  <2>4. Len(NewRows(t)) = 2 /\ NewRows(t) \in Seq(Row) BY <2>1, <2>3
  <2>5. /\ NewRows(t)[1] = NewRow(t, "out", c.user)
        /\ NewRows(t)[2] = NewRow(t, "in", c.to)
    BY <2>1
  <2>6. \A u \in Ids(c) : \E k \in 1 .. 2 : NewRows(t)[k].user = u
    BY <2>2, <2>3, <2>5
  <2>7. ASSUME NEW k \in 1 .. 2
        PROVE  /\ NewRows(t)[k].user \in Ids(c)
               /\ NewRows(t)[k].amount = Delta(c, NewRows(t)[k].user)
               /\ NewRows(t)[k].after = cache[t][NewRows(t)[k].user].balance
                                          + Delta(c, NewRows(t)[k].user)
    BY <1>4, <2>2, <2>3, <2>5
  <2> QED BY <2>2, <2>3, <2>4, <2>5, <2>6, <2>7 DEF c
<1>6. CASE c.kind # "transfer"
  <2>1. NewRows(t) = <<NewRow(t, c.kind, c.user)>>
    BY <1>6 DEF NewRows
  <2>2. Ids(c) = {c.user} BY <1>2, <1>6 DEF Ids
  <2>3. c.kind \in {"credit", "debit", "purchase", "out", "in"}
    BY <1>2, <1>6 DEF Kinds
  <2> HIDE DEF c
  <2>4. /\ NewRow(t, c.kind, c.user) \in Row
        /\ NewRow(t, c.kind, c.user).user = c.user
        /\ NewRow(t, c.kind, c.user).amount = Delta(c, c.user)
        /\ NewRow(t, c.kind, c.user).after =
             cache[t][c.user].balance + Delta(c, c.user)
    BY <1>4, <2>2, <2>3
  <2>5. /\ Len(NewRows(t)) = 1 /\ NewRows(t) \in Seq(Row)
        /\ NewRows(t)[1] = NewRow(t, c.kind, c.user)
    BY <2>1, <2>4
  <2> QED BY <2>2, <2>4, <2>5 DEF c
<1> QED BY <1>5, <1>6

-----------------------------------------------------------------------------
(* The invariant is preserved.                                             *)

Copies == [Users -> Account \cup {Unloaded}]
TaskState == [at : Places, call : CallSet \cup {NoCall},
              result : {"none", "ok", "error"}, locks : [Users -> Generation]]

\* A step of one task disturbs neither the others nor what they know.
LEMMA OneTask ==
  ASSUME IInv, NEW t \in Tasks,
         account' \in [Users -> Account], ledger' \in Seq(Row),
         task' \in [Tasks -> TaskState], cache' \in [Tasks -> Copies],
         UNCHANGED <<registry, dropped>>,
         \A s \in Tasks \ {t} : task'[s] = task[s] /\ cache'[s] = cache[s],
         TaskOK(t)'
  PROVE  IInv'
<1>1. TypeOK' BY DEF IInv, TypeOK, TaskState, Copies
<1>2. ASSUME NEW s \in Tasks \ {t} PROVE TaskOK(s)'
  <2>1. task'[s] = task[s] /\ cache'[s] = cache[s] OBVIOUS
  <2>2. TaskOK(s) BY DEF IInv
  <2> QED BY <2>1, <2>2 DEF TaskOK, Loaded
<1> QED BY <1>1, <1>2 DEF IInv

\* What session.get leaves in the identity map.
LEMMA GetFacts ==
  ASSUME TypeOK, NEW t \in Tasks, NEW us \in SUBSET Users
  PROVE  /\ Get(t, us) \in Copies
         /\ \A u \in us : Get(t, us)[u] \in Account
         /\ \A u \in Users \ us : Get(t, us)[u] = cache[t][u]
<1>1. ASSUME NEW u \in Users
      PROVE  /\ account[u] \in Account
             /\ cache[t][u] \in Account \cup {Unloaded}
             /\ Get(t, us)[u] = IF u \in us /\ cache[t][u] = Unloaded
                                  THEN account[u] ELSE cache[t][u]
  BY DEF TypeOK, Get
<1>2. Get(t, us) \in Copies BY <1>1 DEF Get, Copies
<1> QED BY <1>1, <1>2

LEMMA FreshFacts == Fresh \in Copies
BY DEF Fresh, Copies

LEMMA NoLocksFacts == NoLocks \in [Users -> Generation]
BY WalletAssumption DEF NoLocks, Generation

\* An operation that returns keeps IInv.
LEMMA ReturnKeepsIInv ==
  ASSUME IInv, NEW t \in Tasks, NEW result \in {"ok", "error"},
         NEW cached \in Copies, Return(t, result, cached),
         UNCHANGED <<account, ledger, registry, dropped>>
  PROVE  IInv'
<1>a. /\ task[t] \in TaskState /\ task \in [Tasks -> TaskState]
      /\ NoLocks \in [Users -> Generation]
  BY NoLocksFacts DEF IInv, TypeOK, TaskState
<1> DEFINE new == [task[t] EXCEPT !.at = "idle", !.result = result,
                                  !.locks = NoLocks]
<1>b. new \in TaskState /\ new.at = "idle" BY <1>a DEF TaskState, Places
<1>c. task' = [task EXCEPT ![t] = new] BY <1>a DEF Return, TaskState
<1> HIDE DEF new
<1>1. /\ task' \in [Tasks -> TaskState] /\ task'[t].at = "idle"
      /\ \A s \in Tasks \ {t} : task'[s] = task[s]
  BY <1>a, <1>b, <1>c
<1>2. /\ cache' \in [Tasks -> Copies]
      /\ \A s \in Tasks \ {t} : cache'[s] = cache[s]
  BY FreshFacts DEF IInv, TypeOK, Return, Copies
<1>3. TaskOK(t)' BY <1>1 DEF TaskOK, Loaded
<1>4. account' \in [Users -> Account] /\ ledger' \in Seq(Row)
  BY DEF IInv, TypeOK
<1> QED BY <1>1, <1>2, <1>3, <1>4, OneTask

\* So does one that goes on to a place where it knows enough.
LEMMA GoKeepsIInv ==
  ASSUME IInv, NEW t \in Tasks, NEW place \in Places, Go(t, place),
         task[t].at # "idle",
         account' \in [Users -> Account], ledger' \in Seq(Row),
         cache' \in [Tasks -> Copies], UNCHANGED <<registry, dropped>>,
         \A s \in Tasks \ {t} : cache'[s] = cache[s],
         place \notin {"idle", "conflict"} =>
           \A u \in Ids(task[t].call) : cache'[t][u] \in Account,
         place \in {"referenced", "conflict"} => task[t].call.kind = "credit",
         place = "checked" /\ task[t].call.kind # "credit" =>
           task[t].call.amount <= cache'[t][task[t].call.user].balance
  PROVE  IInv'
<1>1. /\ task' \in [Tasks -> TaskState]
      /\ task'[t].at = place /\ task'[t].call = task[t].call
      /\ \A s \in Tasks \ {t} : task'[s] = task[s]
  BY DEF IInv, TypeOK, Go, TaskState
<1>2. task[t].call \in Calls[t] BY DEF IInv, TaskOK
<1>3. TaskOK(t)' BY <1>1, <1>2 DEF TaskOK, Loaded
<1> QED BY <1>1, <1>3, OneTask

\* The outcome of an idempotency query keeps IInv.
LEMMA DecideKeepsIInv ==
  ASSUME IInv, NEW t \in Tasks, task[t].at \in {"entered", "referenced"},
         task[t].call.kind = "credit",
         NEW rows, NEW next \in {"referenced", "checked"},
         Decide(t, rows, next), UNCHANGED <<account, ledger, registry, dropped>>
  PROVE  IInv'
<1>1. /\ account' \in [Users -> Account] /\ ledger' \in Seq(Row)
      /\ cache \in [Tasks -> Copies] /\ cache[t] \in Copies
  BY DEF IInv, TypeOK, Copies
<1>2. \A u \in Ids(task[t].call) : cache[t][u] \in Account
  BY DEF IInv, TaskOK, Loaded
<1>3. ASSUME NEW place \in {"referenced", "checked", "refresh"},
             Go(t, place), UNCHANGED cache
      PROVE  IInv'
  <2>1. place \in Places BY DEF Places
  <2>2. cache' = cache BY <1>3
  <2>3. task[t].at # "idle" OBVIOUS
  <2> QED BY <1>1, <1>2, <1>3, <2>1, <2>2, <2>3, GoKeepsIInv
<1>4. ASSUME Return(t, "error", cache[t]) PROVE IInv'
  BY <1>1, <1>4, ReturnKeepsIInv
<1> QED BY <1>3, <1>4 DEF Decide

\* What a commit writes, and what the session's objects are afterwards.
LEMMA CommitEffect ==
  ASSUME IInv, NEW t \in Tasks, Commit(t)
  PROVE  LET c == task[t].call IN
         /\ account' \in [Users -> Account]
         /\ \A u \in Ids(c) :
              /\ cache[t][u] \in Account
              /\ account'[u] = Updated(account[u], cache[t][u], c, u)
              /\ account'[u].balance = cache[t][u].balance + Delta(c, u)
              /\ cache'[t][u] = Updated(cache[t][u], cache[t][u], c, u)
              /\ cache'[t][u] \in Account
         /\ \A u \in Users \ Ids(c) : account'[u] = account[u]
         /\ ledger' = ledger \o NewRows(t)
         /\ ledger' \in Seq(Row)
         /\ cache' \in [Tasks -> Copies]
         /\ \A s \in Tasks \ {t} : cache'[s] = cache[s]
         /\ UNCHANGED <<registry, dropped>>
<1> DEFINE c == task[t].call
<1>1. /\ task[t].at = "checked" /\ ledger' = ledger \o NewRows(t)
      /\ account' = [u \in Users |->
           IF u \in Ids(c) THEN Updated(account[u], cache[t][u], c, u)
                           ELSE account[u]]
      /\ cache' = [cache EXCEPT ![t] = [u \in Users |->
           IF u \in Ids(c) THEN Updated(cache[t][u], cache[t][u], c, u)
                           ELSE cache[t][u]]]
  BY DEF Commit, At
<1>2. /\ c \in Calls[t] /\ \A u \in Ids(c) : cache[t][u] \in Account
      /\ c.kind # "credit" => c.amount <= cache[t][c.user].balance
  BY <1>1 DEF IInv, TaskOK, Loaded
<1>3. /\ account \in [Users -> Account] /\ cache \in [Tasks -> Copies]
      /\ ledger \in Seq(Row)
  BY DEF IInv, TypeOK, Copies
<1>4. ledger' \in Seq(Row)
  BY <1>1, <1>3, NewRowsFacts, ConcatProperties
<1> HIDE DEF c
<1>5. Ids(c) \subseteq Users BY <1>2, CallFacts DEF Ids
<1>6. ASSUME NEW u \in Ids(c)
      PROVE  /\ Updated(account[u], cache[t][u], c, u) \in Account
             /\ Updated(account[u], cache[t][u], c, u).balance
                  = cache[t][u].balance + Delta(c, u)
             /\ Updated(cache[t][u], cache[t][u], c, u) \in Account
  <2>1. account[u] \in Account /\ cache[t][u] \in Account
    BY <1>2, <1>3, <1>5
  <2>2. c.kind # "credit" /\ u = c.user => c.amount <= cache[t][u].balance
    BY <1>2
  <2> QED BY <1>2, <2>1, <2>2, UpdatedFacts
<1>7. account' \in [Users -> Account] BY <1>1, <1>3, <1>6
<1>8. cache' \in [Tasks -> Copies] /\ \A s \in Tasks \ {t} : cache'[s] = cache[s]
  BY <1>1, <1>3, <1>6 DEF Copies
<1>9. ASSUME NEW u \in Ids(c)
      PROVE  /\ account'[u] = Updated(account[u], cache[t][u], c, u)
             /\ cache'[t][u] = Updated(cache[t][u], cache[t][u], c, u)
  BY <1>1, <1>3, <1>5
<1>10. \A u \in Users \ Ids(c) : account'[u] = account[u] BY <1>1
<1>11. UNCHANGED <<registry, dropped>> BY DEF Commit
<1> QED BY <1>1, <1>2, <1>4, <1>6, <1>7, <1>8, <1>9, <1>10, <1>11 DEF c

\* A call that has its first lock waits for the second or loads its rows.
LEMMA ProceedKeepsIInv ==
  ASSUME IInv, NEW t \in Tasks, NEW c \in Calls[t],
         NEW locks \in [Users -> Generation], Proceed(t, c, locks),
         UNCHANGED <<account, ledger, registry, dropped>>
  PROVE  IInv'
<1>1. /\ account' \in [Users -> Account] /\ ledger' \in Seq(Row)
      /\ task \in [Tasks -> TaskState] /\ cache \in [Tasks -> Copies]
  BY DEF IInv, TypeOK, TaskState, Copies
<1>2. c \in CallSet /\ Ids(c) \in SUBSET Users BY CallFacts DEF Ids
<1>3. /\ Get(t, Ids(c)) \in Copies
      /\ \A u \in Ids(c) : Get(t, Ids(c))[u] \in Account
  BY <1>2, GetFacts DEF IInv
<1>4. ASSUME NEW place \in {"second", "entered"},
             task' = [task EXCEPT ![t] =
               [at |-> place, call |-> c, result |-> "none", locks |-> locks]]
      PROVE  /\ task' \in [Tasks -> TaskState]
             /\ \A s \in Tasks \ {t} : task'[s] = task[s]
             /\ task'[t].at = place /\ task'[t].call = c
  BY <1>1, <1>2, <1>4 DEF TaskState, Places
<1>5. CASE /\ task' = [task EXCEPT ![t] = [at |-> "second", call |-> c,
                                          result |-> "none", locks |-> locks]]
           /\ UNCHANGED cache
  <2>1. /\ task' \in [Tasks -> TaskState]
        /\ \A s \in Tasks \ {t} : task'[s] = task[s]
        /\ task'[t].at = "second" /\ task'[t].call = c
    BY <1>4, <1>5
  <2>2. TaskOK(t)' BY <2>1 DEF TaskOK, Loaded
  <2> QED BY <1>1, <1>5, <2>1, <2>2, OneTask
<1>6. CASE /\ task' = [task EXCEPT ![t] = [at |-> "entered", call |-> c,
                                          result |-> "none", locks |-> locks]]
           /\ cache' = [cache EXCEPT ![t] = Get(t, Ids(c))]
  <2>1. /\ task' \in [Tasks -> TaskState]
        /\ \A s \in Tasks \ {t} : task'[s] = task[s]
        /\ task'[t].at = "entered" /\ task'[t].call = c
    BY <1>4, <1>6
  <2>2. /\ cache' \in [Tasks -> Copies] /\ cache'[t] = Get(t, Ids(c))
        /\ \A s \in Tasks \ {t} : cache'[s] = cache[s]
    BY <1>1, <1>3, <1>6
  <2>3. TaskOK(t)' BY <1>3, <2>1, <2>2 DEF TaskOK, Loaded
  <2> QED BY <1>1, <2>1, <2>2, <2>3, OneTask
<1> QED BY <1>5, <1>6 DEF Proceed

\* The lock objects a call fetches.
Fetched(t, c) ==
  [u \in Users |-> IF u \in Ids(c) THEN registry[ProcOf[t]][u] ELSE 0]

LEMMA FetchedFacts ==
  ASSUME IInv, NEW t \in Tasks, NEW c
  PROVE  Fetched(t, c) \in [Users -> Generation]
<1>1. ProcOf[t] \in Procs BY DEF Procs
<1>2. registry[ProcOf[t]] \in [Users -> Generation] BY <1>1 DEF IInv, TypeOK
<1>3. 0 \in Generation BY WalletAssumption DEF Generation
<1> QED BY <1>2, <1>3 DEF Fetched

LEMMA StepKeepsIInv ==
  ASSUME IInv, NEW t \in Tasks, Step(t)
  PROVE  IInv'
<1>1. /\ account \in [Users -> Account] /\ ledger \in Seq(Row)
      /\ task \in [Tasks -> TaskState] /\ cache \in [Tasks -> Copies]
  BY DEF IInv, TypeOK, TaskState, Copies
<1>2. /\ task[t].at # "idle" => task[t].call \in Calls[t]
      /\ Loaded(t) => \A u \in Ids(task[t].call) : cache[t][u] \in Account
      /\ task[t].at \in {"referenced", "conflict"} =>
           task[t].call.kind = "credit"
      /\ task[t].at = "checked" /\ task[t].call.kind # "credit" =>
           task[t].call.amount <= cache[t][task[t].call.user].balance
  BY DEF IInv, TaskOK
<1>3. task[t].at # "idle" => Ids(task[t].call) \in SUBSET Users
  BY <1>2, CallFacts DEF Ids
<1>4. CASE Pin(t)
  <2>1. PICK u \in Users : cache' = [cache EXCEPT ![t] = Get(t, {u})]
    BY <1>4 DEF Pin
  <2>2. Get(t, {u}) \in Copies
    <3>1. {u} \in SUBSET Users OBVIOUS
    <3> QED BY <3>1, GetFacts DEF IInv
  <2>3. TaskOK(t)' BY <1>4 DEF Pin, At, TaskOK, Loaded
  <2> QED BY <1>1, <1>4, <2>1, <2>2, <2>3, OneTask DEF Pin
<1>5. CASE Close(t)
  <2>1. TaskOK(t)' BY <1>5 DEF Close, At, TaskOK, Loaded
  <2> QED BY <1>1, <1>5, <2>1, FreshFacts, OneTask DEF Close
<1>6. CASE Enter(t)
  <2>1. PICK c \in Calls[t] :
          \/ /\ task' = [task EXCEPT ![t] = [at |-> "waiting", call |-> c,
                              result |-> "none", locks |-> Fetched(t, c)]]
             /\ UNCHANGED cache
          \/ Proceed(t, c, Fetched(t, c))
    BY <1>6 DEF Enter, Fetched
  <2>2. c \in CallSet BY CallFacts
  <2>3. Fetched(t, c) \in [Users -> Generation] BY FetchedFacts
  <2>4. UNCHANGED <<account, ledger, registry, dropped>> BY <1>6 DEF Enter
  <2>5. ASSUME task' = [task EXCEPT ![t] = [at |-> "waiting", call |-> c,
                              result |-> "none", locks |-> Fetched(t, c)]],
               UNCHANGED cache
        PROVE  IInv'
    <3>1. /\ task' \in [Tasks -> TaskState]
          /\ \A s \in Tasks \ {t} : task'[s] = task[s]
          /\ task'[t].at = "waiting" /\ task'[t].call = c
      BY <1>1, <2>2, <2>3, <2>5 DEF TaskState, Places
    <3>2. TaskOK(t)' BY <3>1 DEF TaskOK, Loaded
    <3> QED BY <1>1, <2>4, <2>5, <3>1, <3>2, OneTask
  <2> QED BY <2>1, <2>3, <2>4, <2>5, ProceedKeepsIInv
<1>14. CASE Resume(t)
  <2>1. /\ Proceed(t, task[t].call, task[t].locks)
        /\ UNCHANGED <<account, ledger, registry, dropped>>
        /\ task[t].at \in {"waiting", "second"}
    BY <1>14 DEF Resume, At
  <2>2. task[t].call \in Calls[t] BY <1>2, <2>1
  <2>3. task[t].locks \in [Users -> Generation] BY <1>1 DEF TaskState
  <2> QED BY <2>1, <2>2, <2>3, ProceedKeepsIInv
<1>7. CASE CheckReference(t)
  BY <1>7, DecideKeepsIInv DEF CheckReference, At
<1>8. CASE CheckRelated(t)
  BY <1>2, <1>8, DecideKeepsIInv DEF CheckRelated, At
<1>9. CASE CheckFunds(t)
  <2>1. /\ task[t].at = "entered"
        /\ UNCHANGED <<account, ledger, registry, dropped>>
        /\ cache[t] \in Copies
    BY <1>1, <1>9 DEF CheckFunds, At
  <2>2. ASSUME Return(t, "error", cache[t]) PROVE IInv'
    BY <2>1, <2>2, ReturnKeepsIInv
  <2>3. ASSUME ~Insufficient(cache[t][task[t].call.user].balance,
                             task[t].call.amount),
               Go(t, "checked"), UNCHANGED cache
        PROVE  IInv'
    <3>1. task[t].call.amount <= cache[t][task[t].call.user].balance
      <4>1. task[t].call.amount \in Nat BY <1>2, <2>1, CallFacts
      <4>2. cache[t][task[t].call.user].balance \in Nat
        BY <1>2, <2>1 DEF Loaded, Ids, Account
      <4> QED BY <2>3, <4>1, <4>2 DEF Insufficient
    <3>2. \A u \in Ids(task[t].call) : cache'[t][u] \in Account
      BY <1>2, <2>1, <2>3 DEF Loaded
    <3>3. "checked" \in Places BY DEF Places
    <3> QED BY <1>1, <2>1, <2>3, <3>1, <3>2, <3>3, GoKeepsIInv
  <2> QED BY <1>9, <2>2, <2>3 DEF CheckFunds
<1>10. CASE Commit(t)
  <2>1. task[t].at = "checked" /\ Go(t, "refresh") BY <1>10 DEF Commit, At
  <2>2. "refresh" \in Places BY DEF Places
  <2>3. /\ account' \in [Users -> Account] /\ ledger' \in Seq(Row)
        /\ cache' \in [Tasks -> Copies]
        /\ \A s \in Tasks \ {t} : cache'[s] = cache[s]
        /\ \A u \in Ids(task[t].call) : cache'[t][u] \in Account
        /\ UNCHANGED <<registry, dropped>>
    BY <1>10, CommitEffect
  <2> QED BY <2>1, <2>2, <2>3, GoKeepsIInv
<1>11. CASE Conflict(t)
  <2>1. /\ task[t].at = "checked" /\ Go(t, "conflict")
        /\ cache' = [cache EXCEPT ![t] = Fresh]
        /\ UNCHANGED <<account, ledger, registry, dropped>>
        /\ Duplicate(task[t].call)
    BY <1>11 DEF Conflict, At
  <2>2. task[t].call.kind = "credit"
    <3>1. task[t].call.ref # NoRef BY <2>1 DEF Duplicate, SameRef
    <3> QED BY <1>2, <2>1, <3>1, CallFacts
  <2>3. /\ cache' \in [Tasks -> Copies] /\ "conflict" \in Places
        /\ \A s \in Tasks \ {t} : cache'[s] = cache[s]
    BY <1>1, <2>1, FreshFacts DEF Places
  <2> QED BY <1>1, <2>1, <2>2, <2>3, GoKeepsIInv
<1>12. CASE Recover(t)
  <2>1. /\ task[t].at = "conflict"
        /\ UNCHANGED <<account, ledger, registry, dropped>>
        /\ \/ Return(t, "ok", Get(t, Ids(task[t].call)))
           \/ Return(t, "error", cache[t])
    BY <1>12 DEF Recover, At
  <2>2. Get(t, Ids(task[t].call)) \in Copies /\ cache[t] \in Copies
    BY <1>1, <1>3, <2>1, GetFacts DEF IInv
  <2> QED BY <2>1, <2>2, ReturnKeepsIInv
<1>13. CASE Refresh(t)
  <2> DEFINE cached == [u \in Users |->
         IF u \in Ids(task[t].call) THEN account[u] ELSE cache[t][u]]
  <2>1. /\ Return(t, "ok", cached)
        /\ UNCHANGED <<account, ledger, registry, dropped>>
    BY <1>13 DEF Refresh
  <2>2. cached \in Copies BY <1>1 DEF Copies
  <2> HIDE DEF cached
  <2> QED BY <2>1, <2>2, ReturnKeepsIInv
<1> QED BY <1>4, <1>5, <1>6, <1>7, <1>8, <1>9, <1>10, <1>11, <1>12, <1>13,
           <1>14
        DEF Step

\* A crash forgets sessions and operations, never a row.
LEMMA CrashKeepsIInv ==
  ASSUME IInv, NEW p \in Procs, Crash(p)
  PROVE  IInv'
<1>1. NoTask \in TaskState BY NoLocksFacts DEF NoTask, TaskState, Places
<1>2. TypeOK'
  BY <1>1, FreshFacts, NoLocksFacts
  DEF IInv, TypeOK, Crash, TaskState, Copies
<1>3. ASSUME NEW t \in Tasks PROVE TaskOK(t)'
  <2>1. CASE ProcOf[t] = p
    BY <2>1 DEF Crash, NoTask, TaskOK, Loaded
  <2>2. CASE ProcOf[t] # p
    <3>1. task'[t] = task[t] /\ cache'[t] = cache[t] BY <2>2 DEF Crash
    <3> QED BY <3>1 DEF IInv, TaskOK, Loaded
  <2> QED BY <2>1, <2>2
<1> QED BY <1>2, <1>3 DEF IInv

\* The cleanup job touches the registry only.
LEMMA CleanUpKeepsIInv ==
  ASSUME IInv, NEW p \in Procs, CleanUp(p)
  PROVE  IInv'
<1>1. ASSUME NEW u \in Users
      PROVE  (IF u \in Dropped(p) THEN registry[p][u] + 1 ELSE registry[p][u])
               \in Generation
  <2>1. registry[p][u] \in Generation BY DEF IInv, TypeOK
  <2>2. u \in Dropped(p) => registry[p][u] < MaxDrops BY DEF CleanUp
  <2> QED BY <2>1, <2>2, WalletAssumption DEF Generation
<1>2. registry' \in [Procs -> [Users -> Generation]]
  BY <1>1 DEF CleanUp, IInv, TypeOK
<1>3. dropped' \subseteq Users BY DEF CleanUp, Dropped, IInv, TypeOK
<1>4. UNCHANGED <<account, ledger, cache, task>> BY DEF CleanUp
<1> QED BY <1>2, <1>3, <1>4 DEF IInv, TypeOK, TaskOK, Loaded

\* IInv is an inductive invariant of the specification.
THEOREM Inductive == Spec => []IInv
<1>1. Init => IInv
  <2> SUFFICES ASSUME Init PROVE IInv OBVIOUS
  <2>1. TypeOK
    BY FreshFacts, NoLocksFacts, EmptySeq
    DEF Init, TypeOK, Account, NoTask, Places, Copies
  <2>2. ASSUME NEW t \in Tasks PROVE TaskOK(t)
    BY DEF Init, NoTask, TaskOK, Loaded
  <2> QED BY <2>1, <2>2 DEF IInv
<1>2. IInv /\ [Next]_vars => IInv'
  <2> SUFFICES ASSUME IInv, [Next]_vars PROVE IInv' OBVIOUS
  <2>1. ASSUME NEW t \in Tasks, Step(t) PROVE IInv'
    BY <2>1, StepKeepsIInv
  <2>2. ASSUME NEW p \in Procs, CleanUp(p) \/ Crash(p) PROVE IInv'
    BY <2>2, CleanUpKeepsIInv, CrashKeepsIInv
  <2>3. CASE UNCHANGED vars
    BY <2>3 DEF vars, IInv, TypeOK, TaskOK, Loaded
  <2> QED BY <2>1, <2>2, <2>3 DEF Next
<1> QED BY <1>1, <1>2, PTL DEF Spec

\* The tables keep their types; no balance and no balance_after is ever
\* negative, whatever copies the tasks computed from (balance_service.py:177,
\* 231, "user.balance < amount").
THEOREM TypeCorrect == Spec => []TypeOK
<1>1. IInv => TypeOK BY DEF IInv
<1> QED BY <1>1, Inductive, PTL

-----------------------------------------------------------------------------
(* The newest row states the balance.                                      *)

\* The rows of the new ledger are the old ones and those of the operation.
LEMMA Appended ==
  ASSUME IInv, NEW t \in Tasks, Commit(t)
  PROVE  LET m == Len(ledger)
             n == Len(NewRows(t))
         IN /\ m \in Nat /\ n \in {1, 2} /\ Len(ledger') = m + n
            /\ \A i \in 1 .. m : ledger'[i] = ledger[i]
            /\ \A k \in 1 .. n : ledger'[m + k] = NewRows(t)[k]
            /\ \A i \in 1 .. (m + n) :
                 i \in 1 .. m \/ \E k \in 1 .. n : i = m + k
<1> DEFINE m == Len(ledger)
           n == Len(NewRows(t))
           rows == NewRows(t)
<1>1. /\ ledger \in Seq(Row) /\ rows \in Seq(Row) /\ n \in {1, 2}
      /\ m \in Nat
  BY NewRowsFacts, LenProperties DEF Commit, At, IInv, TypeOK
<1>2. ledger' = ledger \o rows BY DEF Commit
<1>3. /\ Len(ledger') = m + n
      /\ \A i \in 1 .. m + n :
           ledger'[i] = IF i <= m THEN ledger[i] ELSE rows[i - m]
  <2> HIDE DEF rows
  <2>1. /\ Len(ledger \o rows) = Len(ledger) + Len(rows)
        /\ \A i \in 1 .. Len(ledger) + Len(rows) : (ledger \o rows)[i] =
             IF i <= Len(ledger) THEN ledger[i] ELSE rows[i - Len(ledger)]
    BY <1>1, ConcatProperties
  <2> QED BY <1>2, <2>1 DEF rows
<1> HIDE DEF m, n, rows
<1>4. ASSUME NEW i \in 1 .. m PROVE ledger'[i] = ledger[i]
  BY <1>1, <1>3
<1>5. ASSUME NEW k \in 1 .. n PROVE ledger'[m + k] = rows[k]
  <2>1. m + k \in 1 .. (m + n) /\ ~(m + k <= m) /\ (m + k) - m = k
    BY <1>1
  <2> QED BY <1>3, <2>1
<1>6. ASSUME NEW i \in 1 .. (m + n), i \notin 1 .. m
      PROVE  \E k \in 1 .. n : i = m + k
  <2>1. i - m \in 1 .. n /\ i = m + (i - m) BY <1>1, <1>6
  <2> QED BY <2>1
<1> QED BY <1>1, <1>3, <1>4, <1>5, <1>6 DEF m, n, rows

LEMMA CommitKeepsLastRow ==
  ASSUME IInv, LastRowIsBalance, NEW t \in Tasks, Commit(t)
  PROVE  LastRowIsBalance'
<1> DEFINE c == task[t].call
           m == Len(ledger)
           n == Len(NewRows(t))
           rows == NewRows(t)
<1>1. /\ m \in Nat /\ n \in {1, 2} /\ Len(ledger') = m + n
      /\ \A i \in 1 .. m : ledger'[i] = ledger[i]
      /\ \A k \in 1 .. n : ledger'[m + k] = rows[k]
      /\ \A i \in 1 .. (m + n) : i \in 1 .. m \/ \E k \in 1 .. n : i = m + k
  BY Appended
<1>2. /\ \A k \in 1 .. n :
           /\ rows[k].user \in Ids(c)
           /\ rows[k].after =
                cache[t][rows[k].user].balance + Delta(c, rows[k].user)
      /\ \A u \in Ids(c) : \E k \in 1 .. n : rows[k].user = u
  BY NewRowsFacts DEF Commit, At
<1>3. /\ \A u \in Ids(c) :
           account'[u].balance = cache[t][u].balance + Delta(c, u)
      /\ \A u \in Users \ Ids(c) : account'[u] = account[u]
  BY CommitEffect
<1> HIDE DEF c, m, n, rows
<1>4. ASSUME NEW u \in Users, NEW i \in 1 .. (m + n), ledger'[i].user = u,
             \A j \in 1 .. (m + n) : ledger'[j].user = u => j <= i
      PROVE  ledger'[i].after = account'[u].balance
  <2>1. CASE u \in Ids(c)
    <3>1. PICK k \in 1 .. n : rows[k].user = u BY <1>2, <2>1
    <3>2. m + k <= i BY <1>1, <1>4, <3>1
    <3>3. i \notin 1 .. m BY <1>1, <3>2
    <3>4. PICK l \in 1 .. n : i = m + l BY <1>1, <3>3
    <3> QED BY <1>1, <1>2, <1>3, <1>4, <2>1, <3>4
  <2>2. CASE u \notin Ids(c)
    <3>1. ASSUME NEW k \in 1 .. n PROVE i # m + k
      BY <1>1, <1>2, <1>4, <2>2
    <3>2. i \in 1 .. m /\ ledger[i].user = u BY <1>1, <1>4, <3>1
    <3>3. ASSUME NEW j \in 1 .. m, ledger[j].user = u PROVE j <= i
      BY <1>1, <1>4, <3>3
    <3>4. Latest(u, m, i) BY <3>2, <3>3 DEF Latest, RowsOf
    <3>5. ledger[i].after = account[u].balance
      BY <3>2, <3>4 DEF LastRowIsBalance, m
    <3> QED BY <1>1, <1>3, <2>2, <3>2, <3>5
  <2> QED BY <2>1, <2>2
<1>5. ASSUME NEW u \in Users,
             \A i \in 1 .. (m + n) : ledger'[i].user # u
      PROVE  account'[u].balance = 0
  <2>1. u \notin Ids(c)
    <3> SUFFICES ASSUME u \in Ids(c) PROVE FALSE OBVIOUS
    <3>1. PICK k \in 1 .. n : rows[k].user = u BY <1>2
    <3> QED BY <1>1, <1>5, <3>1
  <2>2. RowsOf(u, m) = {} BY <1>1, <1>5 DEF RowsOf
  <2> QED BY <1>3, <2>1, <2>2 DEF LastRowIsBalance, m
<1> QED BY <1>1, <1>4, <1>5 DEF LastRowIsBalance, Latest, RowsOf

\* A step that writes neither table.
LEMMA OtherStepsKeepTables ==
  ASSUME [Next]_vars, ~\E t \in Tasks : Commit(t)
  PROVE  account' = account /\ ledger' = ledger
BY DEF Next, Step, Pin, Close, Enter, Resume, CheckReference, CheckRelated,
       CheckFunds, Conflict, Recover, Refresh, CleanUp, Crash, vars

\* The newest row of a user states the balance of the user's row, also when
\* stale copies overwrite balances and when processes crash: both rows are
\* written by one commit (balance_service.py:126-135, 191-200, 239-265).
THEOREM LastRow == Spec => []LastRowIsBalance
<1>1. Init => LastRowIsBalance
  BY DEF Init, LastRowIsBalance, RowsOf, Latest
<1>2. IInv /\ LastRowIsBalance /\ [Next]_vars => LastRowIsBalance'
  <2> SUFFICES ASSUME IInv, LastRowIsBalance, [Next]_vars
               PROVE  LastRowIsBalance'
    OBVIOUS
  <2>1. CASE \E t \in Tasks : Commit(t)
    BY <2>1, CommitKeepsLastRow
  <2>2. CASE ~\E t \in Tasks : Commit(t)
    BY <2>2, OtherStepsKeepTables DEF LastRowIsBalance, RowsOf, Latest
  <2> QED BY <2>1, <2>2
<1> QED BY <1>1, <1>2, Inductive, PTL DEF Spec

-----------------------------------------------------------------------------
(* The locks: users whose lock was never forgotten under a call.           *)

\* All references to the lock of such a user are to one object per process,
Generations ==
  \A u \in Users \ dropped :
    /\ \A p \in Procs : registry[p][u] = 0
    /\ \A t \in Tasks : task[t].locks[u] = 0

\* so that the operations of one process on the user exclude each other.
Apart ==
  \A u \in Users \ dropped : \A s, t \in Tasks :
    s # t /\ ProcOf[s] = ProcOf[t] => ~(u \in Holding(s) /\ u \in Holding(t))

Exclusion == Generations /\ Apart

LEMMA LockFacts ==
  ASSUME NEW t \in Tasks, NEW c \in Calls[t]
  PROVE  /\ Ids(c) = {First(c), Second(c)} /\ Ids(c) \subseteq Users
         /\ First(c) \in Users /\ Second(c) \in Users
  BY CallFacts DEF Ids, First, Second

\* A step of t that adds to what it holds only locks nobody else holds.
LEMMA HeldKept ==
  ASSUME Exclusion, NEW t \in Tasks, UNCHANGED <<registry, dropped>>,
         \A s \in Tasks \ {t} : task'[s] = task[s],
         \A u \in Users \ dropped : task'[t].locks[u] = 0,
         \A u \in Users \ dropped : u \in Holding(t)' =>
           \/ u \in Holding(t)
           \/ \A s \in Tasks \ {t} : ProcOf[s] = ProcOf[t] => u \notin Holding(s)
  PROVE  Exclusion'
<1>1. Generations' BY DEF Exclusion, Generations
<1>2. ASSUME NEW s \in Tasks \ {t} PROVE Holding(s)' = Holding(s)
  BY DEF Holding, At
<1>3. ASSUME NEW u \in Users \ dropped, NEW s \in Tasks \ {t},
             ProcOf[s] = ProcOf[t], u \in Holding(s)', u \in Holding(t)'
      PROVE  FALSE
  BY <1>2, <1>3 DEF Exclusion, Apart
<1>4. ASSUME NEW u \in Users \ dropped, NEW r \in Tasks, NEW s \in Tasks,
             r # s, ProcOf[r] = ProcOf[s],
             u \in Holding(r)', u \in Holding(s)'
      PROVE  FALSE
  <2>1. CASE r = t BY <1>3, <1>4, <2>1
  <2>2. CASE s = t BY <1>3, <1>4, <2>2
  <2>3. CASE r # t /\ s # t
    BY <1>2, <1>4, <2>3 DEF Exclusion, Apart
  <2> QED BY <2>1, <2>2, <2>3
<1>5. Apart' BY <1>4 DEF Apart
<1> QED BY <1>1, <1>5 DEF Exclusion

\* A lock that is not taken is held by nobody else.
LEMMA FreeLock ==
  ASSUME Exclusion, NEW t \in Tasks, NEW u \in Users \ dropped,
         ~Taken(t, u, 0), NEW s \in Tasks \ {t}, ProcOf[s] = ProcOf[t]
  PROVE  u \notin Holding(s)
BY DEF Taken, Exclusion, Generations

LEMMA ProceedKeepsExclusion ==
  ASSUME IInv, Exclusion, NEW t \in Tasks, NEW c \in Calls[t],
         NEW locks \in [Users -> Generation],
         \A u \in Users \ dropped : locks[u] = 0,
         \/ ~Taken(t, First(c), locks[First(c)])
         \/ At(t, "second") /\ task[t].call = c,
         Proceed(t, c, locks), UNCHANGED <<registry, dropped>>
  PROVE  Exclusion'
<1>1. PICK place \in {"second", "entered"} :
        /\ task' = [task EXCEPT ![t] = [at |-> place, call |-> c,
                                        result |-> "none", locks |-> locks]]
        /\ place = "entered" => ~Taken(t, Second(c), locks[Second(c)])
  BY DEF Proceed
<1>2. /\ task'[t].at = place /\ task'[t].call = c /\ task'[t].locks = locks
      /\ \A s \in Tasks \ {t} : task'[s] = task[s]
  BY <1>1 DEF IInv, TypeOK
<1>3. Holding(t)' = IF place = "second" THEN {First(c)} ELSE Ids(c)
  BY <1>2 DEF Holding, At
<1>4. ASSUME NEW u \in Users \ dropped, u \in Holding(t)'
      PROVE  \/ u \in Holding(t)
             \/ \A s \in Tasks \ {t} :
                  ProcOf[s] = ProcOf[t] => u \notin Holding(s)
  <2>1. locks[u] = 0 OBVIOUS
  <2>2. CASE u = First(c)
    <3>1. At(t, "second") /\ task[t].call = c => u \in Holding(t)
      BY <2>2 DEF Holding, At
    <3>2. ~Taken(t, First(c), locks[First(c)]) => ~Taken(t, u, 0)
      BY <2>1, <2>2
    <3> QED BY <3>1, <3>2, FreeLock
  <2>3. CASE u # First(c)
    <3>1. place = "entered" /\ u = Second(c)
      BY <1>3, <1>4, <2>3, LockFacts
    <3>2. ~Taken(t, u, 0) BY <1>1, <2>1, <3>1
    <3> QED BY <3>2, FreeLock
  <2> QED BY <2>2, <2>3
<1> QED BY <1>2, <1>4, HeldKept

\* A step that is not the beginning of an operation and takes no lock.
LEMMA CallStays ==
  ASSUME IInv, NEW t \in Tasks, Step(t), ~Enter(t), ~Resume(t)
  PROVE  /\ UNCHANGED <<registry, dropped>>
         /\ \A s \in Tasks \ {t} : task'[s] = task[s]
         /\ task'[t].call = task[t].call
         /\ task'[t].locks \in {task[t].locks, NoLocks}
         /\ \/ task'[t].at = "idle"
            \/ task'[t] = task[t]
            \/ /\ task'[t].at \notin {"idle", "waiting", "second"}
               /\ task[t].at \notin {"idle", "waiting", "second"}
  BY DEF Step, Pin, Close, CheckReference, CheckRelated, CheckFunds, Commit,
    Conflict, Recover, Refresh, Decide, Return, Go, At, IInv, TypeOK

LEMMA StepKeepsExclusion ==
  ASSUME IInv, Exclusion, NEW t \in Tasks, Step(t)
  PROVE  Exclusion'
<1>1. CASE Enter(t)
  <2>1. PICK c \in Calls[t] :
          \/ task' = [task EXCEPT ![t] = [at |-> "waiting", call |-> c,
                            result |-> "none", locks |-> Fetched(t, c)]]
          \/ /\ ~Taken(t, First(c), Fetched(t, c)[First(c)])
             /\ Proceed(t, c, Fetched(t, c))
    BY <1>1 DEF Enter, Fetched
  <2>2. /\ Fetched(t, c) \in [Users -> Generation]
        /\ \A u \in Users \ dropped : Fetched(t, c)[u] = 0
    <3>1. ProcOf[t] \in Procs BY DEF Procs
    <3> QED BY <3>1, FetchedFacts DEF Fetched, Exclusion, Generations
  <2>3. UNCHANGED <<registry, dropped>> BY <1>1 DEF Enter
  <2>4. ASSUME task' = [task EXCEPT ![t] = [at |-> "waiting", call |-> c,
                            result |-> "none", locks |-> Fetched(t, c)]]
        PROVE  Exclusion'
    <3>1. /\ task'[t].at = "waiting" /\ task'[t].locks = Fetched(t, c)
          /\ \A s \in Tasks \ {t} : task'[s] = task[s]
      BY <2>4 DEF IInv, TypeOK
    <3>2. Holding(t)' = {} BY <3>1 DEF Holding, At
    <3> QED BY <2>2, <2>3, <3>1, <3>2, HeldKept
  <2> QED BY <2>1, <2>2, <2>3, <2>4, ProceedKeepsExclusion
<1>2. CASE Resume(t)
  <2>1. /\ Proceed(t, task[t].call, task[t].locks)
        /\ UNCHANGED <<registry, dropped>>
        /\ task[t].at \in {"waiting", "second"}
        /\ \/ ~Taken(t, First(task[t].call), task[t].locks[First(task[t].call)])
           \/ At(t, "second")
    BY <1>2 DEF Resume, At
  <2>2. /\ task[t].call \in Calls[t]
        /\ task[t].locks \in [Users -> Generation]
    BY <2>1 DEF IInv, TypeOK, TaskOK
  <2>3. \A u \in Users \ dropped : task[t].locks[u] = 0
    BY DEF Exclusion, Generations
  <2> QED BY <2>1, <2>2, <2>3, ProceedKeepsExclusion
<1>3. CASE ~Enter(t) /\ ~Resume(t)
  <2>1. /\ UNCHANGED <<registry, dropped>>
        /\ \A s \in Tasks \ {t} : task'[s] = task[s]
        /\ task'[t].call = task[t].call
        /\ task'[t].locks \in {task[t].locks, NoLocks}
        /\ \/ task'[t].at = "idle"
           \/ task'[t] = task[t]
           \/ /\ task'[t].at \notin {"idle", "waiting", "second"}
              /\ task[t].at \notin {"idle", "waiting", "second"}
    BY <1>3, CallStays
  <2>2. \A u \in Users \ dropped : task'[t].locks[u] = 0
    BY <2>1 DEF Exclusion, Generations, NoLocks
  <2>3. Holding(t)' = {} \/ Holding(t)' = Holding(t)
    BY <2>1 DEF Holding, At
  <2> QED BY <2>1, <2>2, <2>3, HeldKept
<1> QED BY <1>1, <1>2, <1>3

LEMMA ExclusionInvariant == Spec => []Exclusion
<1>1. Init => Exclusion
  <2> SUFFICES ASSUME Init PROVE Exclusion OBVIOUS
  <2>1. \A t \in Tasks : Holding(t) = {} BY DEF Init, NoTask, Holding, At
  <2> QED BY <2>1 DEF Init, NoTask, NoLocks, Exclusion, Generations, Apart
<1>2. IInv /\ Exclusion /\ [Next]_vars => Exclusion'
  <2> SUFFICES ASSUME IInv, Exclusion, [Next]_vars PROVE Exclusion' OBVIOUS
  <2>1. ASSUME NEW t \in Tasks, Step(t) PROVE Exclusion'
    BY <2>1, StepKeepsExclusion
  <2>2. ASSUME NEW p \in Procs, CleanUp(p) PROVE Exclusion'
    <3>1. /\ task' = task /\ dropped' = dropped \cup Dropped(p)
          /\ registry' = [registry EXCEPT ![p] = [u \in Users |->
               IF u \in Dropped(p) THEN registry[p][u] + 1 ELSE registry[p][u]]]
      BY <2>2 DEF CleanUp
    <3>2. Generations'
      BY <3>1 DEF Exclusion, Generations, IInv, TypeOK
    <3>3. \A s \in Tasks : Holding(s)' = Holding(s) BY <3>1 DEF Holding, At
    <3>4. Apart' BY <3>1, <3>3 DEF Exclusion, Apart
    <3> QED BY <3>2, <3>4 DEF Exclusion
  <2>3. ASSUME NEW p \in Procs, Crash(p) PROVE Exclusion'
    <3>1. /\ \A s \in Tasks : task'[s] = NoTask \/ task'[s] = task[s]
          /\ dropped' = dropped /\ registry' = [registry EXCEPT ![p] = NoLocks]
      BY <2>3 DEF Crash
    <3>2. Generations'
      BY <3>1 DEF Exclusion, Generations, NoTask, NoLocks, IInv, TypeOK
    <3>3. \A s \in Tasks : Holding(s)' = {} \/ Holding(s)' = Holding(s)
      BY <3>1 DEF Holding, At, NoTask
    <3>4. Apart' BY <3>1, <3>3 DEF Exclusion, Apart
    <3> QED BY <3>2, <3>4 DEF Exclusion
  <2>4. CASE UNCHANGED vars
    BY <2>4 DEF vars, Exclusion, Generations, Apart, Holding, At
  <2> QED BY <2>1, <2>2, <2>3, <2>4 DEF Next
<1> QED BY <1>1, <1>2, Inductive, PTL DEF Spec

-----------------------------------------------------------------------------
(* The jobs: tasks that hold no user between operations.                   *)

\* A job knows nothing of a user before it has the lock, and the row as it is
\* afterwards.
JobsFresh ==
  \A t \in Tasks \ Pinning :
    /\ ~Loaded(t) => cache[t] = Fresh
    /\ Loaded(t) => \A u \in Ids(task[t].call) \ dropped :
         Local(t, u) => cache[t][u] = account[u]

LEMMA LoadedHolds ==
  ASSUME NEW t \in Tasks, Loaded(t)
  PROVE  Holding(t) = Ids(task[t].call)
BY DEF Loaded, Holding, At

\* A step of t leaves what the other jobs know true.
LEMMA OtherJobs ==
  ASSUME IInv, Exclusion, JobsFresh, NEW t \in Tasks, Step(t),
         NEW s \in Tasks \ Pinning, s # t
  PROVE  /\ ~Loaded(s)' => cache'[s] = Fresh
         /\ Loaded(s)' => \A u \in Ids(task'[s].call) \ dropped' :
              Local(s, u) => cache'[s][u] = account'[u]
<1>1. /\ task'[s] = task[s] /\ cache'[s] = cache[s] /\ dropped' = dropped
  BY DEF Step, Pin, Close, Enter, Resume, Proceed, CheckReference,
    CheckRelated, CheckFunds, Commit, Conflict, Recover, Refresh, Decide,
    Return, Go, IInv, TypeOK
<1>2. ASSUME NEW u \in Ids(task[s].call) \ dropped, Loaded(s), Local(s, u)
      PROVE  account'[u] = account[u]
  <2>1. task[s].call \in Calls[s] /\ u \in Users
    BY <1>2, CallFacts DEF Loaded, IInv, TaskOK, Ids
  <2>2. CASE Commit(t)
    <3>1. /\ Loaded(t) /\ task[t].call \in Calls[t]
      BY <2>2 DEF Commit, At, Loaded, IInv, TaskOK
    <3>2. u \notin Ids(task[t].call)
      <4>1. ASSUME u \in Ids(task[t].call) PROVE ProcOf[t] = ProcOf[s]
        BY <1>2, <3>1, <4>1 DEF Local
      <4> QED BY <1>2, <2>1, <3>1, <4>1, LoadedHolds DEF Exclusion, Apart
    <3> QED BY <2>1, <2>2, <3>2, CommitEffect
  <2>3. CASE ~Commit(t)
    BY <2>3 DEF Step, Pin, Close, Enter, Resume, CheckReference,
      CheckRelated, CheckFunds, Conflict, Recover, Refresh
  <2> QED BY <2>2, <2>3
<1>3. Loaded(s)' <=> Loaded(s) BY <1>1 DEF Loaded
<1> QED BY <1>1, <1>2, <1>3 DEF JobsFresh

\* So does its own step, what it knows itself.
LEMMA OwnJob ==
  ASSUME IInv, JobsFresh, NEW t \in Tasks \ Pinning, Step(t)
  PROVE  /\ ~Loaded(t)' => cache'[t] = Fresh
         /\ Loaded(t)' => \A u \in Ids(task'[t].call) \ dropped' :
              Local(t, u) => cache'[t][u] = account'[u]
<1> DEFINE Goal == /\ ~Loaded(t)' => cache'[t] = Fresh
                   /\ Loaded(t)' => \A u \in Ids(task'[t].call) \ dropped' :
                        Local(t, u) => cache'[t][u] = account'[u]
<1>1. ASSUME NEW result, NEW cached, Return(t, result, cached) PROVE Goal
  <2>1. task'[t].at = "idle" /\ cache'[t] = Fresh
    BY <1>1 DEF Return, IInv, TypeOK
  <2> QED BY <2>1 DEF Loaded
<1>2. ASSUME NEW place, Go(t, place), UNCHANGED <<cache, account, dropped>>,
             Loaded(t), place \notin {"idle", "waiting", "second", "conflict"}
      PROVE  Goal
  <2>1. task'[t].at = place /\ task'[t].call = task[t].call
    BY <1>2 DEF Go, IInv, TypeOK
  <2>2. Loaded(t)' BY <1>2, <2>1 DEF Loaded
  <2> QED BY <1>2, <2>1, <2>2 DEF JobsFresh
<1>3. ASSUME NEW rows, NEW next \in {"referenced", "checked"},
             Decide(t, rows, next), Loaded(t), UNCHANGED <<account, dropped>>
      PROVE  Goal
  <2>1. ASSUME NEW place \in {next, "refresh"}, Go(t, place), UNCHANGED cache
        PROVE  Goal
    BY <1>2, <1>3, <2>1
  <2> QED BY <1>1, <1>3, <2>1 DEF Decide
<1>4. ASSUME NEW c \in Calls[t], NEW locks, Proceed(t, c, locks), ~Loaded(t),
             UNCHANGED <<account, dropped>>
      PROVE  Goal
  <2>1. cache[t] = Fresh /\ Ids(c) \subseteq Users
    BY <1>4, CallFacts DEF JobsFresh, Ids
  <2>2. CASE /\ task' = [task EXCEPT ![t] = [at |-> "second", call |-> c,
                                      result |-> "none", locks |-> locks]]
             /\ UNCHANGED cache
    <3>1. task'[t].at = "second" BY <2>2 DEF IInv, TypeOK
    <3> QED BY <2>1, <2>2, <3>1 DEF Loaded
  <2>3. CASE /\ task' = [task EXCEPT ![t] = [at |-> "entered", call |-> c,
                                      result |-> "none", locks |-> locks]]
             /\ cache' = [cache EXCEPT ![t] = Get(t, Ids(c))]
    <3>1. /\ task'[t].at = "entered" /\ task'[t].call = c
          /\ cache'[t] = Get(t, Ids(c))
      BY <2>3 DEF IInv, TypeOK
    <3>2. \A u \in Ids(c) : Get(t, Ids(c))[u] = account[u]
      BY <2>1 DEF Get, Fresh
    <3> QED BY <1>4, <3>1, <3>2 DEF Loaded
  <2> QED BY <1>4, <2>2, <2>3 DEF Proceed
<1>5. CASE Pin(t) BY <1>5 DEF Pin
<1>6. CASE Close(t)
  <2>1. ~Loaded(t)' /\ cache'[t] = Fresh
    BY <1>6 DEF Close, At, Loaded, IInv, TypeOK
  <2> QED BY <2>1
<1>7. CASE Enter(t)
  <2>1. PICK c \in Calls[t] :
          \/ /\ task' = [task EXCEPT ![t] = [at |-> "waiting", call |-> c,
                            result |-> "none", locks |-> Fetched(t, c)]]
             /\ UNCHANGED cache
          \/ Proceed(t, c, Fetched(t, c))
    BY <1>7 DEF Enter, Fetched
  <2>2. ~Loaded(t) /\ UNCHANGED <<account, dropped>>
    BY <1>7 DEF Enter, At, Loaded
  <2>3. ASSUME task' = [task EXCEPT ![t] = [at |-> "waiting", call |-> c,
                            result |-> "none", locks |-> Fetched(t, c)]],
               UNCHANGED cache
        PROVE  Goal
    <3>1. task'[t].at = "waiting" BY <2>3 DEF IInv, TypeOK
    <3> QED BY <2>2, <2>3, <3>1 DEF Loaded, JobsFresh
  <2> QED BY <1>4, <2>1, <2>2, <2>3
<1>8. CASE Resume(t)
  <2>1. /\ Proceed(t, task[t].call, task[t].locks) /\ ~Loaded(t)
        /\ UNCHANGED <<account, dropped>> /\ task[t].at # "idle"
    BY <1>8 DEF Resume, At, Loaded
  <2>2. task[t].call \in Calls[t] BY <2>1 DEF IInv, TaskOK
  <2> QED BY <1>4, <2>1, <2>2
<1>9. CASE CheckReference(t)
  BY <1>3, <1>9 DEF CheckReference, At, Loaded
<1>10. CASE CheckRelated(t)
  BY <1>3, <1>10 DEF CheckRelated, At, Loaded
<1>11. CASE CheckFunds(t)
  BY <1>1, <1>2, <1>11 DEF CheckFunds, At, Loaded
<1>12. CASE Commit(t)
  <2>1. /\ task[t].at = "checked" /\ Go(t, "refresh") /\ Loaded(t)
    BY <1>12 DEF Commit, At, Loaded
  <2>2. task'[t].at = "refresh" /\ task'[t].call = task[t].call
    BY <2>1 DEF Go, IInv, TypeOK
  <2>3. /\ \A u \in Ids(task[t].call) :
             /\ account'[u] = Updated(account[u], cache[t][u], task[t].call, u)
             /\ cache'[t][u] =
                  Updated(cache[t][u], cache[t][u], task[t].call, u)
        /\ dropped' = dropped
    BY <1>12, CommitEffect
  <2>4. \A u \in Ids(task[t].call) \ dropped :
          Local(t, u) => cache[t][u] = account[u]
    BY <2>1 DEF JobsFresh
  <2> QED BY <2>2, <2>3, <2>4 DEF Loaded
<1>13. CASE Conflict(t)
  <2>1. task'[t].at = "conflict" /\ cache'[t] = Fresh
    BY <1>13 DEF Conflict, Go, IInv, TypeOK
  <2> QED BY <2>1 DEF Loaded
<1>14. CASE Recover(t) BY <1>1, <1>14 DEF Recover
<1>15. CASE Refresh(t) BY <1>1, <1>15 DEF Refresh
<1> QED BY <1>5, <1>6, <1>7, <1>8, <1>9, <1>10, <1>11, <1>12, <1>13, <1>14,
           <1>15
        DEF Step

LEMMA JobsFreshInvariant == Spec => []JobsFresh
<1>1. Init => JobsFresh
  BY DEF Init, NoTask, JobsFresh, Loaded
<1>2. IInv /\ Exclusion /\ JobsFresh /\ [Next]_vars => JobsFresh'
  <2> SUFFICES ASSUME IInv, Exclusion, JobsFresh, [Next]_vars
               PROVE  JobsFresh'
    OBVIOUS
  <2>1. ASSUME NEW t \in Tasks, Step(t) PROVE JobsFresh'
    <3>1. ASSUME NEW s \in Tasks \ Pinning
          PROVE  /\ ~Loaded(s)' => cache'[s] = Fresh
                 /\ Loaded(s)' => \A u \in Ids(task'[s].call) \ dropped' :
                      Local(s, u) => cache'[s][u] = account'[u]
      BY <2>1, OwnJob, OtherJobs
    <3> QED BY <3>1 DEF JobsFresh, Local
  <2>2. ASSUME NEW p \in Procs, CleanUp(p) PROVE JobsFresh'
    <3>1. UNCHANGED <<account, cache, task>> /\ dropped \subseteq dropped'
      BY <2>2 DEF CleanUp
    <3> QED BY <3>1 DEF JobsFresh, Loaded, Local
  <2>3. ASSUME NEW p \in Procs, Crash(p) PROVE JobsFresh'
    <3>1. /\ account' = account /\ dropped' = dropped
          /\ \A s \in Tasks : \/ task'[s] = NoTask /\ cache'[s] = Fresh
                              \/ task'[s] = task[s] /\ cache'[s] = cache[s]
      BY <2>3 DEF Crash
    <3> QED BY <3>1 DEF JobsFresh, Loaded, Local, NoTask
  <2>4. CASE UNCHANGED vars
    BY <2>4 DEF vars, JobsFresh, Loaded, Local
  <2> QED BY <2>1, <2>2, <2>3, <2>4 DEF Next
<1> QED BY <1>1, <1>2, Inductive, ExclusionInvariant, PTL DEF Spec

\* A movement of a job changes the committed balance by its amount, whatever
\* stale copies the updates of the process compute from: unless the user's
\* lock was forgotten under a call or another process has calls of the user
\* (balance_service.py:75-78, 117-131; invoice_monitor.py:113, order_monitor.py
\* :222).
THEOREM JobsMoveByTheirAmount == Spec => JobsAddUp
<1> DEFINE Adds ==
      \A t \in Tasks \ Pinning, u \in Users \ dropped :
        Commit(t) /\ u \in Ids(task[t].call) /\ Local(t, u)
        => account'[u].balance = account[u].balance + Delta(task[t].call, u)
<1>1. IInv /\ JobsFresh /\ [Next]_vars => [Adds]_vars
  <2> SUFFICES ASSUME IInv, JobsFresh, NEW t \in Tasks \ Pinning,
                      NEW u \in Users \ dropped, Commit(t),
                      u \in Ids(task[t].call), Local(t, u)
               PROVE  account'[u].balance =
                        account[u].balance + Delta(task[t].call, u)
    OBVIOUS
  <2>1. Loaded(t) BY DEF Commit, At, Loaded
  <2>2. cache[t][u] = account[u] BY <2>1 DEF JobsFresh
  <2>3. account'[u].balance = cache[t][u].balance + Delta(task[t].call, u)
    BY CommitEffect
  <2> QED BY <2>2, <2>3
<1> QED BY <1>1, Inductive, JobsFreshInvariant, PTL DEF Spec, JobsAddUp

-----------------------------------------------------------------------------
(* The operations are those of the Bank.                                   *)

Balances == [u \in Users |-> account[u].balance]

\* Every row and every copy of it has a balance that the ledger states.
Backed ==
  \A u \in Users :
    /\ account[u].balance \in B!Known(u)
    /\ \A t \in Tasks :
         cache[t][u] # Unloaded => cache[t][u].balance \in B!Known(u)

\* A balance stays known.
LEMMA KnownGrows ==
  ASSUME Len(ledger) \in Nat, Len(ledger') \in Nat,
         Len(ledger) <= Len(ledger'),
         \A i \in 1 .. Len(ledger) : ledger'[i] = ledger[i],
         NEW u, NEW b \in B!Known(u)
  PROVE  b \in B!Known(u)'
<1>1. ASSUME NEW i \in 1 .. Len(ledger)
      PROVE  i \in 1 .. Len(ledger') /\ ledger'[i] = ledger[i]
  OBVIOUS
<1> QED BY <1>1 DEF B!Known

LEMMA CommitKeepsBacked ==
  ASSUME IInv, Backed, NEW t \in Tasks, Commit(t)
  PROVE  Backed'
<1> DEFINE c == task[t].call
           m == Len(ledger)
           n == Len(NewRows(t))
           rows == NewRows(t)
<1>1. /\ m \in Nat /\ n \in {1, 2} /\ Len(ledger') = m + n
      /\ \A i \in 1 .. m : ledger'[i] = ledger[i]
      /\ \A k \in 1 .. n : ledger'[m + k] = rows[k]
  BY Appended
<1>2. /\ \A k \in 1 .. n : rows[k].after =
           cache[t][rows[k].user].balance + Delta(c, rows[k].user)
      /\ \A u \in Ids(c) : \E k \in 1 .. n : rows[k].user = u
  BY NewRowsFacts DEF Commit, At
<1>3. /\ \A u \in Ids(c) :
           /\ account'[u].balance = cache[t][u].balance + Delta(c, u)
           /\ cache[t][u] \in Account
           /\ cache'[t][u] = Updated(cache[t][u], cache[t][u], c, u)
      /\ \A u \in Users \ Ids(c) : account'[u] = account[u]
      /\ \A s \in Tasks \ {t} : cache'[s] = cache[s]
  BY CommitEffect
<1>4. \A u \in Users \ Ids(c) : cache'[t][u] = cache[t][u]
  BY DEF Commit, IInv, TypeOK
<1>5. \A u \in Users : \A b \in B!Known(u) : b \in B!Known(u)'
  <2> SUFFICES ASSUME NEW u \in Users, NEW b \in B!Known(u)
               PROVE  b \in B!Known(u)'
    OBVIOUS
  <2>1. Len(ledger) <= Len(ledger') /\ Len(ledger') \in Nat BY <1>1
  <2> QED BY <1>1, <2>1, KnownGrows
<1>6. ASSUME NEW u \in Ids(c)
      PROVE  cache[t][u].balance + Delta(c, u) \in B!Known(u)'
  <2>1. PICK k \in 1 .. n : rows[k].user = u BY <1>2
  <2>2. /\ m + k \in 1 .. Len(ledger') /\ ledger'[m + k].user = u
        /\ ledger'[m + k].after = cache[t][u].balance + Delta(c, u)
    BY <1>1, <1>2, <2>1
  <2> QED BY <2>2 DEF B!Known
<1>7. ASSUME NEW u \in Ids(c)
      PROVE  cache'[t][u].balance = cache[t][u].balance + Delta(c, u)
  <2>1. c \in Calls[t] /\ (c.kind # "credit" =>
          c.amount <= cache[t][c.user].balance)
    BY DEF Commit, At, IInv, TaskOK
  <2>2. cache[t][u] \in Account BY <1>3
  <2> HIDE DEF c
  <2>3. c.kind # "credit" /\ u = c.user => c.amount <= cache[t][u].balance
    BY <2>1
  <2>4. Updated(cache[t][u], cache[t][u], c, u).balance
          = cache[t][u].balance + Delta(c, u)
    BY <2>1, <2>2, <2>3, UpdatedFacts
  <2> QED BY <1>3, <2>4
<1> HIDE DEF c, m, n, rows
<1>8. ASSUME NEW u \in Users PROVE account'[u].balance \in B!Known(u)'
  BY <1>3, <1>5, <1>6 DEF Backed
<1>9. ASSUME NEW u \in Users, NEW s \in Tasks, cache'[s][u] # Unloaded
      PROVE  cache'[s][u].balance \in B!Known(u)'
  <2>1. CASE s = t /\ u \in Ids(c) BY <1>6, <1>7, <2>1
  <2>2. CASE ~(s = t /\ u \in Ids(c))
    <3>1. cache'[s][u] = cache[s][u] BY <1>3, <1>4, <2>2
    <3>2. cache[s][u].balance \in B!Known(u) BY <1>9, <3>1 DEF Backed
    <3> QED BY <1>5, <3>1, <3>2
  <2> QED BY <2>1, <2>2
<1> QED BY <1>8, <1>9 DEF Backed

\* A session's object is, at every step but a commit, what it was, forgotten,
\* or the row as it is.
LEMMA CopiesComeFromRows ==
  ASSUME IInv, NEW t \in Tasks, Step(t), ~Commit(t),
         NEW s \in Tasks, NEW u \in Users
  PROVE  cache'[s][u] \in {cache[s][u], Unloaded, account[u]}
<1>1. CASE s # t
  BY <1>1 DEF Step, Pin, Close, Enter, Resume, Proceed, CheckReference,
    CheckRelated, CheckFunds, Conflict, Recover, Refresh, Decide, Return, Go,
    IInv, TypeOK
<1>2. ASSUME NEW us PROVE Get(t, us)[u] \in {cache[t][u], account[u]}
  BY DEF Get
<1>3. Fresh[u] = Unloaded BY DEF Fresh
<1>4. ASSUME NEW result, NEW cached, Return(t, result, cached),
             cached[u] \in {cache[t][u], account[u]}
      PROVE  cache'[t][u] \in {cache[t][u], Unloaded, account[u]}
  BY <1>3, <1>4 DEF Return, IInv, TypeOK
<1>5. ASSUME NEW c, NEW locks, Proceed(t, c, locks)
      PROVE  cache'[t][u] \in {cache[t][u], account[u]}
  BY <1>2, <1>5 DEF Proceed, IInv, TypeOK
<1>6. CASE s = t
  <2>1. CASE Pin(t) BY <1>2, <1>6, <2>1 DEF Pin, IInv, TypeOK
  <2>2. CASE Close(t) \/ Conflict(t)
    BY <1>3, <1>6, <2>2 DEF Close, Conflict, IInv, TypeOK
  <2>3. CASE Enter(t) \/ Resume(t)
    BY <1>5, <1>6, <2>3 DEF Enter, Resume
  <2>4. CASE CheckReference(t) \/ CheckRelated(t) \/ CheckFunds(t)
    BY <1>4, <1>6, <2>4 DEF CheckReference, CheckRelated, CheckFunds, Decide
  <2>5. CASE Recover(t)
    BY <1>2, <1>4, <1>6, <2>5 DEF Recover
  <2>6. CASE Refresh(t)
    BY <1>4, <1>6, <2>6 DEF Refresh
  <2> QED BY <2>1, <2>2, <2>3, <2>4, <2>5, <2>6 DEF Step
<1> QED BY <1>1, <1>6

LEMMA BackedInvariant == Spec => []Backed
<1>1. Init => Backed
  BY DEF Init, Backed, Fresh, B!Known
<1>2. IInv /\ Backed /\ [Next]_vars => Backed'
  <2> SUFFICES ASSUME IInv, Backed, [Next]_vars PROVE Backed' OBVIOUS
  <2>1. CASE \E t \in Tasks : Commit(t) BY <2>1, CommitKeepsBacked
  <2>2. CASE ~\E t \in Tasks : Commit(t)
    <3>1. account' = account /\ ledger' = ledger
      BY <2>2, OtherStepsKeepTables
    <3>2. \A u \in Users : B!Known(u)' = B!Known(u) BY <3>1 DEF B!Known
    <3>3. ASSUME NEW s \in Tasks, NEW u \in Users
          PROVE  cache'[s][u] \in {cache[s][u], Unloaded, account[u]}
      <4>1. ASSUME NEW t \in Tasks, Step(t)
            PROVE  cache'[s][u] \in {cache[s][u], Unloaded, account[u]}
        BY <2>2, <4>1, CopiesComeFromRows
      <4>2. CASE \E p \in Procs : CleanUp(p) BY <4>2 DEF CleanUp
      <4>3. CASE \E p \in Procs : Crash(p) BY <4>3 DEF Crash, Fresh
      <4>4. CASE UNCHANGED vars BY <4>4 DEF vars
      <4> QED BY <4>1, <4>2, <4>3, <4>4 DEF Next
    <3> QED BY <3>1, <3>2, <3>3 DEF Backed
  <2> QED BY <2>1, <2>2
<1> QED BY <1>1, <1>2, Inductive, PTL DEF Spec

\* A commit is a deposit, a withdrawal or a move.
LEMMA CommitIsBankStep ==
  ASSUME IInv, Backed, NEW t \in Tasks, Commit(t),
         NEW c \in Calls[t], task[t].call = c
  PROVE  B!Next
<1>1. /\ task[t].at = "checked" /\ ~Duplicate(c)
      /\ ledger' = ledger \o NewRows(t)
  BY DEF Commit, At
<1>2. /\ Loaded(t)
      /\ c.kind # "credit" => c.amount <= cache[t][c.user].balance
  BY <1>1 DEF IInv, TaskOK, Loaded
<1>3. /\ c.kind \in Kinds /\ c.user \in Users /\ c.to \in Users
      /\ c.amount \in Nat /\ c.amount > 0 /\ c.amount \in Amounts
      /\ c.ref \in Refs \cup {NoRef} /\ c.rel \in Rels \cup {NoRel}
      /\ c.kind = "transfer" <=> c.user # c.to
      /\ c.kind # "credit" => c.ref = NoRef /\ c.rel = NoRel
  BY CallFacts DEF CallSet
<1>4. \A u \in Ids(c) : /\ cache[t][u].balance \in Nat
                        /\ cache[t][u].balance \in B!Known(u)
  <2>1. ASSUME NEW u \in Ids(c) PROVE cache[t][u] \in Account /\ u \in Users
    BY <1>2, <1>3 DEF Ids, IInv, TaskOK
  <2>2. \A u \in Ids(c) : cache[t][u] # Unloaded BY <2>1, WalletAssumption
  <2> QED BY <2>1, <2>2 DEF Backed, Account
\* The balances the movement starts from.
<1>5. PICK x \in B!Known(c.user), y \in B!Known(c.to) :
        /\ x = cache[t][c.user].balance /\ y = cache[t][c.to].balance
        /\ x \in Nat /\ y \in Nat
  BY <1>4 DEF Ids
<1>6. /\ account'[c.user].balance = x + Delta(c, c.user)
      /\ account'[c.to].balance = y + Delta(c, c.to)
      /\ \A u \in Users \ {c.user, c.to} : account'[u] = account[u]
  BY <1>5, CommitEffect DEF Ids
<1>7. NewRows(t) \in Seq(Row) /\ ledger \in Seq(Row)
  BY <1>1, NewRowsFacts DEF IInv, TypeOK
<1>8. ASSUME NEW kind
      PROVE  /\ NewRow(t, kind, c.user)
                  = B!Entry(kind, c.user, x, Delta(c, c.user), c.ref, c.rel)
             /\ NewRow(t, kind, c.to)
                  = B!Entry(kind, c.to, y, Delta(c, c.to), c.ref, c.rel)
  BY <1>5 DEF NewRow, B!Entry
<1>9. ledger' # ledger
  <2> DEFINE m == Len(ledger)
             n == Len(NewRows(t))
             k == Len(ledger')
  <2>1. m \in Nat /\ n \in {1, 2} /\ k = m + n BY Appended
  <2>2. k # m
    <3> HIDE DEF m, n, k
    <3> QED BY <2>1
  <2> QED BY <2>2, Zenon
<1>10. CASE c.kind = "credit"
  <2>1. c.to = c.user /\ Delta(c, c.user) = c.amount
    BY <1>3, <1>10 DEF Delta
  <2>2. Balances' = [Balances EXCEPT ![c.user] = x + c.amount]
    BY <1>3, <1>6, <2>1 DEF Balances
  <2>3. NewRows(t) = <<NewRow(t, "credit", c.user)>>
    BY <1>10 DEF NewRows
  <2>4. ledger' = Append(ledger,
                         B!Entry("credit", c.user, x, c.amount, c.ref, c.rel))
    <3>1. NewRow(t, "credit", c.user) \in Row BY <1>7, <2>3
    <3>2. ledger' = Append(ledger, NewRow(t, "credit", c.user))
      BY <1>1, <1>7, <2>3, <3>1, AppendIsConcat
    <3> QED BY <1>8, <2>1, <3>2
  <2>5. ~B!Posted(c.ref)
    BY <1>1 DEF B!Posted, Duplicate, SameRef
  <2>6. B!Deposit(c.user, c.amount, c.ref, c.rel)
    BY <2>2, <2>4, <2>5 DEF B!Deposit, Balances
  <2> QED BY <1>3, <1>9, <2>6 DEF B!Next
<1>11. CASE c.kind \in {"debit", "purchase"}
  <2>1. c.to = c.user /\ Delta(c, c.user) = -c.amount
    BY <1>3, <1>11 DEF Delta
  <2>2. Balances' = [Balances EXCEPT ![c.user] = x - c.amount]
    BY <1>3, <1>5, <1>6, <2>1 DEF Balances
  <2>3. NewRows(t) = <<NewRow(t, c.kind, c.user)>>
    BY <1>11 DEF NewRows
  <2>4. c.ref = NoRef /\ c.rel = NoRel BY <1>3, <1>11
  <2>5. ledger' = Append(ledger,
                         B!Entry(c.kind, c.user, x, -c.amount, NoRef, NoRel))
    <3>1. NewRow(t, c.kind, c.user) \in Row BY <1>7, <2>3
    <3>2. ledger' = Append(ledger, NewRow(t, c.kind, c.user))
      BY <1>1, <1>7, <2>3, <3>1, AppendIsConcat
    <3> QED BY <1>8, <2>1, <2>4, <3>2
  <2>6. x >= c.amount BY <1>2, <1>3, <1>5, <1>11
  <2>7. B!Withdraw(c.user, c.amount, c.kind)
    BY <2>2, <2>5, <2>6 DEF B!Withdraw, Balances
  <2> QED BY <1>3, <1>9, <1>11, <2>7 DEF B!Next
<1>12. CASE c.kind = "transfer"
  <2>1. /\ c.user # c.to
        /\ Delta(c, c.user) = -c.amount /\ Delta(c, c.to) = c.amount
    BY <1>3, <1>12 DEF Delta
  <2>2. Balances' = [Balances EXCEPT ![c.user] = x - c.amount,
                                     ![c.to] = y + c.amount]
    BY <1>3, <1>5, <1>6, <2>1 DEF Balances
  <2>3. NewRows(t) = <<NewRow(t, "out", c.user), NewRow(t, "in", c.to)>>
    BY <1>12 DEF NewRows
  <2>4. x >= c.amount BY <1>2, <1>3, <1>5, <1>12
  <2>5. c.ref = NoRef /\ c.rel = NoRel BY <1>3, <1>12
  <2>6. ledger' = ledger \o
          <<B!Entry("out", c.user, x, -c.amount, NoRef, NoRel),
            B!Entry("in", c.to, y, c.amount, NoRef, NoRel)>>
    BY <1>1, <1>8, <2>1, <2>3, <2>5
  <2>7. B!Move(c.user, c.to, c.amount)
    BY <2>1, <2>2, <2>4, <2>6 DEF B!Move, Balances
  <2> QED BY <1>3, <1>9, <2>7 DEF B!Next
<1> QED BY <1>3, <1>10, <1>11, <1>12 DEF Kinds

\* The operations implement the Bank, with stale copies, forgotten locks, any
\* number of processes and crashes: each takes effect at its commit, on both
\* accounts of a transfer at once, and starts from a balance that the account
\* really had (balance_service.py:117-157, 183-202, 232-272).
THEOREM BankRefinement == Spec => ImplementsBank
<1>1. Init => B!Init
  BY DEF Init, B!Init
<1>2. IInv /\ Backed /\ [Next]_vars => [B!Next]_(B!vars)
  <2> SUFFICES ASSUME IInv, Backed, [Next]_vars PROVE [B!Next]_(B!vars)
    OBVIOUS
  <2>1. CASE \E t \in Tasks : Commit(t)
    <3>1. PICK t \in Tasks : Commit(t) BY <2>1
    <3>2. task[t].call \in Calls[t] BY <3>1 DEF Commit, At, IInv, TaskOK
    <3>3. PICK c \in Calls[t] : task[t].call = c BY <3>2
    <3> QED BY <3>1, <3>3, CommitIsBankStep
  <2>2. CASE ~\E t \in Tasks : Commit(t)
    BY <2>2, OtherStepsKeepTables DEF B!vars
  <2> QED BY <2>1, <2>2
<1> QED BY <1>1, <1>2, BackedInvariant, Inductive, PTL
        DEF Spec, ImplementsBank, B!Spec

-----------------------------------------------------------------------------
(* Payments: any number of processes, tasks that keep user objects, and    *)
(* crashes included.                                                       *)

\* The callers' part of the bargain: calls that name the same internal record
\* of a user carry the same payment reference.
OneReferencePerRecord ==
  \A s, t \in Tasks : \A d \in Calls[s], c \in Calls[t] :
    /\ c.kind = "credit" /\ d.kind = "credit"
    /\ c.user = d.user /\ c.rel = d.rel /\ c.rel # NoRel
    => c.ref = d.ref

\* No payment reference is in the ledger twice.
RefsUnique ==
  \A i, j \in 1 .. Len(ledger) :
    ledger[i].ref # NoRef /\ ledger[i].ref = ledger[j].ref => i = j

\* Rows that credit a user were written for some call.
FromCalls ==
  \A i \in 1 .. Len(ledger) :
    ledger[i].kind = "credit" =>
      \E s \in Tasks : \E d \in Calls[s] :
        /\ d.kind = "credit" /\ d.user = ledger[i].user
        /\ d.ref = ledger[i].ref /\ d.rel = ledger[i].rel

\* A call that goes on to its end has its payment in the ledger.
Recorded(c) ==
  \E i \in 1 .. Len(ledger) : Matches(c, i) /\ ledger[i].ref = c.ref
Known(t) ==
  LET c == task[t].call IN
    /\ \/ task[t].at = "refresh"
       \/ task[t].at = "idle" /\ task[t].result = "ok"
    /\ c.kind = "credit" /\ c.ref # NoRef
    => Recorded(c)

Payments == RefsUnique /\ FromCalls /\ \A t \in Tasks : Known(t)

\* The origin of the rows an operation adds.
LEMMA NewRowsOrigin ==
  ASSUME IInv, NEW t \in Tasks, task[t].at = "checked"
  PROVE  LET c == task[t].call IN
         /\ \A k \in 1 .. Len(NewRows(t)) :
              /\ NewRows(t)[k].ref = c.ref /\ NewRows(t)[k].rel = c.rel
              /\ NewRows(t)[k].kind = "credit" => c.kind = "credit"
         /\ c.ref # NoRef => Len(NewRows(t)) = 1
         /\ c.kind = "credit" => Len(NewRows(t)) = 1
<1> DEFINE c == task[t].call
<1>1. c \in Calls[t] BY DEF IInv, TaskOK
<1>2. /\ c.kind \in Kinds
      /\ c.kind # "credit" => c.ref = NoRef /\ c.rel = NoRel
  BY <1>1, CallFacts
<1>3. CASE c.kind = "transfer"
  BY <1>2, <1>3 DEF NewRows, NewRow
<1>4. CASE c.kind # "transfer"
  BY <1>2, <1>4 DEF NewRows, NewRow
<1> QED BY <1>3, <1>4

\* A longer ledger still has what was recorded.
LEMMA KnownKept ==
  ASSUME NEW s, Known(s), task'[s] = task[s],
         Len(ledger) \in Nat, Len(ledger') \in Nat,
         Len(ledger) <= Len(ledger'),
         \A i \in 1 .. Len(ledger) : ledger'[i] = ledger[i]
  PROVE  Known(s)'
<1>1. ASSUME NEW i \in 1 .. Len(ledger)
      PROVE  i \in 1 .. Len(ledger') /\ ledger'[i] = ledger[i]
  OBVIOUS
<1> QED BY <1>1 DEF Known, Recorded, Matches

\* A call on its way to its locks writes nothing.
LEMMA OnTheWay ==
  ASSUME IInv, NEW t \in Tasks, Enter(t) \/ Resume(t)
  PROVE  /\ ledger' = ledger
         /\ task'[t].at \in {"waiting", "second", "entered"}
         /\ \A s \in Tasks \ {t} : task'[s] = task[s]
<1>1. ledger' = ledger
  BY DEF Enter, Resume
<1>2. ASSUME NEW place \in {"waiting", "second", "entered"}, NEW d, NEW locks,
             task' = [task EXCEPT ![t] = [at |-> place, call |-> d,
                                    result |-> "none", locks |-> locks]]
      PROVE  /\ task'[t].at \in {"waiting", "second", "entered"}
             /\ \A s \in Tasks \ {t} : task'[s] = task[s]
  BY <1>2 DEF IInv, TypeOK
<1>3. ASSUME NEW d, NEW locks, Proceed(t, d, locks)
      PROVE  /\ task'[t].at \in {"waiting", "second", "entered"}
             /\ \A s \in Tasks \ {t} : task'[s] = task[s]
  BY <1>2, <1>3 DEF Proceed
<1>4. CASE Enter(t)
  BY <1>2, <1>3, <1>4 DEF Enter
<1>5. CASE Resume(t)
  BY <1>3, <1>5 DEF Resume
<1> QED BY <1>1, <1>4, <1>5

LEMMA CommitKeepsPayments ==
  ASSUME IInv, Payments, NEW t \in Tasks, Commit(t)
  PROVE  Payments'
<1> DEFINE c == task[t].call
           m == Len(ledger)
           n == Len(NewRows(t))
           rows == NewRows(t)
           new == ledger'
<1>1. /\ m \in Nat /\ n \in {1, 2} /\ Len(new) = m + n
      /\ \A i \in 1 .. m : new[i] = ledger[i]
      /\ \A k \in 1 .. n : new[m + k] = rows[k]
      /\ \A i \in 1 .. (m + n) : i \in 1 .. m \/ \E k \in 1 .. n : i = m + k
  BY Appended
<1>2. /\ \A k \in 1 .. n :
           /\ rows[k].user \in Ids(c)
           /\ rows[k].amount = Delta(c, rows[k].user)
           /\ rows[k].ref = c.ref /\ rows[k].rel = c.rel
           /\ rows[k].kind = "credit" => c.kind = "credit"
      /\ c.ref # NoRef => n = 1
  BY NewRowsFacts, NewRowsOrigin DEF Commit, At
<1>3. /\ c \in Calls[t]
      /\ c.kind = "credit" => Ids(c) = {c.user}
      /\ c.kind = "credit" => \A u \in Ids(c) : Delta(c, u) = c.amount
  <2>1. c \in Calls[t] BY DEF Commit, At, IInv, TaskOK
  <2>2. c.kind = "transfer" <=> c.user # c.to BY <2>1, CallFacts
  <2> QED BY <2>1, <2>2 DEF Ids, Delta
<1>4. c.ref # NoRef => \A i \in 1 .. m : ledger[i].ref # c.ref
  BY DEF Commit, Duplicate, SameRef
<1>5. /\ task'[t].at = "refresh" /\ task'[t].call = c
      /\ \A s \in Tasks \ {t} : task'[s] = task[s]
  BY DEF Commit, Go, IInv, TypeOK
<1>6. \A s \in Tasks \ {t} : Known(s)'
  BY <1>1, <1>5, KnownKept DEF Payments
<1>7. ASSUME c.kind = "credit", c.ref # NoRef
      PROVE  \E i \in 1 .. Len(new) : /\ new[i].user = c.user
                                      /\ new[i].amount = c.amount
                                      /\ new[i].ref = c.ref
  <2>1. n = 1 /\ m + 1 \in 1 .. Len(new) /\ new[m + 1] = rows[1]
    BY <1>1, <1>2, <1>7
  <2>2. rows[1].user = c.user /\ rows[1].amount = c.amount
        /\ rows[1].ref = c.ref
    BY <1>2, <1>3, <1>7, <2>1
  <2> QED BY <2>1, <2>2
<1>8. Known(t)' BY <1>5, <1>7 DEF Known, Recorded, Matches
<1> HIDE DEF c, m, n, rows, new
<1>9. \A i, j \in 1 .. Len(new) :
        new[i].ref # NoRef /\ new[i].ref = new[j].ref => i = j
  <2> SUFFICES ASSUME NEW i \in 1 .. (m + n), NEW j \in 1 .. (m + n),
                      new[i].ref # NoRef, new[i].ref = new[j].ref
               PROVE  i = j
    BY <1>1
  <2>1. CASE i \in 1 .. m /\ j \in 1 .. m
    BY <1>1, <2>1 DEF Payments, RefsUnique, m
  <2>2. ASSUME NEW x \in 1 .. m, NEW y \in 1 .. (m + n), y \notin 1 .. m,
               new[y].ref # NoRef, new[x].ref = new[y].ref
        PROVE  FALSE
    <3>1. PICK k \in 1 .. n : y = m + k BY <1>1, <2>2
    <3> QED BY <1>1, <1>2, <1>4, <2>2, <3>1
  <2>3. CASE i \notin 1 .. m /\ j \notin 1 .. m
    <3>1. PICK k \in 1 .. n : i = m + k BY <1>1, <2>3
    <3>2. PICK l \in 1 .. n : j = m + l BY <1>1, <2>3
    <3>3. n = 1 BY <1>1, <1>2, <3>1
    <3> QED BY <3>1, <3>2, <3>3
  <2>4. CASE i \in 1 .. m /\ j \notin 1 .. m BY <2>2, <2>4
  <2>5. CASE i \notin 1 .. m /\ j \in 1 .. m BY <2>2, <2>5
  <2> QED BY <2>1, <2>3, <2>4, <2>5
<1>10. ASSUME NEW i \in 1 .. Len(new), new[i].kind = "credit"
       PROVE  \E s \in Tasks : \E d \in Calls[s] :
                /\ d.kind = "credit" /\ d.user = new[i].user
                /\ d.ref = new[i].ref /\ d.rel = new[i].rel
  <2>1. CASE i \in 1 .. m
    BY <1>1, <1>10, <2>1 DEF Payments, FromCalls, m
  <2>2. CASE i \notin 1 .. m
    <3>1. PICK k \in 1 .. n : i = m + k BY <1>1, <1>10, <2>2
    <3>2. new[i] = rows[k] BY <1>1, <3>1
    <3> QED BY <1>2, <1>3, <1>10, <3>2
  <2> QED BY <2>1, <2>2
<1>11. RefsUnique' /\ FromCalls' BY <1>9, <1>10 DEF RefsUnique, FromCalls, new
<1> QED BY <1>6, <1>8, <1>11 DEF Payments

\* The steps that leave the ledger alone.
LEMMA StepKeepsPayments ==
  ASSUME OneReferencePerRecord, IInv, Payments, NEW t \in Tasks, Step(t)
  PROVE  Payments'
<1> DEFINE c == task[t].call
<1>1. CASE Commit(t) BY <1>1, CommitKeepsPayments
<1>2. ASSUME ledger' = ledger, Known(t)',
             \A s \in Tasks \ {t} : task'[s] = task[s]
      PROVE  Payments'
  <2>1. \A s \in Tasks \ {t} : Known(s)'
    BY <1>2 DEF Payments, Known, Recorded, Matches
  <2>2. RefsUnique' /\ FromCalls'
    BY <1>2 DEF Payments, RefsUnique, FromCalls
  <2> QED BY <1>2, <2>1, <2>2 DEF Payments
<1>3. ASSUME NEW cached, Return(t, "error", cached), ledger' = ledger
      PROVE  Payments'
  <2>1. task'[t].result = "error" /\ task'[t].at = "idle"
        /\ \A s \in Tasks \ {t} : task'[s] = task[s]
    BY <1>3 DEF Return, IInv, TypeOK
  <2>2. Known(t)' BY <2>1 DEF Known
  <2> QED BY <1>2, <1>3, <2>1, <2>2
<1>4. ASSUME NEW cached, Return(t, "ok", cached), ledger' = ledger,
             c.kind = "credit" /\ c.ref # NoRef => Recorded(c)
      PROVE  Payments'
  <2>1. task'[t].call = c /\ \A s \in Tasks \ {t} : task'[s] = task[s]
    BY <1>4 DEF Return, IInv, TypeOK
  <2>2. Known(t)' BY <1>4, <2>1 DEF Known, Recorded, Matches
  <2> QED BY <1>2, <1>4, <2>1, <2>2
<1>5. ASSUME NEW place \in {"referenced", "checked", "conflict"},
             Go(t, place), ledger' = ledger
      PROVE  Payments'
  <2>1. task'[t].at = place /\ \A s \in Tasks \ {t} : task'[s] = task[s]
    BY <1>5 DEF Go, IInv, TypeOK
  <2>2. Known(t)' BY <2>1 DEF Known
  <2> QED BY <1>2, <1>5, <2>1, <2>2
<1>6. ASSUME Go(t, "refresh"), ledger' = ledger,
             c.kind = "credit" /\ c.ref # NoRef => Recorded(c)
      PROVE  Payments'
  <2>1. task'[t].call = c /\ \A s \in Tasks \ {t} : task'[s] = task[s]
    BY <1>6 DEF Go, IInv, TypeOK
  <2>2. Known(t)' BY <1>6, <2>1 DEF Known, Recorded, Matches
  <2> QED BY <1>2, <1>6, <2>1, <2>2
<1>7. CASE Pin(t) \/ Close(t)
  <2>1. task' = task /\ ledger' = ledger BY <1>7 DEF Pin, Close
  <2>2. Known(t)' BY <2>1 DEF Payments, Known, Recorded, Matches
  <2> QED BY <1>2, <2>1, <2>2
<1>8. CASE Enter(t) \/ Resume(t)
  <2>1. /\ ledger' = ledger
        /\ task'[t].at \in {"waiting", "second", "entered"}
        /\ \A s \in Tasks \ {t} : task'[s] = task[s]
    BY <1>8, OnTheWay
  <2>2. Known(t)' BY <2>1 DEF Known
  <2> QED BY <1>2, <2>1, <2>2
<1>9. CASE CheckReference(t)
  <2>1. Decide(t, SameRef(c), "referenced") /\ ledger' = ledger
    BY <1>9 DEF CheckReference
  <2>2. ASSUME NEW i \in SameRef(c), Matches(c, i) PROVE Recorded(c)
    BY <2>2 DEF SameRef, Recorded
  <2> QED BY <1>3, <1>5, <1>6, <2>1, <2>2 DEF Decide
<1>10. CASE CheckRelated(t)
  <2>1. /\ Decide(t, SameRel(c), "checked") /\ ledger' = ledger
        /\ c \in Calls[t] /\ c.kind = "credit"
    BY <1>10 DEF CheckRelated, At, IInv, TaskOK
  <2>2. ASSUME NEW i \in SameRel(c), Matches(c, i) PROVE Recorded(c)
    <3>1. /\ i \in 1 .. Len(ledger) /\ ledger[i].kind = "credit"
          /\ ledger[i].user = c.user /\ ledger[i].rel = c.rel
          /\ c.rel # NoRel
      BY DEF SameRel
    <3>2. PICK s \in Tasks : \E d \in Calls[s] :
            /\ d.kind = "credit" /\ d.user = ledger[i].user
            /\ d.ref = ledger[i].ref /\ d.rel = ledger[i].rel
      BY <3>1 DEF Payments, FromCalls
    <3>3. PICK d \in Calls[s] :
            /\ d.kind = "credit" /\ d.user = ledger[i].user
            /\ d.ref = ledger[i].ref /\ d.rel = ledger[i].rel
      BY <3>2
    <3>4. c.ref = ledger[i].ref
      BY <2>1, <3>1, <3>3 DEF OneReferencePerRecord
    <3> QED BY <2>2, <3>1, <3>4 DEF Recorded
  <2> QED BY <1>3, <1>5, <1>6, <2>1, <2>2 DEF Decide
<1>11. CASE CheckFunds(t)
  BY <1>3, <1>5, <1>11 DEF CheckFunds
<1>12. CASE Conflict(t)
  BY <1>5, <1>12 DEF Conflict
<1>13. CASE Recover(t)
  <2>1. ASSUME NEW i \in SameRef(c), Matches(c, i) PROVE Recorded(c)
    BY <2>1 DEF SameRef, Recorded
  <2> QED BY <1>3, <1>4, <1>13, <2>1 DEF Recover
<1>14. CASE Refresh(t)
  <2>1. task[t].at = "refresh" /\ Known(t)
    BY <1>14 DEF Refresh, At, Payments
  <2>2. c.kind = "credit" /\ c.ref # NoRef => Recorded(c)
    BY <2>1 DEF Known
  <2> QED BY <1>4, <1>14, <2>2 DEF Refresh
<1> QED BY <1>1, <1>7, <1>8, <1>9, <1>10, <1>11, <1>12, <1>13, <1>14 DEF Step

\* A call that succeeded has been credited, once: for any number of processes
\* and crashes, if the callers keep their part of the bargain
\* (balance_service.py:82-122, 129-154).
THEOREM CreditedOnce ==
  ASSUME OneReferencePerRecord
  PROVE  Spec => []PaymentCreditedOnce
<1>1. Init => Payments
  BY DEF Init, Payments, RefsUnique, FromCalls, Known, NoTask
<1>2. IInv /\ Payments /\ [Next]_vars => Payments'
  <2> SUFFICES ASSUME IInv, Payments, [Next]_vars PROVE Payments' OBVIOUS
  <2>1. ASSUME NEW t \in Tasks, Step(t) PROVE Payments'
    BY <2>1, StepKeepsPayments
  <2>2. ASSUME NEW p, Crash(p) PROVE Payments'
    <3>1. /\ ledger' = ledger
          /\ \A s \in Tasks : task'[s] = NoTask \/ task'[s] = task[s]
      BY <2>2 DEF Crash
    <3>2. ASSUME NEW s \in Tasks PROVE Known(s)'
      BY <3>1 DEF Payments, Known, Recorded, Matches, NoTask
    <3> QED BY <3>1, <3>2 DEF Payments, RefsUnique, FromCalls
  <2>3. CASE UNCHANGED vars \/ \E p \in Procs : CleanUp(p)
    <3>1. ledger' = ledger /\ task' = task BY <2>3 DEF vars, CleanUp
    <3> QED BY <3>1
            DEF Payments, RefsUnique, FromCalls, Known, Recorded, Matches
  <2> QED BY <2>1, <2>2, <2>3 DEF Next
<1>3. Payments => PaymentCreditedOnce
  <2> SUFFICES ASSUME Payments, NEW t \in Tasks,
                      task[t].at = "idle", task[t].result = "ok",
                      task[t].call.kind = "credit",
                      task[t].call.ref # NoRef
               PROVE  \E i \in 1 .. Len(ledger) :
                        /\ Matches(task[t].call, i)
                        /\ SameRef(task[t].call) = {i}
    BY DEF PaymentCreditedOnce, At
  <2>1. PICK i \in 1 .. Len(ledger) :
          Matches(task[t].call, i) /\ ledger[i].ref = task[t].call.ref
    BY DEF Payments, Known, Recorded
  <2>2. SameRef(task[t].call) = {i}
    BY <2>1 DEF Payments, RefsUnique, SameRef
  <2> QED BY <2>1, <2>2
<1> QED BY <1>1, <1>2, <1>3, Inductive, PTL DEF Spec

-----------------------------------------------------------------------------
(* Internal records: what the unique constraint does not keep apart, the   *)
(* locks of one process do, unless one was forgotten under a call.         *)

\* The callers' part: credits of a user for one internal record carry one
\* payment reference or, if none, are made by one process; and a reference
\* stands for one record.
OneCreditorPerRecord ==
  \A s, t \in Tasks : \A d \in Calls[s], c \in Calls[t] :
    c.kind = "credit" /\ d.kind = "credit" /\ c.user = d.user =>
      /\ c.rel = d.rel /\ c.rel # NoRel =>
           c.ref = d.ref /\ (c.ref = NoRef => ProcOf[s] = ProcOf[t])
      /\ c.ref = d.ref /\ c.ref # NoRef => c.rel = d.rel

\* No record has been credited to a user twice.
Credits(i, u, rel) ==
  ledger[i].kind = "credit" /\ ledger[i].user = u /\ ledger[i].rel = rel
RelsUnique ==
  \A i, j \in 1 .. Len(ledger) : \A u \in Users \ dropped, rel \in Rels :
    Credits(i, u, rel) /\ Credits(j, u, rel) => i = j

\* Rows with a reference are credits; credits were written for some call.
Origins ==
  \A i \in 1 .. Len(ledger) :
    /\ ledger[i].ref # NoRef => ledger[i].kind = "credit"
    /\ ledger[i].kind = "credit" =>
         \E s \in Tasks : \E d \in Calls[s] :
           /\ d.kind = "credit" /\ d.user = ledger[i].user
           /\ d.ref = ledger[i].ref /\ d.rel = ledger[i].rel

\* What a credit for a record knows: nobody has been before it, while it is
\* about to insert; and that the row is there, once it will succeed.
Credited(c) ==
  \E i \in 1 .. Len(ledger) : Matches(c, i) /\ Credits(i, c.user, c.rel)
Unseen(t) ==
  LET c == task[t].call IN
    task[t].at = "checked" /\ c.kind = "credit" /\ c.rel # NoRel
      /\ c.ref = NoRef /\ c.user \notin dropped
    => SameRel(c) = {}
Settled(t) ==
  LET c == task[t].call IN
    /\ \/ task[t].at = "refresh"
       \/ task[t].at = "idle" /\ task[t].result = "ok"
    /\ c.kind = "credit" /\ c.rel # NoRel
    => Credited(c)

Related ==
  /\ RelsUnique /\ Origins
  /\ \A t \in Tasks : Unseen(t) /\ Settled(t)

\* The calls behind a credit of the ledger and a call for the same record.
LEMMA SameRecord ==
  ASSUME OneCreditorPerRecord, Origins, NEW t \in Tasks, NEW c \in Calls[t],
         c.kind = "credit", NEW i \in 1 .. Len(ledger),
         ledger[i].kind = "credit", ledger[i].user = c.user
  PROVE  /\ ledger[i].rel = c.rel /\ c.rel # NoRel => ledger[i].ref = c.ref
         /\ ledger[i].ref = c.ref /\ c.ref # NoRef => ledger[i].rel = c.rel
<1>1. PICK s \in Tasks : \E d \in Calls[s] :
        /\ d.kind = "credit" /\ d.user = ledger[i].user
        /\ d.ref = ledger[i].ref /\ d.rel = ledger[i].rel
  BY DEF Origins
<1>2. PICK d \in Calls[s] :
        /\ d.kind = "credit" /\ d.user = ledger[i].user
        /\ d.ref = ledger[i].ref /\ d.rel = ledger[i].rel
  BY <1>1
<1>3. QED
  BY <1>2 DEF OneCreditorPerRecord

\* A credit adds one row, of its kind; nothing else adds a row with a
\* reference.
LEMMA CreditRow ==
  ASSUME IInv, NEW t \in Tasks, task[t].at = "checked"
  PROVE  LET c == task[t].call IN
         /\ c.kind = "credit" =>
              /\ Len(NewRows(t)) = 1 /\ NewRows(t)[1].kind = "credit"
              /\ NewRows(t)[1].user = c.user /\ NewRows(t)[1].rel = c.rel
              /\ NewRows(t)[1].ref = c.ref /\ NewRows(t)[1].amount = c.amount
         /\ c.kind # "credit" =>
              \A k \in 1 .. Len(NewRows(t)) :
                NewRows(t)[k].ref = NoRef /\ NewRows(t)[k].kind # "credit"
<1> DEFINE c == task[t].call
<1>1. c \in Calls[t]
  BY DEF IInv, TaskOK
<1>2. c.kind # "credit" => c.ref = NoRef
  BY <1>1, CallFacts
<1>3. CASE c.kind = "credit"
  BY <1>3 DEF NewRows, NewRow, Delta
<1>4. CASE c.kind # "credit"
  <2>1. \A k \in 1 .. Len(NewRows(t)) :
          NewRows(t)[k].ref = c.ref /\ NewRows(t)[k].kind # "credit"
    BY <1>4, NewRowsOrigin
  <2>2. QED
    BY <1>2, <1>4, <2>1
<1>5. QED
  BY <1>3, <1>4

LEMMA CommitKeepsRelated ==
  ASSUME OneCreditorPerRecord, IInv, Exclusion, Related, NEW t \in Tasks,
         Commit(t)
  PROVE  RelsUnique' /\ Origins' /\ \A s \in Tasks : Unseen(s)' /\ Settled(s)'
<1> DEFINE c == task[t].call
           m == Len(ledger)
           n == Len(NewRows(t))
           rows == NewRows(t)
<1>0. dropped' = dropped
  BY DEF Commit
<1>1. /\ m \in Nat /\ n \in {1, 2} /\ Len(ledger') = m + n
      /\ \A i \in 1 .. m : ledger'[i] = ledger[i]
      /\ \A k \in 1 .. n : ledger'[m + k] = rows[k]
      /\ \A i \in 1 .. (m + n) : i \in 1 .. m \/ \E k \in 1 .. n : i = m + k
  BY Appended
<1>2. /\ c.kind = "credit" =>
           /\ n = 1 /\ rows[1].kind = "credit" /\ rows[1].user = c.user
           /\ rows[1].rel = c.rel /\ rows[1].ref = c.ref
           /\ rows[1].amount = c.amount
      /\ c.kind # "credit" =>
           \A k \in 1 .. n : rows[k].ref = NoRef /\ rows[k].kind # "credit"
  BY CreditRow DEF Commit, At
<1>3. /\ c \in Calls[t] /\ task[t].at = "checked"
      /\ \A i \in 1 .. m : c.ref # NoRef => ledger[i].ref # c.ref
      /\ c.kind = "credit" /\ c.rel # NoRel /\ c.ref = NoRef
           /\ c.user \notin dropped => SameRel(c) = {}
  BY DEF Commit, At, Duplicate, SameRef, IInv, TaskOK, Related, Unseen
<1>4. /\ task'[t].at = "refresh" /\ task'[t].call = c
      /\ \A s \in Tasks \ {t} : task'[s] = task[s]
  BY DEF Commit, Go, IInv, TypeOK
<1>5. \A i \in 1 .. m :
        ledger[i].kind = "credit" /\ ledger[i].user = c.user
          /\ ledger[i].rel = c.rel /\ c.rel # NoRel /\ c.kind = "credit"
        => c.user \in dropped
  BY <1>3, SameRecord DEF Related, SameRel
<1> HIDE DEF c, m, n, rows
\* The row that a credit adds is the only one of its kind.
<1>6. ASSUME NEW y \in 1 .. (m + n), y \notin 1 .. m,
             ledger'[y].kind = "credit"
      PROVE  /\ y = m + 1 /\ c.kind = "credit" /\ n = 1
             /\ ledger'[y] = rows[1]
  <2>1. PICK k \in 1 .. n : y = m + k
    BY <1>1, <1>6
  <2>2. rows[k].kind = "credit" /\ ledger'[y] = rows[k]
    BY <1>1, <1>6, <2>1
  <2>3. QED
    BY <1>2, <2>1, <2>2
<1>7. ASSUME NEW i \in 1 .. (m + n), NEW j \in 1 .. (m + n),
             NEW u \in Users \ dropped, NEW rel \in Rels,
             Credits(i, u, rel)', Credits(j, u, rel)'
      PROVE  i = j
  <2>1. ASSUME NEW x \in 1 .. m, NEW y \in 1 .. (m + n), y \notin 1 .. m,
               Credits(x, u, rel)', Credits(y, u, rel)'
        PROVE  FALSE
    <3>1. /\ c.kind = "credit" /\ c.user = u /\ c.rel = rel
      BY <1>2, <1>6, <2>1 DEF Credits
    <3>2. /\ ledger[x].kind = "credit" /\ ledger[x].user = u
          /\ ledger[x].rel = rel
      BY <1>1, <2>1 DEF Credits
    <3>3. rel # NoRel
      BY WalletAssumption
    <3>4. QED
      BY <1>5, <3>1, <3>2, <3>3
  <2>2. CASE i \in 1 .. m /\ j \in 1 .. m
    <3>1. Credits(i, u, rel) /\ Credits(j, u, rel)
      BY <1>1, <1>7, <2>2 DEF Credits
    <3>2. QED
      BY <2>2, <3>1 DEF Related, RelsUnique, m
  <2>3. CASE i \notin 1 .. m /\ j \notin 1 .. m
    BY <1>6, <1>7, <2>3 DEF Credits
  <2>4. QED
    BY <1>7, <2>1, <2>2, <2>3
<1>8. RelsUnique'
  BY <1>0, <1>1, <1>7 DEF RelsUnique
<1>9. ASSUME NEW i \in 1 .. (m + n)
      PROVE  /\ ledger'[i].ref # NoRef => ledger'[i].kind = "credit"
             /\ ledger'[i].kind = "credit" =>
                  \E s \in Tasks : \E d \in Calls[s] :
                    /\ d.kind = "credit" /\ d.user = ledger'[i].user
                    /\ d.ref = ledger'[i].ref /\ d.rel = ledger'[i].rel
  <2>1. CASE i \in 1 .. m
    BY <1>1, <2>1 DEF Related, Origins, m
  <2>2. CASE i \notin 1 .. m
    <3>1. PICK k \in 1 .. n : i = m + k
      BY <1>1, <2>2
    <3>2. ledger'[i] = rows[k]
      BY <1>1, <3>1
    <3>3. CASE c.kind = "credit"
      BY <1>2, <1>3, <3>1, <3>2, <3>3
    <3>4. CASE c.kind # "credit"
      BY <1>2, <3>2, <3>4
    <3>5. QED
      BY <3>3, <3>4
  <2>3. QED
    BY <2>1, <2>2
<1>10. Origins'
  BY <1>1, <1>9 DEF Origins
<1>11. ASSUME NEW s \in Tasks \ {t}
       PROVE  Unseen(s)'
  <2> DEFINE b == task[s].call
  <2>1. SUFFICES ASSUME task[s].at = "checked", b.kind = "credit",
                        b.rel # NoRel, b.ref = NoRef, b.user \notin dropped
                 PROVE  SameRel(b)' = {}
    BY <1>0, <1>4 DEF Unseen
  <2>2. b \in Calls[s] /\ SameRel(b) = {}
    BY <2>1 DEF IInv, TaskOK, Related, Unseen
  <2>3. ASSUME NEW i \in 1 .. (m + n), ledger'[i].kind = "credit",
               ledger'[i].user = b.user, ledger'[i].rel = b.rel
        PROVE  FALSE
    <3>1. CASE i \in 1 .. m
      BY <1>1, <2>1, <2>2, <2>3, <3>1 DEF SameRel, m
    <3>2. CASE i \notin 1 .. m
      <4>1. c.kind = "credit" /\ c.user = b.user /\ c.rel = b.rel
        BY <1>2, <1>6, <2>3, <3>2
      <4>2. ProcOf[s] = ProcOf[t]
        BY <1>3, <2>1, <2>2, <4>1 DEF OneCreditorPerRecord
      <4>3. b.user \notin Ids(c)
        <5>1. Loaded(s) /\ Loaded(t) BY <1>3, <2>1 DEF Loaded
        <5>2. b.user \in Users \ dropped BY <2>1, <2>2, CallFacts
        <5>3. b.user \in Ids(b) BY DEF Ids
        <5> QED BY <4>2, <5>1, <5>2, <5>3, LoadedHolds
                DEF Exclusion, Apart, c
      <4>4. QED
        BY <4>1, <4>3 DEF Ids
    <3>3. QED
      BY <3>1, <3>2
  <2>4. task'[s].call = b
    BY <1>4
  <2> HIDE DEF b
  <2>5. SameRel(b)' = {}
    BY <1>1, <2>3, <2>4 DEF SameRel, b
  <2>6. QED
    BY <2>5
<1>12. Unseen(t)'
  BY <1>4 DEF Unseen
<1>13. ASSUME NEW s \in Tasks \ {t}
       PROVE  Settled(s)'
  <2>1. \A i \in 1 .. m : i \in 1 .. Len(ledger') /\ ledger'[i] = ledger[i]
    BY <1>1
  <2>2. Settled(s)
    BY DEF Related
  <2>3. QED
    BY <1>4, <2>1, <2>2 DEF Settled, Credited, Matches, Credits, m
<1>14. Settled(t)'
  <2>1. ASSUME c.kind = "credit"
        PROVE  /\ m + 1 \in 1 .. Len(ledger') /\ ledger'[m + 1] = rows[1]
    BY <1>1, <1>2, <2>1
  <2>2. QED
    BY <1>2, <1>4, <2>1 DEF Settled, Credited, Matches, Credits, c
<1>15. QED
  BY <1>8, <1>10, <1>11, <1>12, <1>13, <1>14

\* The steps that leave the ledger alone.
LEMMA StepKeepsRelated ==
  ASSUME OneCreditorPerRecord, IInv, Exclusion, Related, NEW t \in Tasks,
         Step(t)
  PROVE  Related'
<1> DEFINE c == task[t].call
<1>1. dropped' = dropped
  BY DEF Step, Pin, Close, Enter, Resume, CheckReference, CheckRelated,
    CheckFunds, Commit, Conflict, Recover, Refresh
<1>2. CASE Commit(t)
  BY <1>2, CommitKeepsRelated DEF Related
<1>3. ASSUME ledger' = ledger, Unseen(t)', Settled(t)',
             \A s \in Tasks \ {t} : task'[s] = task[s]
      PROVE  Related'
  <2>1. RelsUnique' /\ Origins'
    BY <1>1, <1>3 DEF Related, RelsUnique, Origins, Credits
  <2>2. \A s \in Tasks \ {t} : Unseen(s)' /\ Settled(s)'
    BY <1>1, <1>3 DEF Related, Unseen, Settled, Credited, Matches, Credits, SameRel
  <2>3. QED
    BY <1>1, <1>3, <2>1, <2>2 DEF Related
<1>4. ASSUME NEW cached, Return(t, "error", cached), ledger' = ledger
      PROVE  Related'
  <2>1. task'[t].result = "error" /\ task'[t].at = "idle"
        /\ \A s \in Tasks \ {t} : task'[s] = task[s]
    BY <1>4 DEF Return, IInv, TypeOK
  <2>2. Unseen(t)' /\ Settled(t)'
    BY <2>1 DEF Unseen, Settled
  <2>3. QED
    BY <1>3, <1>4, <2>1, <2>2
<1>5. ASSUME NEW cached, Return(t, "ok", cached), ledger' = ledger,
             c.kind = "credit" /\ c.rel # NoRel => Credited(c)
      PROVE  Related'
  <2>1. task'[t].call = c /\ task'[t].at = "idle"
        /\ \A s \in Tasks \ {t} : task'[s] = task[s]
    BY <1>5 DEF Return, IInv, TypeOK
  <2>2. Unseen(t)' /\ Settled(t)'
    BY <1>5, <2>1 DEF Unseen, Settled, Credited, Matches, Credits
  <2>3. QED
    BY <1>3, <1>5, <2>1, <2>2
<1>6. ASSUME NEW place \in {"referenced", "conflict"},
             Go(t, place), ledger' = ledger
      PROVE  Related'
  <2>1. task'[t].at = place /\ \A s \in Tasks \ {t} : task'[s] = task[s]
    BY <1>6 DEF Go, IInv, TypeOK
  <2>2. Unseen(t)' /\ Settled(t)'
    BY <2>1 DEF Unseen, Settled
  <2>3. QED
    BY <1>3, <1>6, <2>1, <2>2
<1>7. ASSUME Go(t, "checked"), ledger' = ledger,
             c.kind = "credit" => SameRel(c) = {}
      PROVE  Related'
  <2>1. /\ task'[t].at = "checked" /\ task'[t].call = c
        /\ \A s \in Tasks \ {t} : task'[s] = task[s]
    BY <1>7 DEF Go, IInv, TypeOK
  <2>2. Unseen(t)' /\ Settled(t)'
    BY <1>7, <2>1 DEF Unseen, Settled, SameRel
  <2>3. QED
    BY <1>3, <1>7, <2>1, <2>2
<1>8. ASSUME Go(t, "refresh"), ledger' = ledger,
             c.kind = "credit" /\ c.rel # NoRel => Credited(c)
      PROVE  Related'
  <2>1. /\ task'[t].call = c /\ task'[t].at = "refresh"
        /\ \A s \in Tasks \ {t} : task'[s] = task[s]
    BY <1>8 DEF Go, IInv, TypeOK
  <2>2. Unseen(t)' /\ Settled(t)'
    BY <1>8, <2>1 DEF Unseen, Settled, Credited, Matches, Credits
  <2>3. QED
    BY <1>3, <1>8, <2>1, <2>2
\* A row found by its reference is that of the record.
<1>9. ASSUME NEW i \in SameRef(c), Matches(c, i), c \in Calls[t],
             c.kind = "credit"
      PROVE  Credited(c)
  <2>1. /\ i \in 1 .. Len(ledger) /\ ledger[i].ref = c.ref /\ c.ref # NoRef
        /\ ledger[i].user = c.user
    BY <1>9 DEF SameRef, Matches
  <2>2. ledger[i].kind = "credit"
    BY <2>1 DEF Related, Origins
  <2>3. ledger[i].rel = c.rel
    BY <1>9, <2>1, <2>2, SameRecord DEF Related
  <2>4. QED
    BY <1>9, <2>1, <2>2, <2>3 DEF Credited, Credits
<1>10. CASE Pin(t) \/ Close(t)
  <2>1. task' = task /\ ledger' = ledger
    BY <1>10 DEF Pin, Close
  <2>2. Unseen(t)' /\ Settled(t)'
    BY <1>1, <2>1 DEF Related, Unseen, Settled, Credited, Matches, Credits, SameRel
  <2>3. QED
    BY <1>3, <2>1, <2>2
<1>11. CASE Enter(t) \/ Resume(t)
  <2>1. /\ ledger' = ledger
        /\ task'[t].at \in {"waiting", "second", "entered"}
        /\ \A s \in Tasks \ {t} : task'[s] = task[s]
    BY <1>11, OnTheWay
  <2>2. Unseen(t)' /\ Settled(t)'
    BY <2>1 DEF Unseen, Settled
  <2>3. QED
    BY <1>3, <2>1, <2>2
<1>12. CASE CheckReference(t)
  <2>1. /\ Decide(t, SameRef(c), "referenced") /\ ledger' = ledger
        /\ c \in Calls[t] /\ c.kind = "credit"
    BY <1>12 DEF CheckReference, At, IInv, TaskOK
  <2>2. QED
    BY <1>4, <1>6, <1>8, <1>9, <2>1 DEF Decide
<1>13. CASE CheckRelated(t)
  <2>1. Decide(t, SameRel(c), "checked") /\ ledger' = ledger
    BY <1>13 DEF CheckRelated
  <2>2. ASSUME NEW i \in SameRel(c), Matches(c, i)
        PROVE  Credited(c)
    BY <2>2 DEF SameRel, Credited, Credits
  <2>3. QED
    BY <1>4, <1>7, <1>8, <2>1, <2>2 DEF Decide
<1>14. CASE CheckFunds(t)
  <2>1. task[t].call.kind # "credit" /\ ledger' = ledger
    BY <1>14 DEF CheckFunds
  <2>2. QED
    BY <1>4, <1>7, <1>14, <2>1 DEF CheckFunds
<1>15. CASE Conflict(t)
  BY <1>6, <1>15 DEF Conflict
<1>16. CASE Recover(t)
  <2>1. c \in Calls[t] /\ c.kind = "credit" /\ ledger' = ledger
    BY <1>16 DEF Recover, At, IInv, TaskOK
  <2>2. QED
    BY <1>4, <1>5, <1>9, <1>16, <2>1 DEF Recover
<1>17. CASE Refresh(t)
  <2>1. c.kind = "credit" /\ c.rel # NoRel => Credited(c)
    BY <1>17 DEF Refresh, At, Related, Settled
  <2>2. QED
    BY <1>5, <1>17, <2>1 DEF Refresh
<1>18. QED
  BY <1>2, <1>10, <1>11, <1>12, <1>13, <1>14, <1>15, <1>16, <1>17 DEF Step

\* A credit for an internal record that succeeded is in the ledger, once,
\* though no constraint of the table says so: with any number of processes
\* and crashes, of tasks that keep user objects, if the credits of one record
\* come from one process or carry a payment reference, for every user whose
\* lock the cleanup job has not forgotten under a call
\* (balance_service.py:33-41, 102-122).
THEOREM RecordsCreditedOnce ==
  ASSUME OneCreditorPerRecord
  PROVE  Spec => []RelatedCreditedOnce
<1>1. Init => Related
  BY DEF Init, Related, RelsUnique, Origins, Unseen, Settled, NoTask
<1>2. IInv /\ Exclusion /\ Related /\ [Next]_vars => Related'
  <2> SUFFICES ASSUME IInv, Exclusion, Related, [Next]_vars PROVE Related'
    OBVIOUS
  <2>1. ASSUME NEW t \in Tasks, Step(t) PROVE Related'
    BY <2>1, StepKeepsRelated
  <2>2. ASSUME ledger' = ledger, dropped \subseteq dropped',
               \A s \in Tasks : task'[s] = NoTask \/ task'[s] = task[s]
        PROVE  Related'
    <3>1. ASSUME NEW s \in Tasks PROVE Unseen(s)' /\ Settled(s)'
      BY <2>2
      DEF Related, Unseen, Settled, Credited, Matches, Credits, SameRel, NoTask
    <3>2. RelsUnique' /\ Origins'
      BY <2>2 DEF Related, RelsUnique, Origins, Credits
    <3> QED BY <3>1, <3>2 DEF Related
  <2>3. ASSUME NEW p \in Procs, CleanUp(p) \/ Crash(p) PROVE Related'
    BY <2>2, <2>3 DEF CleanUp, Crash
  <2>4. CASE UNCHANGED vars BY <2>2, <2>4 DEF vars
  <2> QED BY <2>1, <2>3, <2>4 DEF Next
<1>3. IInv /\ Related => RelatedCreditedOnce
  <2>1. SUFFICES ASSUME IInv, Related, NEW t \in Tasks,
                        task[t].at = "idle", task[t].result = "ok",
                        task[t].call.kind = "credit",
                        task[t].call.rel # NoRel,
                        task[t].call.user \notin dropped
                 PROVE  \E i \in 1 .. Len(ledger) :
                          /\ Matches(task[t].call, i)
                          /\ SameRel(task[t].call) = {i}
    BY DEF RelatedCreditedOnce, At
  <2> DEFINE c == task[t].call
  <2>2. PICK i \in 1 .. Len(ledger) :
          Matches(c, i) /\ Credits(i, c.user, c.rel)
    BY <2>1 DEF Related, Settled, Credited
  <2>3. c.user \in Users \ dropped /\ c.rel \in Rels
    <3>1. ledger[i] \in Row
      BY <2>1 DEF IInv, TypeOK
    <3>2. QED
      BY <2>1, <2>2, <3>1 DEF Credits, Row
  <2>4. \A j \in 1 .. Len(ledger) : Credits(j, c.user, c.rel) => j = i
    BY <2>1, <2>2, <2>3 DEF Related, RelsUnique
  <2>5. SameRel(c) = {i}
    BY <2>1, <2>2, <2>4 DEF SameRel, Credits
  <2>6. QED
    BY <2>2, <2>5
<1>4. QED
  BY <1>1, <1>2, <1>3, Inductive, ExclusionInvariant, PTL DEF Spec
=============================================================================
