# A verification of the number bot in TLA+

The repository is a Telegram shop (aiogram, SQLAlchemy, APScheduler, FastAPI)
that sells temporary phone numbers, products of external providers and digital
goods against a balance in US dollars.  This directory models the parts that
move money, the catalogue, the services around them and the dialogues in which
users and administrators enter data, checks them with TLC and proves with TLAPS
all the invariants, refinements and further safety properties the passing runs
check; what is only model-checked is liveness.

    tlc -workers 2 -config UserLocksBot.cfg MCUserLocks     # one run
    tlapm WalletProofs.tla                                  # one proof module

## 1. The system

### Processes and their concurrency

* **The bot process** (`bot.py`): one asyncio event loop.  Every Telegram update
  is a task; APScheduler adds the jobs `check_pending_orders` (15 s),
  `check_unified_orders` (2 min), `check_pending_invoices` (30 s by default,
  never under 5 s), `update_provider_status` and `check_product_watches`
  (10 min), `cleanup_balance_locks` (5 min) and a daily backup.  A job never
  runs twice at a time.  Tasks interleave at every `await`: each database
  statement, each HTTP request, each Telegram message.
* **The API process** (`api/`): a second event loop on the same database.  Its
  asyncio locks are its own.
* **The database**: one committed state.  Each update, request and job run works
  through one `AsyncSession` made with `expire_on_commit=False`; a session hands
  the same Python object out for a row as long as somebody refers to it, and an
  UPDATE sets exactly the columns that differ from what was loaded.

### Components, their state and what makes them correct

| Component | State | Operations | What must hold |
|---|---|---|---|
| user locks (`services/balance_service.py`) | `_locks` | acquire for one user or two, release, cleanup | one holder per lock object, no deadlock, no lost wake-up |
| balance service (same file) | `users`, `transactions` | `add_balance`, `deduct_balance`, `transfer` | one row per payment and per record, newest row = balance, never below zero, a job's movement is exactly its amount |
| number orders (`handlers/numbers.py`, `tasks/order_monitor.py`, `handlers/admin/number_orders.py`) | `number_orders` | buy, cancel, further code, finish, poll, expire, refund | money back at most once, a code or the money, cashback once |
| top-ups (`handlers/deposit_methods.py`, `handlers/deposit.py`, `tasks/invoice_monitor.py`) | `auto_invoices`, `deposit_requests` | open, verify, check, cancel, accept, reject, poll, expire | credited before shown paid, a payment complete in time is credited |
| stars (`services/stars_service.py`) | `stars_packages` | successful payment | every payment credited |
| product orders (`handlers/games.py`, `services/checkout_service.py`, `tasks/unified_order_monitor.py`, `handlers/admin/orders.py`) | `unified_orders` | buy, poll, complete, refund | as number orders, with partial refunds |
| inventory, coupons, promotions | items, counters | sell, void, apply, count | an item sold once, counters within limits |
| gift codes (`services/gift_service.py`) | `gift_codes`, `gift_redemptions` | create, redeem, revoke, expire | a code pays each user once, and as many users as it was issued for |
| daily reward (`services/loyalty_service.py`) | `users.loyalty_*`, `loyalty_events` | claim | a streak is made of claims on consecutive days |
| referrals (`handlers/start.py`, `middlewares/user_middleware.py`) | `users` | first update, activation, bonus | the bonus only for activated, referred users, and once |
| catalogue (`handlers/admin/products.py`, `categories.py`, `api_providers.py`, `services/provider_sync_service.py`) | `products`, `api_providers`, `provider_services`, sections | wizards, toggles, deletions, `sync` | withdrawn services are off sale, no reference to a missing row |
| watches (`services/watch_service.py`, `tasks/watch_job.py`) | `product_watches` | toggle, the job's pass | whoever watches is told |
| dialogues (all of `handlers/`, `states/states.py`, `middlewares/state_reset_middleware.py`) | aiogram's state and data per user | open, answer, leave, save | no question without the answers before it, no answer from a dialogue that was left |
| reviews, requests, tickets, settings | their tables | add, vote, answer | one vote, one review (unique constraints) |
| keyboards, audit, messages | -- | -- | -- |

They interact by calls into `BalanceService` (the only place meant to change a
balance), by the rows they share, and by the keyboards a message still shows
after the row behind it has changed.  The hard behaviours, listed line by line
under "hazards" in `PROJECT.json`, come from four sources: decisions on a row
loaded before an `await`; several commits per operation, with a possible restart
in between; the same row changed by a user, an administrator and a monitor at
once; and the two processes.

## 2. Modules

| Module | Role |
|---|---|
| `UserLocks` | the lock registry and `asyncio.Lock`, one action per operation |
| `Wallet` | `BalanceService`, one action per database statement |
| `Bank` | abstract specification: what `BalanceService` promises |
| `Escrow` | abstract specification: what a purchase promises to its buyer's account |
| `NumberOrders` | number orders: purchase, buttons, monitor, administrator |
| `TopUps` | invoices and deposit requests |
| `ProductOrders` | product orders, inventory, coupon, promotion, rewards, monitor, administrators |
| `Catalogue` | products, their services, section and provider; synchronisation, administrators, customers |
| `Watches` | the watches of a product and the job that tells the watchers |
| `GiftCodes`, `Loyalty`, `Referrals` | redemption, daily reward, referrer's bonus |
| `Dialogues` | what aiogram keeps of a dialogue, the middleware, and one action per step of a handler |
| `DialogueHandlers` | the table of the bot's handlers that `Dialogues` runs |
| `MCUserLocks`, `MCWallet`, `MCNumberOrders`, `MCProductOrders`, `MCServices`, `MCDialogues` | instances for TLC |
| `UserLocksProofs`, `WalletProofs`, `NumberOrdersProofs`, `TopUpsProofs`, `ProductOrdersProofs`, `CatalogueProofs`, `MemberProofs`, `DialoguesProofs` | theorems and proofs |

**How they compose.**  `UserLocks` shows what the locks give: one holder per
lock *object*, and not one holder per *user*, because the cleanup job may forget
an object that a suspended call is about to take.  `Wallet` therefore does not
assume that operations on a user exclude each other.  It has the objects (as
generations of a user's lock), the cleanup job and the tasks that wait, and
leaves to `UserLocks` only the order in which waiting tasks are served.
`Wallet` shows what becomes of a credit with a payment reference or a related
record; `NumberOrders`, `TopUps` and `ProductOrders` take a credit for one step
that happens once for its record (`Refund`, `Cashback`, `Credited`, `Credit`).
For credits with a payment reference of their own that holds whatever the locks
do; for refunds, which
have a related record only, it rests on no lock of the user having been
forgotten under a call (see `RelatedCreditedOnce` below).  `Wallet` refines `Bank`
through `accounts <- balances, entries <- ledger`.  `NumberOrders` and `ProductOrders`
refine `Escrow`: the price of an order is taken once and given back at most once,
however many handlers, monitors and administrators try.  `Dialogues` is parameterised by a
table of handlers, and `MCDialogues` gives it the table of `DialogueHandlers`;
where a dialogue ends in a purchase or a top-up, `ProductOrders` and `TopUps`
go on.  `Catalogue`, `Watches`, `GiftCodes`, `Loyalty` and `Referrals` share no
rows with each other; `MCServices` checks each in an instance of its own.

### UserLocks

`registry` is `_locks`; `lock` the state of each `asyncio.Lock` (locked, its
queue, whether the first waiter has been woken); `want`, `refs` and `pos` the
progress of a task through its nested `async with`.  One step is what a task
does between two suspensions, so an uncontended acquisition does not suspend and
a contended one queues up.  `release()` leaves the lock *unlocked* with a woken
waiter: the fact on which `CleanupIdleLocks` (`locked()` is false) founders.
Cancellation of a waiting task is not modelled: no code cancels handlers.

### Wallet

`account` and `ledger` are the committed tables, `cache[t]` the identity map of
the session of task t, `task[t]` the call in progress, the database statement it
has reached and the lock objects it fetched.  A commit computes from `cache[t]`,
as the code does from the object `session.get` returned.  `Calls` are the calls
a task may make, `ProcOf` its process; money is a natural number of smallest
units.  `Crash(p)` ends every task of a process.

* *Sessions.*  The tasks in `Pinning` hold user objects between operations: every
  update of the bot (`UserMiddleware` loads the user and keeps it) and every
  request (`api/deps.py`).  `Pin` loads such an object and `Close` ends its
  session.  The others are jobs that load the user inside the operation: the
  credits of the invoice monitor and the number monitor's refunds of expired
  orders.  The product orders' monitor loads the users with its orders and
  belongs to `Pinning`, as does the number monitor once a code has arrived.
* *Locks.*  `registry[p][u]` is the generation of the lock that process p hands
  out for user u.  A call fetches its objects first and then waits for each
  (`Enter`, `Resume`, `Proceed`); `Taken` looks for a holder of *the same object*.
  `CleanUp` forgets the objects that are not held, which makes a difference only
  for those a suspended call still refers to: the next caller gets another
  generation and both may be inside.  The history `dropped` has the users this
  has happened to.

What is claimed takes both as they are.  `LastRowIsBalance`, `PaymentCreditedOnce`
and `ImplementsBank` are unconditional.  `Bank` does not promise that a movement
starts from the current balance, which is false (`wallet_stale`): it starts from
*some* balance the account has had, never below zero, and is posted together
with its row, both sides of a transfer at once, a payment reference once.
`JobsAddUp` says where the sum is right: a movement of a job changes the
committed balance by exactly its amount, whatever copies the updates hold, unless the
user's lock was forgotten or another process moves the same user's money.
`RelatedCreditedOnce` excepts the users in `dropped`: no constraint of the table
backs the query, and `WalletCleanup.cfg` shows two refunds for one record.

### NumberOrders

`row` is the committed order, `money` what was paid, returned and given as
cashback for it, `handler[h].copy` and `monitor.copy[o]` the copies on which a
handler and a monitor pass decide.  `Saved` is the UPDATE: the columns that
differ *from the copy* are set in whatever the row has become.  `buyer` is the
progress of `confirm_buy`, `shown` the keyboard last shown (a button may be
pressed late).  The countdown, the wording and the provider's price are
abstracted; a message that fails stays where it changes the control flow
(`BuySend`, `CheckStatus`, `Deliver`).

### TopUps

`status[i]` is the row of invoice or request i, `plisio[i]` what Plisio reports of
it, as `get_payment_info` translates it: `process`, `check` (the payment is seen
and still being confirmed), `paid` or `failed`.  `task[t]` is what a handler or the
monitor's turn has decided (`to`), where it is (`ask`, `credit`, `commit`) and
whether it is the last check of a late invoice.  `Fault` is an exception of the
service, the credit or the commit; `trouble` remembers which call of an invoice
failed.  USDT invoices ask Plisio, ShamCash ones Sam API whenever the
user sends a transaction number, manual ones wait for an administrator.
`PaidInTime` is a payment *complete* at Plisio before the deadline, and `Kept` what
then holds for ever; for one that is only seen in time it is false
(`top_ups_confirming`).

### ProductOrders

`row[o]` is the order's row in `unified_orders`, `money[o]` what its buyer paid
and got back (`plain` before there is an order, `linked` with the order as
related record), `rewards[o]` what it counted for.  Money is counted in prices
of one piece.  `coupon`, `promo` and `item` are the coupon with its usages, the
promotion's counter and the inventory.

* *Purchase* (`buyer[o]`): `Quote` chooses a coupon or promotion, and the
  actions after it are the commits of `handlers/games.py` (kind `bot`) and
  `CheckoutService.purchase` (kind `http`, no coupon): debit, use of the coupon,
  order at the provider, row, use of the promotion, rewards.  Kind `item` is
  `InventoryService.purchase`, whose debit, row and reserved item are one
  transaction; the status RESERVED never leaves it.
* *Monitor* (`monitor`): one session over the orders of one query.  `Commit`
  writes the order in its turn and whatever an earlier turn, ended by an
  exception, left uncommitted (`dirty`): a partial refund that was refused.
* *Administrators* (`admin[a]`): each reads the row, then credits and writes
  without reading it again.

`Credit` and `Refused` are `add_balance` on the related record: again with the
same amount does nothing, with another amount raises.  A provider answers with
at most `Quantity` pieces that remain.  The rates of cashback and points are
taken positive.  Abstracted: texts, prices, the three attempts of the inventory
(a lost race is tried again or given up).  A commit of the database itself does
not fail, except the one whose failure the code expects (the coupon's usage).

### Catalogue

`provider`, `service`, `product` and `section` are the rows (`None`: there is
none), `orders` the products of the orders.  `syncs[s]` is a pass of
`sync_provider_services`: the list it fetched, then the rows it loaded; nothing
keeps two passes from overlapping.  `admins[a]` is a handler that has read a row
and not yet written it (wizard, `prod_toggle`, `aprov_toggle`, `cat_delete`),
`buyers[b]` a purchase between its check and its order.  SQLite takes the write
lock with the first write, so what follows it up to the commit is one step; the
foreign keys (`PRAGMA foreign_keys=ON`, the cascades of `models.py`) decide
whether that step happens.  The audit log commits in the middle of a deletion
(`SectionLog`), which is why a section is loaded in one transaction and deleted
in another.  The history `late` holds the products an administrator put on sale
when their service was already gone: the code allows that.  Abstracted: prices,
names, order of display, subsections below a section.

### Watches

`watch[u]` is a row with the price and stock last seen, `pass` the job's session
(`old`: what it loaded, `new`: what its one commit will write), `toggling` what
a call of `toggle` has loaded (the price with the product, then the stock; it
inserts them later as they were).  The pass loads the product once but
reads the stock for each watch.  SQLite reuses the largest id, so that a pass
may write to a row younger than itself (`Holder`).  `known` is a history of what
the user was told, or of what was loaded when the watch began; `apart` holds the
users whose last message belongs to a pass that was lost, or whose row a pass
took for another.

### GiftCodes, Loyalty, Referrals

* `GiftCodes`: `attempt[t]` is a call of `redeem` at its first query, its second
  one or its end; the conditional UPDATE and everything after it is one
  transaction.
* `Loyalty`: `claim[t]` is an update with the copy of the user that the
  middleware loaded and the date taken before the lock; `ClaimCommit` writes the
  columns that differ from the copy, unless the unique key of the day's event
  refuses it.  `clock` counts half days, and no update
  lasts longer than half a day: without that bound a press could be answered
  days later, which Telegram's and the database's timeouts exclude.
* Both take the user's lock in the code.  It keeps apart calls of one process
  only, and not all of those, so the models leave it out: all calls may be inside
  at once.
* `Referrals`: `update[t]` goes from loading the user over activation, credit and
  mark, each a commit of its own, and may die between them.  `overlapped` is a
  history of users with two updates that had both loaded an account that was not
  activated; those, and only those, may be paid for twice.

### Dialogues and DialogueHandlers

A handler is a record: its trigger, the state its filter wants, the answers it
`needs` before and `uses` after it stores its own (`keeps`), the state it sets, and
whether it opens a dialogue, begins with `state.clear()`, saves, stores its answer
only after setting the state (`late`), or ends the dialogue when an answer is
missing (`clears`) or when it refuses (`quits`).  `Dialogues` runs the table:

* an update arrives and its filter reads the state (`Arrive`); a message may begin
  with "/" whether a command is expected or not;
* the middleware ends a dialogue, state and data (`Reset`), for every message that
  begins with "/" and for the buttons of the main menu and the administrator's
  menu.  The handler stays the one the filter chose from the state read before:
  "/x" at the Player ID's question is still handled as the Player ID, with
  nothing left of the dialogue;
* the handler refuses (`Reject`; always a command where a number, a code or a link
  is wanted, trigger `strict`), finds that an answer it `needs` or `uses` is missing
  (`Miss`), stores its own answer (`Store`), reads the others and, if it saves,
  saves its row (`Save`), fails to send (`Drop`) or sets the next state (`Finish`).
  These are separate steps, between which a second update of the user can run.

Answers are abstracted to the `epoch` in which they were given; an epoch begins
when a dialogue is opened or ended.  `left`, `given`, `shown` and `cut` are
histories that the properties read; `cut` says that the dialogue goes on after a
command that was taken for an answer.  What an answer must look like, and what is
done with it, is left out.

## 3. Runs

| Run | Checks | Distinct states |
|---|---|---|
| `locks_bot` | `ObjectMutex`, `NoLostWakeup`, `SomebodyGoesOn`, `EveryWaiterEnters` | 37 thousand |
| `locks_cleanup` | violates `UserMutex` | -- |
| `wallet_shared` | `TypeOK`, `PaymentCreditedOnce`, `RelatedCreditedOnce`, `LastRowIsBalance`, `JobsAddUp`, `ImplementsBank` | 919 thousand |
| `wallet_stale` | violates `LedgerAddsUp` | -- |
| `numbers` | `RefundedIsPaidBack`, `CashbackOnce`, `NobodyIsForgotten`, `ImplementsEscrow`, `Settled` | 467 thousand |
| `top_ups` | `PaidIsCredited`, `PaymentIsKept`, `PaymentIsCredited` | 24 thousand |
| `top_ups_confirming` | violates `PaymentSeenIsKept` | -- |
| `products` | `RefundedIsPaidBack`, `PartialIsPaidBack`, `DeliveredIsFinal`, `CouponHonoured`, `PromotionUseIsAnOrder`, `RewardsFollowOrders`, `NobodyIsForgotten`, `CouponDebitLostToOneself`, `ImplementsEscrow`, `Settled` | 169 thousand |
| `products_coupon` | violates `CouponDebitRefunded` | -- |
| `dialogues` | `TextsFindTheirAnswers`, `LeftIsForgotten` | 269 thousand |
| `dialogue_purchase` | violates `PurchaseUsesItsOwnAnswers` | -- |
| `services` | `ServicesTypeOK`, `DelistedIsPaused`, `RowsHaveTheirParents`, `GiftHonoured`, `StreakIsEarned`, `ReferralIsEarned`, `SeenIsTold`, `WatcherIsTold` | 423 thousand |

Two runs check type invariants.  The types of the other modules, and
`NeverOverRefunded` (which `ImplementsEscrow` contains), are theorems and were
left out of the runs in favour of properties that say more.  The five violating runs
are disagreements between the code and its own comments; "findings" in
`PROJECT.json` quotes them.

Seven more configurations are kept beside the runs.  Each ends in a violation:

| Configuration | Module | Violates | What it shows |
|---|---|---|---|
| `WalletStars.cfg` | `MCWallet` | `PaymentCreditedOnce` | `stars_service.py:137` passes the id of the package as related record, so the second payment for one package is taken for a repetition and never credited, although the docstring (lines 81-83) says that it adds the balance |
| `WalletCleanup.cfg` | `MCWallet` | `RecordNeverRepeated` | the comment at `balance_service.py:102-103` says that a retry is not credited again; with a lock forgotten by the cleanup job (`bot.py:188-192`) two refunds of one order pass the query at line 99 together |
| `NumberOrdersExtra.cfg` | `MCNumberOrders` | `ExtraCodeIsNew` | `order_monitor.py:88-94` compares a further code with the extra codes only: a provider that reports its first message makes it announce the code the user has |
| `TopUpsRetry.cfg` | `TopUps` | `FailedCreditIsRetried` | `invoice_monitor.py:231-235` swallows a failed credit in the last check and expires the invoice, against the comment at lines 111-112 |
| `DialogueWizard.cfg` | `MCDialogues` | `WizardFindsItsAnswers` | the buttons inside the provider wizard begin with `admin:`, for which the middleware ends the dialogue (`state_reset_middleware.py:26-37`): it can never save |
| `DialogueCommands.cfg` | `MCDialogues` | `CommandsEndDialogues` | "/x" at the Player ID's question: the middleware ends the dialogue (`state_reset_middleware.py:19-21`), the handler chosen before runs all the same and raises `KeyError` (`games.py:372`) |
| `DialogueRace.cfg` | `MCDialogues` | `AnswersOutliveUpdates` | of two updates in flight one ends the dialogue after the other's filter has read its state and before its handler reads the answers |

What the claims do not cover, each with the place in the code:

* `PaymentCreditedOnce` speaks of calls whose records have one payment each; the
  payments by stars do not (`WalletStars.cfg`).
* `RelatedCreditedOnce` and `JobsAddUp` except the users in `dropped`, as described above.
* `Settled` of number orders and `NobodyIsForgotten` excuse a restart.  An exception of
  the credit after EXPIRED was committed (`order_monitor.py:210`, swallowed at
  77-80) leaves the same order as a restart there, and is not modelled.
* `TextsFindTheirAnswers` and `LeftIsForgotten` hold for a user who sends one update at a
  time, the former unless a command cut the dialogue (`DialogueRace.cfg`,
  `DialogueCommands.cfg`).
* `DelistedIsPaused` excuses the products an administrator's toggle or wizard put on
  sale with a copy older than the withdrawal (`late`).

### Bounds

* `locks_bot`: two users and three tasks, the least in which two transfers cross
  while a third task queues behind; three lock objects suffice because garbage
  is reused, and `locks_cleanup` has two more for the duplicates.
* `wallet_*`: `MaxRows` rows of ledger (no operation starts beyond it) and `MaxDrops`
  locks of a user that a process forgets.  In `wallet_shared` two rows and one
  drop let a refund and a payment, or a payment and a transfer that starts while
  it is in progress, meet; four rows with its updates only (`wallet_stale`)
  contain two transfers, or a deposit and three purchases.  t1 is a job (it pins
  nothing) and t2 an update of the bot, t3 a request of the other process: two
  rivals for the lock and one beyond it.  The amounts 1 and 2 meet both sides of
  "exactly the balance".
* `numbers`: one order, two concurrent updates besides the buyer and the
  monitor, one message, two deadlines (the order's and one of a further code),
  one restart.  Every property speaks of one order; orders meet only in
  `MaxActive`, and the theorems hold for any number of them.  The updates divide
  the buttons (`UserAndAdmin`) so that cancel and refund, and extra and finish,
  run against each other.
* `top_ups`: one id, two updates, two failures, one restart.  Ids meet only in
  the monitor's pass; two ids with one update and one failure were checked as
  well (632 thousand states) and showed nothing else.  The run has
  `CHECK_DEADLOCK FALSE`: a settled top-up is the end of its story.

* `products`: two orders, since orders meet in the coupon, the promotion, the
  inventory and the monitor's session; two pieces, the least with a partial
  refund; a promotion of one use; one failing call and one restart.  All at once
  would be too large, so the run starts in one of five scenarios
  (`MCProductOrders`): one order between monitor and two administrators; the
  last use of a coupon wanted by two users; two orders of one user with it; two
  orders in one pass of the monitor with a refund between them; two buyers of
  the inventory with a void and a refund.  The theorems hold for every scenario.

* `dialogues`: the user is in one dialogue at a time, in one of the seven pairs
  that share names of answers or states (`AllScenes`), sends commands instead of
  answers and is refused.  Four epochs let a dialogue be opened, left, opened again and
  left again.  Two updates in flight are in `DialogueRace.cfg` only, with the epochs
  not told apart (`OneAtATime`), since "before" and "after" have no meaning for the
  user then.  `Asked`, the answers that every way to a state leaves behind, is the
  greatest fixpoint that `MCDialogues` computes from the table (`AskedBefore`);
  `AskedAssumption` checks that it is one.  `TextsFindTheirAnswers` leaves out the dialogues
  `DialogueWizard.cfg` shows to be broken (`ResetInside`).
* `services`: one part per behaviour.  Catalogue: one service, with two passes
  and one product or one pass and two products, one administrator, one customer
  (a pass that overlaps a wizard, a toggle, a deletion and another pass).
  Watches: two users, two prices, four changes, one failure (`SeenIsTold` with six
  changes as well, 978 thousand states of the watches alone).  Gift codes: two
  codes of up to two uses, two users, five calls.  Daily reward: two updates
  over five days (three updates over four days were checked as well).
  Referrals: one user, three updates.

### Fairness

* Locks: a woken waiter runs again and a critical section, which awaits only the
  database, ends (`Resume`, `Leave`).  Nobody has to start anything.
* Number orders: the scheduler restarts the monitor for ever, so a step it can
  take is taken (`Poll`, as a whole: no branch of a choice is favoured); a
  handler that began goes on; deadlines pass.  Messages need not arrive, presses
  need not happen.  `CheckStatus` may fail on every pass, and the deadline still
  ends the order.
* Product orders: as number orders; in addition a provider that is asked again
  and again is done at some time (strong fairness of the three final answers),
  because the code has no deadline for an order a provider never finishes.
* Watches: the scheduler starts the job every ten minutes, and a pass that began
  goes on (`Pass`).  Nobody has to change anything, and failures are bounded.
* Top-ups: the same for the monitor and the handlers that began.  Plisio need
  not answer "paid".

`PaymentIsKept` and `NobodyIsForgotten` are the safety under `PaymentIsCredited`
and `Settled` and need no fairness: nothing that still has to happen is put where
nobody would do it.

`Settled` excuses a purchase or refund that a restart cut in two (the hazards at
`handlers/numbers.py:316` and `tasks/order_monitor.py:210` say what is lost
then), and in `ProductOrders` a purchase that an error other than
`ProtocolError` ended (`services/checkout_service.py:142`) or the failed refund
of `products_coupon`; `PaymentIsCredited` excuses a user who cancels and a last check that
fails (`TopUpsRetry.cfg`), and speaks of payments complete at Plisio, not of those
it is still confirming.

## 4. Theorems

All proofs are by an inductive invariant `IInv`: `Init` implies it, `Next` and
stuttering preserve it, one step per action.

* **UserLocksProofs.**  `IInv` = `TypeOK`; every lock with a queue is locked or
  woken, and a woken one is unlocked with its next owner at the head (`WakeOK`);
  a task is at most one position past its locks and what it holds is locked
  (`HeldLocked`); no object is held by two tasks (`Apart`).  Exclusion alone is
  not inductive: that nobody takes a lock between its release and the waiter's
  turn rests on `WakeOK`.  From it follow `ObjectMutex` and `NoLostWakeup`.
  `UserMutexWithoutCleanup` assumes `~Cleans` (the API process): every reference
  of a task is then still the registry's lock for that user (`Registered`), and
  exclusion of objects is exclusion of users.  With the cleanup job it is false
  (`locks_cleanup`).  `NoDeadlock` (`SomebodyGoesOn`) holds with and without it.
  The argument is the order of the ids: of the tasks that wait, take one that
  waits for the greatest id; the holder of its lock is inside, is being woken, or
  waits at a greater id, which nobody does.  That the ids of an operation ascend
  is the sort of `balance_service.py:223`; that a greatest one exists is proved
  from least elements of sets of naturals, since a direct induction over the
  tasks is out of the prover's reach.  It needs who holds what (`Queued` and
  its like: a waiting task is in the queue of its lock once, a locked lock has a
  holder), which exclusion alone does not.
* **WalletProofs.**  `IInv` adds to `TypeOK` what a task knows at each place of an
  operation (`TaskOK`): its call is one it may make, its session has the users'
  rows, and a debit past its check is covered by the copy.  `LastRowIsBalance`
  follows without any assumption on locks: the commit writes the balance and the
  row from the same copy.  `ImplementsBank` needs `Backed`: every row and every copy
  of it, however old, has a balance that the ledger states.  `JobsAddUp` needs the
  locks: `Exclusion` says that all references to the lock of a user outside
  `dropped` are to one object per process, so that two operations of a process on
  that user are not both inside, and `JobsFresh` that the copy of a job inside is the
  committed row.  `PaymentCreditedOnce` needs `Payments`: references are unique
  in the ledger, credits were written for some call, and a call that goes on to
  its end is recorded.  It assumes `OneReferencePerRecord`: calls that name the
  same related record carry the same payment reference, which the stars payments
  break (`WalletStars.cfg`).  Processes, stale copies, forgotten locks and crashes are
  unrestricted.  `RelatedCreditedOnce` has no unique constraint behind it; `Related`
  says that whoever found no row for its record still finds none when it commits
  (`Unseen`, from `Exclusion`), and that a call that goes on to its end has its row
  (`Settled`).  The assumption `OneCreditorPerRecord` is the callers' part: credits
  of one record carry a payment reference (then the constraint decides) or come
  from one process.
* **NumberOrdersProofs.**  `MoneyOK` relates the progress of a purchase to what
  was paid and returned: a refund without an order only while there is none, at
  most one that names it.  `HandlerOK` and `MonitorOK` say that whoever is about
  to write "refunded" has credited, and that the monitor's copies never show a
  code the row lacks.  `RefundedIsPaidBack` and `CashbackOnce` are inductive only
  together with them.  `NobodyIsForgotten` needs in addition `CodesOK`:
  whatever may end an order without a refund (the buttons offered with a code, a
  row or a monitor's copy that awaits a further one) is about an order that has a
  code, and codes stay.  `OneEscrow` shows step by step that a task
  takes or returns money only where `Escrow` may: whoever credits finds that
  nothing was returned yet, or returns nothing, because `add_balance` knows the
  related record.
* **TopUpsProofs.**  `Fits`: a task that is about to commit "paid" or "approved"
  has credited its top-up, and only invoices have a last check.
  `PaymentsAreKept` (`PaymentIsKept`) is not an invariant of states: it says that
  a payment once complete in time is safe from then on.  `SureInv` says what a task may be
  about to write over a USDT invoice (EXPIRED only in a last check, which began
  after the deadline; FAILED only if Plisio said so), and a payment in time makes
  its invoice `Safe`: credited, or with nobody about to write anything but a
  cancellation.  `Safe` is kept by every step.

* **ProductOrdersProofs.**  `MoneyOK` relates the progress of a purchase to its
  row and money; `StatusOK` says that a processing order was credited all or
  nothing, without which the monitor's credit could be refused after the status
  was chosen.  `MonitorOK` gives the reason why a refused partial refund may stay
  `dirty` and be committed later: the order had been credited in full, so
  whatever status is written, the money is there.  It also says that points wait
  until no turn of the monitor can still find the order failed.  `AdminOK` keeps
  administrators away from the inventory's orders, `ItemOK` says that a sold
  item is never available again, and `CouponOK` that the purchases holding a use
  belong to different users.  `PromotionUses` needs finitely many orders and an
  invariant of its own (`PromoOK`): the uses counted are at most the orders past
  `MarkUsed`.  `OneEscrow` is as for number orders, with partial refunds; a credit
  that would have another amount is refused.  `PaidOrdersAreCaredFor`
  (`NobodyIsForgotten`) is kept by every step between states that satisfy `IInv`.
  `CouponDebitsAreLostToOneself` gives the reach of the finding `products_coupon`:
  with nothing assumed about the order of events, a debit at the coupon's price
  that is neither an order nor given back belongs to a user another of whose
  purchases got past the use of the same coupon.  `GivenBack` says that a lost
  debit had the coupon's error with its owner among the users, `Uses` that each of
  them has such a purchase, and `Quiet` that only purchases that are over had an
  error.

* **CatalogueProofs.**  The two properties and the types are inductive together:
  what a pass loaded may be out of date, but it writes "deleted" only together
  with the pause of every product linked then (`Pause`), and a product can become
  active or linked later only by an administrator (`late`).  `NothingDangles` is
  the foreign keys, with every handler's copies as old as one likes.
  `SeenIsWhatWasTold` (`SeenIsTold`): between two passes a row of a watch records
  what its user was told last.  During a pass the row lags behind what was told;
  the invariant says by how much (`new` of the pass), and which users a commit
  may leave apart from their rows.  The proof found an error in the model: the
  history `apart` missed users whose row was created anew during a pass that had
  already told them.
* **MemberProofs.**  `CodesAreHonoured`: the counter, the redemptions and the
  credits change in one step, whatever the calls had read before.
  `BonusIsEarned`: an update that is paying for a user without `overlapped` is
  the only one that saw the account before its activation (`Alone`), so nothing
  was credited before it.  `StreaksAreEarned` is the longest: a row is *sound* if
  its streak is backed by events; a copy may be *overtaken* by the row in a few
  ways only, because no update lasts over half a day; and a claim whose streak
  equals the copy's leaves the row's streak, which may have become another one
  (`Spares`).
  `ServicesImplementTheirParts` shows that the composed system of `MCServices`
  implements each of its five parts, so that `ServicesAreSound` and
  `ServicesTypeCorrect` follow from the theorems of the parts.
* **DialoguesProofs.**  `DialogueInv`: for the user with one update in flight, all
  answers, those of the jobs included, are younger than the epoch the middleware
  last ended.  `AnswersAreFound` (`TextsFindTheirAnswers`) holds for every table with an
  assignment `Asked` of answers to states such that every handler that sets a
  state leaves the state's answers behind and every handler of an answer needs no
  others (`AskedAssumption`), commands sent as answers included.  `Answered` is its
  invariant: unless the dialogue is `cut`, the data hold the answers of the state,
  before, during and after each step of a handler.  An update that was captured by
  the middleware still wants the state it was chosen for (`Chosen`), so the
  command that ends the dialogue also cuts it until the state is idle again.  TLC
  evaluates the assumptions for the bot's table.

Assumptions on the constants are the named `ASSUME`s of the modules, checked by
TLC in every run.  Theorems with further hypotheses state them: `~Cleans`,
`OneReferencePerRecord`, `OneCreditorPerRecord`, finitely many orders.

**Only model-checked.**  Liveness (`EveryWaiterEnters`, `Settled` of number and
product orders, `PaymentIsCredited`, `WatcherIsTold`): proofs under fairness need
ENABLED, which the prover does not handle.  What of it is safety is proved
(`SomebodyGoesOn`, `NobodyIsForgotten`, `PaymentIsKept`, `SeenIsTold`).  Induction over
data and RECURSIVE operators are out of the prover's reach; the modules that are
proved about have none.

## 5. Plan

1. *(done)* `UserLocks`, `Wallet`/`Bank`, `NumberOrders`, `TopUps`, their proofs.
2. *(done)* `ProductOrders` and its proofs.
3. *(done)* `GiftCodes`, `Loyalty`, `Referrals`: credits with and without an
   idempotency key, by several processes and from stale copies.
4. *(done)* `Catalogue` and its proofs; `Watches`.
5. *(done)* `Dialogues`: the dialogues of users and administrators.
6. *(done)* `Escrow` and its refinements; freedom from deadlock; the safety half of
   the liveness properties; the composition of the services.
7. Next proofs: an abstract top-up that `TopUps` implements; the reach of
   the finding `dialogue_purchase`; `Refund`, `Credited` and
   `Credit` as steps of `Bank`.
8. Next models: redemption of loyalty points as a step of `Bank`; votes, reviews and
   tickets; failover between number providers; settings with a cache in each
   process; prices and exchange rates.

## 6. Not modelled

* Pages that only read: lists, details, statistics, health, the audit log's
  pages, search results, order history.
* Switches of one row by one assignment (coupons, channels, tickets, countries),
  whose only hazard, two administrators at once, ends in one of the two values.
* Layout and wording: keyboards, formatting, translations; broadcast and
  notifications beyond what a failing message does to the control flow.
* The HTTP clients of providers and payment services: choices over their
  outcomes.  Two transfers verified with one transaction number
  (`handlers/deposit_methods.py:769`) depend on Sam API's own bookkeeping.
* Prices, discounts and exchange rates: rounding and formulas over decimals,
  without state.
* The rate limit and the limit of active orders of `confirm_buy` are modelled as
  a check (`BuyCheck`); that two updates may both pass it contradicts nothing.
* Backup, seeding and migration: run once, or outside the services.
* `sms_number_bot7787_full-1.md` is a copy of an older state of the source.

Why each part is left out is noted under "components" in `PROJECT.json`.
