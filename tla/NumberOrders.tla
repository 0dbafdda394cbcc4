---------------------------- MODULE NumberOrders ----------------------------
(***************************************************************************)
(* Orders of temporary phone numbers: the purchase (handlers/numbers.py),  *)
(* the monitor that polls the number providers every fifteen seconds       *)
(* (tasks/order_monitor.py), the buttons of the user and the refund by an  *)
(* administrator (handlers/admin/number_orders.py), all concurrent in the  *)
(* bot process.  A handler reads the order once, decides on that copy, and *)
(* commits the columns it changed after further suspensions; the monitor   *)
(* keeps the copies of a whole pass.                                       *)
(*                                                                         *)
(* Money goes through BalanceService: a credit with a related record is    *)
(* given once (RelatedCreditedOnce of Wallet), so one step each.           *)
(***************************************************************************)
EXTENDS Integers, FiniteSets

CONSTANTS Orders,     \* ids of purchases of one user
          Handlers,   \* concurrent updates: buttons and admin actions
          Actions,    \* bound: per handler, the buttons it may serve
          MaxActive,  \* the setting max_active_orders
          MaxSms,     \* bound: messages a number receives
          MaxExp,     \* bound: deadlines an order goes through
          NoRow, NoCode

Buttons == {"cancel", "extra", "finish", "refund"}

ASSUME NumberOrdersAssumption ==
  /\ Actions \in [Handlers -> SUBSET Buttons]
  /\ MaxActive \in Nat \ {0} /\ MaxSms \in Nat /\ MaxExp \in Nat \ {0}
  /\ NoCode \notin Nat

VARIABLES row,      \* table number_orders, committed
          money,    \* per order: the movements of the user's balance for it
          sms,      \* per order: messages that reached the number
          passed,   \* per order: deadlines that have passed
          shown,    \* per order: the last keyboard shown with it
          buyer,    \* per order: progress of confirm_buy
          handler,  \* progress of the concurrent updates
          monitor,  \* progress of check_pending_orders
          crashed   \* the bot process has been restarted

vars == <<row, money, sms, passed, shown, buyer, handler, monitor, crashed>>

Status == {"pending", "completed", "cancelled", "expired", "refunded"}
Codes == 1 .. MaxSms
OrderRow == [status : Status, code : Codes \cup {NoCode}, extra : SUBSET Codes,
             awaiting : BOOLEAN, exp : 1 .. MaxExp, msg : BOOLEAN]
Copies == OrderRow \cup {NoRow}

ASSUME NoRowAssumption == NoRow \notin OrderRow

\* The columns a handler's copy is used for.
Seen == [status : Status, awaiting : BOOLEAN]

TypeOK ==
  /\ row \in [Orders -> Copies]
  /\ money \in [Orders -> [paid : Nat, plain : Nat, linked : Nat, cash : Nat]]
  /\ sms \in [Orders -> 0 .. MaxSms]
  /\ passed \in [Orders -> 0 .. MaxExp]
  /\ shown \in [Orders -> {"none", "actions", "code"}]
  /\ buyer \in [Orders -> {"idle", "checked", "paid", "bought", "saved",
                           "sent", "over"}]
  /\ handler \in [Handlers -> [at : {"idle", "read", "cancelled", "credited"},
                               op : Buttons \cup {"none"},
                               order : Orders \cup {NoRow},
                               copy : Seen \cup {NoRow}]]
  /\ monitor \in [at : {"idle", "loop", "checked", "expired", "refunded",
                        "delivered", "messaged"},
                  todo : SUBSET Orders, cur : Orders \cup {NoRow},
                  got : Codes \cup {NoCode}, copy : [Orders -> Copies]]
  /\ \A h \in Handlers : handler[h].at # "idle" =>
       handler[h].order \in Orders /\ handler[h].copy \in Seen
  /\ crashed \in BOOLEAN

NoTask == [at |-> "idle", op |-> "none", order |-> NoRow, copy |-> NoRow]
Resting == [at |-> "idle", todo |-> {}, cur |-> NoRow, got |-> NoCode,
            copy |-> [o \in Orders |-> NoRow]]

Init ==
  /\ row = [o \in Orders |-> NoRow]
  /\ money = [o \in Orders |-> [paid |-> 0, plain |-> 0, linked |-> 0,
                                cash |-> 0]]
  /\ sms = [o \in Orders |-> 0]
  /\ passed = [o \in Orders |-> 0]
  /\ shown = [o \in Orders |-> "none"]
  /\ buyer = [o \in Orders |-> "idle"]
  /\ handler = [h \in Handlers |-> NoTask]
  /\ monitor = Resting
  /\ crashed = FALSE

-----------------------------------------------------------------------------
(* The database and the balance.                                           *)

Exists(o) == row[o] # NoRow
Pending(o) == Exists(o) /\ row[o].status = "pending"
HasCode(o) == Exists(o) /\ row[o].code # NoCode

\* session.commit: the UPDATE sets the columns that differ from the copy the
\* session loaded, whatever the row has become meanwhile.
Saved(o, copy, new) ==
  [f \in DOMAIN row[o] |-> IF f \in DOMAIN new /\ new[f] # copy[f]
                             THEN new[f] ELSE row[o][f]]
Save(o, copy, new) == row' = [row EXCEPT ![o] = Saved(o, copy, new)]

\* Mutated `Refund': the credit does not name the order it belongs to.
RefundUnlinked(o) == money' = [money EXCEPT ![o].linked = money[o].linked + 1]

\* add_balance(REFUND, related_table="number_orders", related_id=o).
Refund(o) ==
  money' = [money EXCEPT ![o].linked =
              IF money[o].linked > 0 THEN money[o].linked
                                     ELSE money[o].linked + 1]

\* Mutated `Cashback': neither the log nor the ledger is consulted.
CashbackAgain(o) == money' = [money EXCEPT ![o].cash = money[o].cash + 1]

\* apply_cashback: once per order, by its log and by the related record; the
\* percentage may be zero.
Cashback(o) ==
  \/ money[o].cash = 0 /\ money' = [money EXCEPT ![o].cash = 1]
  \/ UNCHANGED money

-----------------------------------------------------------------------------
(* confirm_buy.                                                            *)

Buying(o, from, to) ==
  buyer[o] = from /\ buyer' = [buyer EXCEPT ![o] = to]

\* _check_active_orders_limit, after which the price is asked for.
BuyCheck(o) ==
  /\ Buying(o, "idle", "checked")
  /\ Cardinality({p \in Orders : Pending(p)}) < MaxActive
  /\ UNCHANGED <<row, money, sms, passed, shown, handler, monitor, crashed>>

\* deduct_balance, which may find the balance insufficient.
BuyDeduct(o) ==
  /\ \/ /\ Buying(o, "checked", "paid")
        /\ money' = [money EXCEPT ![o].paid = money[o].paid + 1]
     \/ Buying(o, "checked", "over") /\ UNCHANGED money
  /\ UNCHANGED <<row, sms, passed, shown, handler, monitor, crashed>>

\* provider_manager.buy_number: a number, or an error and a refund that names
\* no order since there is none yet.
BuyNumber(o) ==
  /\ \/ Buying(o, "paid", "bought") /\ UNCHANGED money
     \/ /\ Buying(o, "paid", "over")
        /\ money' = [money EXCEPT ![o].plain = money[o].plain + 1]
  /\ UNCHANGED <<row, sms, passed, shown, handler, monitor, crashed>>

BuySave(o) ==
  /\ Buying(o, "bought", "saved")
  /\ row' = [row EXCEPT ![o] = [status |-> "pending", code |-> NoCode,
               extra |-> {}, awaiting |-> FALSE, exp |-> 1, msg |-> FALSE]]
  /\ UNCHANGED <<money, sms, passed, shown, handler, monitor, crashed>>

\* The waiting message with its buttons; sending it may fail.
BuySend(o) ==
  /\ \/ Buying(o, "saved", "sent") /\ shown' = [shown EXCEPT ![o] = "actions"]
     \/ Buying(o, "saved", "over") /\ UNCHANGED shown
  /\ UNCHANGED <<row, money, sms, passed, handler, monitor, crashed>>

BuyMessage(o) ==
  /\ Buying(o, "sent", "over")
  /\ row' = [row EXCEPT ![o].msg = TRUE]
  /\ UNCHANGED <<money, sms, passed, shown, handler, monitor, crashed>>

Buy(o) == \/ BuyCheck(o) \/ BuyDeduct(o) \/ BuyNumber(o)
          \/ BuySave(o) \/ BuySend(o) \/ BuyMessage(o)

-----------------------------------------------------------------------------
(* The buttons and the administrator: read, decide on the copy, commit.    *)

Move(h, at) == handler' = [handler EXCEPT ![h].at = at]

\* The commits of a handler show in its own copy as well.
Update(h, at, new) ==
  LET o == handler[h].order IN
    /\ Save(o, handler[h].copy, new)
    /\ handler' = [handler EXCEPT ![h].at = at, ![h].copy = new]

Finished(h, new) ==
  /\ Save(handler[h].order, handler[h].copy, new)
  /\ handler' = [handler EXCEPT ![h] = NoTask]

Doing(h, op, at) == handler[h].op = op /\ handler[h].at = at

\* Mutated `Offered': the waiting message already has the buttons that go
\* with a code.
OfferedAtOnce(o, op) ==
  \/ op \in {"cancel", "extra", "finish"} /\ shown[o] # "none"
  \/ op = "refund"

\* Which buttons a user can have pressed: a press may arrive late.
Offered(o, op) ==
  \/ op = "cancel" /\ shown[o] # "none"
  \/ op \in {"extra", "finish"} /\ shown[o] = "code"
  \/ op = "refund"                      \* the administrator's panel

\* session.get, and the status guard that cancel and refund have.
Press(h) ==
  /\ handler[h].at = "idle"
  /\ \E o \in Orders, op \in Actions[h] :
       /\ Exists(o) /\ Offered(o, op)
       /\ op \in {"cancel", "refund"} => row[o].status = "pending"
       /\ handler' = [handler EXCEPT ![h] =
            [at |-> "read", op |-> op, order |-> o,
             copy |-> [status |-> row[o].status, awaiting |-> row[o].awaiting]]]
  /\ UNCHANGED <<row, money, sms, passed, shown, buyer, monitor, crashed>>

\* Mutated `CancelOrder': the final status is written before the credit.
CancelOrderMarked(h) ==
  /\ Doing(h, "cancel", "read")
  /\ Update(h, "cancelled", [handler[h].copy EXCEPT !.status = "refunded"])
  /\ UNCHANGED <<money, sms, passed, shown, buyer, monitor, crashed>>

\* cancel_order_manual: cancel at the provider, whatever it answers, commit.
CancelOrder(h) ==
  /\ Doing(h, "cancel", "read")
  /\ Update(h, "cancelled", [handler[h].copy EXCEPT !.status = "cancelled"])
  /\ UNCHANGED <<money, sms, passed, shown, buyer, monitor, crashed>>

CancelCredit(h) ==
  /\ Doing(h, "cancel", "cancelled")
  /\ Refund(handler[h].order)
  /\ Move(h, "credited")
  /\ UNCHANGED <<row, sms, passed, shown, buyer, monitor, crashed>>

\* number_order_refund: the credit comes first.
RefundCredit(h) ==
  /\ Doing(h, "refund", "read")
  /\ Refund(handler[h].order)
  /\ Move(h, "credited")
  /\ UNCHANGED <<row, sms, passed, shown, buyer, monitor, crashed>>

\* Both end with the status of a refunded order.
MarkRefunded(h) ==
  /\ handler[h].at = "credited"
  /\ Finished(h, [handler[h].copy EXCEPT !.status = "refunded"])
  /\ UNCHANGED <<money, sms, passed, shown, buyer, monitor, crashed>>

\* wait_extra_code: no guard on the status; a new deadline is always written.
ExtraCode(h) ==
  LET o == handler[h].order
      new == [status |-> "pending", awaiting |-> TRUE] IN
    /\ Doing(h, "extra", "read") /\ passed[o] < MaxExp
    /\ row' = [row EXCEPT ![o] = [Saved(o, handler[h].copy, new)
                                   EXCEPT !.exp = passed[o] + 1]]
    /\ handler' = [handler EXCEPT ![h] = NoTask]
    /\ UNCHANGED <<money, sms, passed, shown, buyer, monitor, crashed>>

\* finish_order_manual.
FinishOrder(h) ==
  LET copy == handler[h].copy IN
    /\ Doing(h, "finish", "read")
    /\ Finished(h, [copy EXCEPT !.awaiting = FALSE,
         !.status = IF copy.status = "pending" THEN "completed" ELSE copy.status])
    /\ UNCHANGED <<money, sms, passed, shown, buyer, monitor, crashed>>

Handle(h) == \/ CancelOrder(h) \/ CancelCredit(h) \/ RefundCredit(h)
             \/ MarkRefunded(h) \/ ExtraCode(h) \/ FinishOrder(h)

-----------------------------------------------------------------------------
(* check_pending_orders: a pass over the copies of one query.              *)

\* One job at a time: the scheduler starts no second instance.
Snapshot ==
  /\ monitor.at = "idle"
  /\ monitor' = [monitor EXCEPT !.at = "loop",
       !.todo = {o \in Orders : Pending(o)},
       !.copy = [o \in Orders |-> IF Pending(o) THEN row[o] ELSE NoRow]]
  /\ UNCHANGED <<row, money, sms, passed, shown, buyer, handler, crashed>>

PassEnds ==
  /\ monitor.at = "loop" /\ monitor.todo = {}
  /\ monitor' = Resting
  /\ UNCHANGED <<row, money, sms, passed, shown, buyer, handler, crashed>>

Late(copy, o) == copy.exp <= passed[o]

\* The monitor is done with an order of this pass.
DoneWith(o) == [monitor EXCEPT !.at = "loop", !.todo = monitor.todo \ {o},
                  !.cur = NoRow, !.got = NoCode, !.copy[o] = NoRow]

\* The monitor's commit, and where it goes on.
Write(o, at, new) ==
  /\ Save(o, monitor.copy[o], new)
  /\ monitor' = IF at = "loop" THEN DoneWith(o)
                 ELSE [monitor EXCEPT !.at = at, !.cur = o, !.copy[o] = new]

\* The deadline of an order that waits for a further code has passed.
StopWaiting(o) ==
  LET copy == monitor.copy[o] IN
    /\ monitor.at = "loop" /\ o \in monitor.todo
    /\ Late(copy, o) /\ copy.awaiting
    /\ Write(o, "loop", [copy EXCEPT !.status = "completed",
                                     !.awaiting = FALSE])
    /\ UNCHANGED <<money, sms, passed, shown, buyer, handler, crashed>>

\* _expire_and_refund: EXPIRED is committed before the user is credited.
Expire(o) ==
  /\ Write(o, "expired", [monitor.copy[o] EXCEPT !.status = "expired"])
  /\ UNCHANGED <<money, sms, passed, shown, buyer, handler, crashed>>

ExpireLate(o) ==
  /\ monitor.at = "loop" /\ o \in monitor.todo
  /\ Late(monitor.copy[o], o) /\ ~monitor.copy[o].awaiting
  /\ Expire(o)

\* The countdown is edited and the provider asked; either may fail, and the
\* order is left to the next pass.
CheckStatus(o) ==
  /\ monitor.at = "loop" /\ o \in monitor.todo
  /\ ~Late(monitor.copy[o], o)
  /\ \/ monitor' = DoneWith(o)
     \/ monitor' = [monitor EXCEPT !.at = "checked", !.cur = o, !.got = NoCode]
     \/ /\ sms[o] > 0
        \* fivesim.py:134 reads the first message, the others the latest
        /\ \E code \in {1, sms[o]} :
             monitor' = [monitor EXCEPT !.at = "checked", !.cur = o, !.got = code]
  /\ UNCHANGED <<row, money, sms, passed, shown, buyer, handler, crashed>>

\* The provider reports that the order is cancelled.
ProviderCancelled(o) ==
  /\ monitor.at = "checked" /\ monitor.cur = o /\ monitor.got = NoCode
  /\ Expire(o)

\* Mutated `ExpireCredit': an error of the provider's cancellation ends the
\* order's turn before the credit.
ExpireCreditLost ==
  /\ monitor.at = "expired"
  /\ \/ Refund(monitor.cur) /\ monitor' = [monitor EXCEPT !.at = "refunded"]
     \/ UNCHANGED money /\ monitor' = DoneWith(monitor.cur)
  /\ UNCHANGED <<row, sms, passed, shown, buyer, handler, crashed>>

\* The credit of _expire_and_refund, after the provider was told.
ExpireCredit ==
  /\ monitor.at = "expired"
  /\ Refund(monitor.cur)
  /\ monitor' = [monitor EXCEPT !.at = "refunded"]
  /\ UNCHANGED <<row, sms, passed, shown, buyer, handler, crashed>>

ExpireMark ==
  /\ monitor.at = "refunded"
  /\ Write(monitor.cur, "loop",
           [monitor.copy[monitor.cur] EXCEPT !.status = "refunded"])
  /\ UNCHANGED <<money, sms, passed, shown, buyer, handler, crashed>>

Awaited(copy) == copy.code # NoCode /\ copy.awaiting

\* A code for an order that has one and waits for another.
FurtherCode(o) ==
  LET copy == monitor.copy[o] IN
    /\ monitor.at = "checked" /\ monitor.cur = o /\ monitor.got # NoCode
    /\ Awaited(copy)
    /\ \/ /\ monitor.got \notin copy.extra
          /\ Write(o, "loop",
                   [copy EXCEPT !.extra = copy.extra \cup {monitor.got},
                                !.awaiting = FALSE, !.status = "completed"])
       \/ /\ monitor.got \in copy.extra
          /\ monitor' = DoneWith(o)
          /\ UNCHANGED row
    /\ UNCHANGED <<money, sms, passed, shown, buyer, handler, crashed>>

\* The code the user paid for.
FirstCode(o) ==
  LET copy == monitor.copy[o] IN
    /\ monitor.at = "checked" /\ monitor.cur = o /\ monitor.got # NoCode
    /\ ~Awaited(copy)
    /\ Write(o, "delivered", [copy EXCEPT !.status = "completed",
                                          !.code = monitor.got])
    /\ UNCHANGED <<money, sms, passed, shown, buyer, handler, crashed>>

\* The message with the code: edited in place with the buttons for a further
\* code, sent anew without them, or failed, which ends the order's turn.
Deliver ==
  /\ monitor.at = "delivered"
  /\ \/ /\ monitor.copy[monitor.cur].msg
        /\ shown' = [shown EXCEPT ![monitor.cur] = "code"]
        /\ monitor' = [monitor EXCEPT !.at = "messaged"]
     \/ monitor' = [monitor EXCEPT !.at = "messaged"] /\ UNCHANGED shown
     \/ /\ monitor.copy[monitor.cur].msg
        /\ monitor' = DoneWith(monitor.cur) /\ UNCHANGED shown
  /\ UNCHANGED <<row, money, sms, passed, buyer, handler, crashed>>

\* Cashback; the loyalty points that follow are not modelled here.
Reward ==
  /\ monitor.at = "messaged"
  /\ Cashback(monitor.cur)
  /\ monitor' = DoneWith(monitor.cur)
  /\ UNCHANGED <<row, sms, passed, shown, buyer, handler, crashed>>

Poll ==
  \/ Snapshot \/ PassEnds \/ ExpireCredit \/ ExpireMark \/ Deliver \/ Reward
  \/ \E o \in Orders :
       \/ StopWaiting(o) \/ ExpireLate(o) \/ CheckStatus(o)
       \/ ProviderCancelled(o) \/ FurtherCode(o) \/ FirstCode(o)

-----------------------------------------------------------------------------
(* The environment.                                                        *)

\* A message reaches a number that was bought.
SmsArrives(o) ==
  /\ buyer[o] \in {"bought", "saved", "sent", "over"} /\ Exists(o)
  /\ sms[o] < MaxSms
  /\ sms' = [sms EXCEPT ![o] = sms[o] + 1]
  /\ UNCHANGED <<row, money, passed, shown, buyer, handler, monitor, crashed>>

\* Time: the deadline stored with the order passes.
DeadlinePasses(o) ==
  /\ Exists(o) /\ passed[o] < row[o].exp
  /\ passed' = [passed EXCEPT ![o] = passed[o] + 1]
  /\ UNCHANGED <<row, money, sms, shown, buyer, handler, monitor, crashed>>

\* The bot process is restarted, once: only the database survives.
Crash ==
  /\ ~crashed /\ crashed' = TRUE
  /\ buyer' = [o \in Orders |-> IF buyer[o] = "idle" THEN "idle" ELSE "over"]
  /\ handler' = [h \in Handlers |-> NoTask]
  /\ monitor' = Resting
  /\ UNCHANGED <<row, money, sms, passed, shown>>

Next ==
  \/ \E o \in Orders : Buy(o) \/ SmsArrives(o) \/ DeadlinePasses(o)
  \/ \E h \in Handlers : Press(h) \/ Handle(h)
  \/ Poll
  \/ Crash

Spec == Init /\ [][Next]_vars

\* The scheduler restarts the monitor every fifteen seconds and its calls
\* return; handlers that have begun go on; time passes.
Fairness ==
  /\ WF_vars(Poll)
  /\ \A o \in Orders : /\ WF_vars(DeadlinePasses(o))
                       /\ WF_vars(Buy(o) /\ buyer[o] # "idle")
  /\ \A h \in Handlers : WF_vars(Handle(h))

FairSpec == Spec /\ Fairness

-----------------------------------------------------------------------------
(* What buyers and the operator rely on.                                   *)

\* Nobody gets more back than was paid, although the monitor, the user and an
\* administrator may refund the same order at the same time and an order may
\* be reopened after it was refunded (numbers.py:465, order_monitor.py:222,
\* admin/number_orders.py:197, numbers.py:337).
NeverOverRefunded ==
  \A o \in Orders : money[o].plain + money[o].linked <= money[o].paid

\* To the buyer's account all of it is one escrow: the price is taken once and
\* given back at most once, although a refund may be tried by the purchase, the
\* monitor, the user and an administrator, and again after an order was reopened
\* (numbers.py:337, 469, order_monitor.py:222, admin/number_orders.py:197).
Account == INSTANCE Escrow WITH Price <- 1,
  paid <- [o \in Orders |-> money[o].paid],
  back <- [o \in Orders |-> money[o].plain + money[o].linked]
ImplementsEscrow == Account!Spec

\* An order shown as refunded has been credited, even if another task was
\* writing its status at the time.
RefundedIsPaidBack ==
  \A o \in Orders :
    Exists(o) /\ row[o].status = "refunded" => money[o].linked = 1

\* Cashback is given at most once per order and only for a delivered code,
\* whatever reopens the order (cashback_service.py:46-54).
CashbackOnce ==
  \A o \in Orders :
    money[o].cash > 0 => money[o].cash = 1 /\ row[o].code # NoCode

\* A further code is a new one ("the extra code has arrived",
\* order_monitor.py:101).
ExtraCodeIsNew ==
  \A o \in Orders : Exists(o) => row[o].code \notin row[o].extra

\* Until the process is restarted nobody who has paid is forgotten: as long as
\* there is neither a code nor a refund, the purchase is under way, the order
\* is PENDING, so that the next pass finds it, or the task that ended it is
\* about to credit it.  A commit that writes a stale status over another
\* task's, and buttons pressed late, must not leave an order nobody looks at
\* (order_monitor.py:38, numbers.py:465, 500, 537).
Owed(o) == money[o].paid > money[o].plain + money[o].linked
CaredFor(o) ==
  \/ buyer[o] \in {"paid", "bought"}
  \/ Pending(o)
  \/ monitor.at = "expired" /\ monitor.cur = o
  \/ \E h \in Handlers : handler[h].at = "cancelled" /\ handler[h].order = o

NobodyIsForgotten ==
  ~crashed => \A o \in Orders : Owed(o) /\ ~HasCode(o) => CaredFor(o)

\* Who has paid gets a code or the money back, unless the process was
\* restarted between two commits of one purchase or refund.
Settled ==
  \A o \in Orders :
    money[o].paid > 0 ~> \/ money[o].plain + money[o].linked > 0
                         \/ HasCode(o)
                         \/ crashed
=============================================================================
