---------------------------- MODULE ProductOrders ----------------------------
(***************************************************************************)
(* Orders of products: bought in the bot (handlers/games.py) or over HTTP  *)
(* (services/checkout_service.py) from a provider, or delivered at once    *)
(* from the digital inventory; with a coupon or a promotion; followed by   *)
(* the job tasks/unified_order_monitor.py and by administrators            *)
(* (handlers/admin/orders.py, handlers/admin/inventory.py).                *)
(*                                                                         *)
(* Every commit and every call that suspends is a step.  A monitor's pass  *)
(* and an administrator decide on the row as they loaded it and write      *)
(* their status over whatever it has become.  Money is counted in prices   *)
(* of one piece, Quantity of them an order; a movement of the balance is   *)
(* one step (Wallet).                                                      *)
(***************************************************************************)
EXTENDS Integers, FiniteSets

CONSTANTS Orders,     \* purchases
          Users,      \* buyers
          Items,      \* ids of the inventory of one product
          Admins,     \* concurrent updates of administrators
          Quantity,   \* pieces of an order
          MaxPromo,   \* max_uses of the promotion, 0 for no limit
          MaxFaults,  \* bound: failures of providers and calls
          Scenarios,  \* bound: who buys how, and what administrators do
          NoRow

Ops == {"complete", "refund", "void"}
Scenario == [asks : [Orders -> [kind : {"none", "bot", "http", "item"},
                                owner : Users]],
             desk : [Admins -> SUBSET Ops],
             uses : Nat,       \* max_uses of the coupon
             sale : BOOLEAN]   \* the products have a promotion

ASSUME ProductOrdersAssumption ==
  /\ Items \subseteq Nat
  /\ Scenarios \subseteq Scenario
  /\ Quantity \in Nat \ {0} /\ MaxPromo \in Nat /\ MaxFaults \in Nat
  /\ NoRow \notin Orders \cup Items

VARIABLES scenario,  \* what users and administrators set out to do
          row,       \* table unified_orders
          money,     \* per order: movements of the buyer's balance for it
          rewards,   \* per order: sales counted, cashback, loyalty points
          coupon,    \* used_count of the coupon and its coupon_usages
          promo,     \* used_count of the promotion
          item,      \* table digital_inventory_items
          buyer,     \* per order: progress of the purchase
          admin,     \* progress of the administrators
          monitor,   \* progress of check_unified_orders
          faults,    \* failures so far
          trouble,   \* per order: history, the error that ended its purchase
          crashed    \* the processes have been restarted

vars == <<scenario, row, money, rewards, coupon, promo, item, buyer, admin,
          monitor, faults, trouble, crashed>>
shop == <<scenario, coupon, promo, buyer, trouble, crashed>>
others == <<scenario, admin, monitor, crashed>>
desk == <<row, others>>

Status == {"processing", "completed", "partial", "failed", "refunded"}
OrderRow == [status : Status, remains : 0 .. Quantity, promo : BOOLEAN]

ASSUME NoRowAssumption == NoRow \notin OrderRow

TypeOK ==
  /\ scenario \in Scenarios
  /\ row \in [Orders -> OrderRow \cup {NoRow}]
  /\ money \in [Orders -> [paid : Nat, plain : Nat, linked : Nat]]
  /\ rewards \in [Orders -> [sold : Nat, cash : Nat, points : Nat]]
  /\ coupon \in [used : Nat, by : SUBSET Users]
  /\ promo \in Nat
  /\ item \in [Items -> [status : {"available", "sold", "void"},
                         order : Orders \cup {NoRow}]]
  /\ buyer \in [Orders -> [at : {"idle", "quoted", "picked", "paid", "applied",
                                 "refunding", "placed", "saved", "marked",
                                 "over"},
                           disc : {"none", "promo", "coupon"},
                           item : Items \cup {NoRow}]]
  /\ admin \in [Admins -> [at : {"idle", "read", "credited"},
                           op : Ops \cup {"none"},
                           id : Orders \cup Items \cup {NoRow}]]
  /\ monitor \in [at : {"idle", "loop", "completed", "failed", "credited"},
                  todo : SUBSET Orders, cur : Orders \cup {NoRow},
                  dirty : [Orders -> 0 .. Quantity]]
  /\ faults \in 0 .. MaxFaults
  /\ trouble \in [Orders -> {"none", "provider", "coupon"}]
  /\ crashed \in BOOLEAN

NoTask == [at |-> "idle", op |-> "none", id |-> NoRow]
Clean == [o \in Orders |-> 0]
Resting == [at |-> "idle", todo |-> {}, cur |-> NoRow, dirty |-> Clean]

Init ==
  /\ scenario \in Scenarios
  /\ row = [o \in Orders |-> NoRow]
  /\ money = [o \in Orders |-> [paid |-> 0, plain |-> 0, linked |-> 0]]
  /\ rewards = [o \in Orders |-> [sold |-> 0, cash |-> 0, points |-> 0]]
  /\ coupon = [used |-> 0, by |-> {}]
  /\ promo = 0
  /\ item = [i \in Items |-> [status |-> "available", order |-> NoRow]]
  /\ buyer = [o \in Orders |-> [at |-> "idle", disc |-> "none", item |-> NoRow]]
  /\ admin = [a \in Admins |-> NoTask]
  /\ monitor = Resting
  /\ faults = 0
  /\ trouble = [o \in Orders |-> "none"]
  /\ crashed = FALSE

Exists(o) == row[o] # NoRow
Kind(o) == scenario.asks[o].kind
Owner(o) == scenario.asks[o].owner

-----------------------------------------------------------------------------
(* Services.                                                               *)

\* add_balance(REFUND) naming the order; without that one it would be refused,
\* see Refused.
CreditAgain(o, amount) ==
  money' = [money EXCEPT ![o].linked = money[o].linked + amount]

\* add_balance(REFUND, related_table="unified_orders", related_id=o): a second
\* one of the same amount does nothing.
Credit(o, amount) ==
  /\ money[o].linked \in {0, amount}
  /\ money' = [money EXCEPT ![o].linked = amount]

\* One of another amount raises ValueError.
Refused(o, amount) == money[o].linked \notin {0, amount}

CouponOpen == coupon.used < scenario.uses
CouponValid(o) == CouponOpen /\ Owner(o) \notin coupon.by
PromoOpen == scenario.sale /\ (MaxPromo = 0 \/ promo < MaxPromo)

\* A sale is counted each time; cashback and points are given once per order, by
\* its related record and its event key.  Their rates are taken to be positive.
Reward(o, cash, points) ==
  rewards' = [rewards EXCEPT ![o] =
    [sold |-> rewards[o].sold + 1,
     cash |-> IF cash > 0 THEN 1 ELSE rewards[o].cash,
     points |-> IF points > 0 THEN 1 ELSE rewards[o].points]]

-----------------------------------------------------------------------------
(* The purchase.                                                           *)

Buying(o, from, to) ==
  buyer[o].at = from /\ buyer' = [buyer EXCEPT ![o].at = to]

\* get_best_promotion and validate_coupon: the better of the two, if either is
\* valid (they may be inactive or expired); only the bot takes coupons, and
\* not for the inventory.
Quote(o) ==
  /\ buyer[o].at = "idle" /\ Kind(o) # "none"
  /\ \E disc \in {"none", "promo", "coupon"} :
       /\ disc = "promo" => PromoOpen
       /\ disc = "coupon" => Kind(o) = "bot" /\ CouponValid(o)
       /\ buyer' = [buyer EXCEPT ![o].at = "quoted", ![o].disc = disc]
  /\ UNCHANGED <<desk, money, rewards, coupon, promo, item, faults, trouble>>

\* deduct_balance, which may find the balance insufficient.
Deduct(o) ==
  /\ Kind(o) # "item"
  /\ \/ /\ Buying(o, "quoted", "paid")
        /\ money' = [money EXCEPT ![o].paid = money[o].paid + Quantity]
     \/ Buying(o, "quoted", "over") /\ UNCHANGED money
  /\ UNCHANGED <<desk, rewards, coupon, promo, item, faults, trouble>>

\* Mutated `ApplyCoupon': the use is counted without asking whether one is left.
ApplyCouponUnguarded(o) ==
  /\ buyer[o].disc = "coupon" /\ Owner(o) \notin coupon.by
  /\ Buying(o, "paid", "applied")
  /\ coupon' = [used |-> coupon.used + 1, by |-> coupon.by \cup {Owner(o)}]
  /\ UNCHANGED <<desk, money, rewards, promo, item, faults, trouble>>

\* Mutated `ApplyCoupon': whatever has become of the coupon, the update that
\* takes no use is answered with a rollback of the session.
ApplyCouponRollsBack(o) ==
  /\ buyer[o].disc = "coupon"
  /\ \/ /\ CouponValid(o)
        /\ Buying(o, "paid", "applied")
        /\ coupon' = [used |-> coupon.used + 1, by |-> coupon.by \cup {Owner(o)}]
        /\ UNCHANGED trouble
     \/ /\ ~CouponValid(o)
        /\ Buying(o, "paid", "over")
        /\ trouble' = [trouble EXCEPT ![o] = "coupon"]
        /\ UNCHANGED coupon
  /\ UNCHANGED <<desk, money, rewards, promo, item, faults>>

\* apply_coupon: the guarded UPDATE and the usage in one commit.  The use may
\* be gone or the coupon deactivated, and the debit is given back.  If only the
\* usage of this user exists already, the commit fails and is rolled back,
\* which expires every object of the session: `db_user.id' in the refund's
\* arguments raises, and the handler ends.
ApplyCoupon(o) ==
  /\ buyer[o].disc = "coupon"
  /\ \/ /\ CouponValid(o)
        /\ Buying(o, "paid", "applied")
        /\ coupon' = [used |-> coupon.used + 1, by |-> coupon.by \cup {Owner(o)}]
        /\ UNCHANGED trouble
     \/ /\ Buying(o, "paid", "refunding")
        /\ UNCHANGED <<coupon, trouble>>
     \/ /\ CouponOpen /\ Owner(o) \in coupon.by
        /\ Buying(o, "paid", "over")
        /\ trouble' = [trouble EXCEPT ![o] = "coupon"]
        /\ UNCHANGED coupon
  /\ UNCHANGED <<desk, money, rewards, promo, item, faults>>

\* place_order: accepted; a ProtocolError; or any other exception, which ends
\* the purchase and keeps the debit.
PlaceOrder(o) ==
  /\ \E from \in {"paid", "applied"} :
       /\ from = "applied" <=> buyer[o].disc = "coupon"
       /\ \/ Buying(o, from, "placed") /\ UNCHANGED <<faults, trouble>>
          \/ Buying(o, from, "refunding") /\ UNCHANGED <<faults, trouble>>
          \/ /\ Buying(o, from, "over")
             /\ faults < MaxFaults /\ faults' = faults + 1
             /\ trouble' = [trouble EXCEPT ![o] = "provider"]
  /\ UNCHANGED <<desk, money, rewards, coupon, promo, item>>

\* Mutated `RefundBuyer': the handler goes on after the refund.
RefundBuyerGoesOn(o) ==
  /\ Buying(o, "refunding", "marked")
  /\ money' = [money EXCEPT ![o].plain = money[o].plain + Quantity]
  /\ UNCHANGED <<desk, rewards, coupon, promo, item, faults, trouble>>

\* The refund of a purchase that never became an order; it can name none.
RefundBuyer(o) ==
  /\ Buying(o, "refunding", "over")
  /\ money' = [money EXCEPT ![o].plain = money[o].plain + Quantity]
  /\ UNCHANGED <<desk, rewards, coupon, promo, item, faults, trouble>>

NewRow(o, status) == [status |-> status, remains |-> 0,
                      promo |-> buyer[o].disc = "promo"]

SaveOrder(o) ==
  /\ Buying(o, "placed", "saved")
  /\ row' = [row EXCEPT ![o] = NewRow(o, "processing")]
  /\ UNCHANGED <<others, money, rewards, coupon, promo, item, faults, trouble>>

\* InventoryService.purchase: the first available item is selected; there may
\* be none, or the balance be insufficient.
PickItem(o) ==
  /\ Kind(o) = "item"
  /\ \/ /\ buyer[o].at = "quoted"
        /\ \E i \in Items :
             /\ item[i].status = "available"
             /\ \A j \in Items : item[j].status = "available" => i <= j
             /\ buyer' = [buyer EXCEPT ![o].at = "picked", ![o].item = i]
     \/ Buying(o, "quoted", "over")
  /\ UNCHANGED <<desk, money, rewards, coupon, promo, item, faults, trouble>>

\* Mutated `ReserveItem': the item is taken whatever has become of it.
ReserveItemBlindly(o) ==
  /\ Buying(o, "picked", "saved")
  /\ item' = [item EXCEPT ![buyer[o].item] = [status |-> "sold", order |-> o]]
  /\ row' = [row EXCEPT ![o] = NewRow(o, "completed")]
  /\ money' = [money EXCEPT ![o].paid = money[o].paid + Quantity]
  /\ UNCHANGED <<others, rewards, coupon, promo, faults, trouble>>

\* The UPDATE that reserves the item if it is still available; the debit, the
\* order and the sale are part of its transaction.  A lost race is tried again
\* (three times; PickItem may give up anyway).
ReserveItem(o) ==
  /\ \/ /\ Buying(o, "picked", "saved")
        /\ item[buyer[o].item].status = "available"
        /\ item' = [item EXCEPT ![buyer[o].item] = [status |-> "sold",
                                                    order |-> o]]
        /\ row' = [row EXCEPT ![o] = NewRow(o, "completed")]
        /\ money' = [money EXCEPT ![o].paid = money[o].paid + Quantity]
     \/ /\ Buying(o, "picked", "quoted")
        /\ item[buyer[o].item].status # "available"
        /\ UNCHANGED <<item, row, money>>
  /\ UNCHANGED <<others, rewards, coupon, promo, faults, trouble>>

\* Mutated `MarkUsed': the use is counted for an order without the promotion.
MarkUsedAlways(o) ==
  /\ Buying(o, "saved", IF Kind(o) = "http" THEN "over" ELSE "marked")
  /\ PromoOpen /\ promo' = promo + 1
  /\ UNCHANGED <<desk, money, rewards, coupon, item, faults, trouble>>

\* mark_used counts the use of a promotion that is still open and active; the
\* callers do not look at its answer.
MarkUsed(o) ==
  /\ Buying(o, "saved", IF Kind(o) = "http" THEN "over" ELSE "marked")
  /\ \/ buyer[o].disc = "promo" /\ PromoOpen /\ promo' = promo + 1
     \/ UNCHANGED promo
  /\ UNCHANGED <<desk, money, rewards, coupon, item, faults, trouble>>

\* increment_product_sold, apply_cashback, and for what the inventory has
\* delivered award_purchase_points; nothing else looks at them in between.
PurchaseRewarded(o) ==
  /\ Buying(o, "marked", "over")
  /\ Reward(o, 1, IF Kind(o) = "item" THEN 1 ELSE 0)
  /\ UNCHANGED <<desk, money, coupon, promo, item, faults, trouble>>

Buy(o) ==
  \/ Deduct(o) \/ ApplyCoupon(o) \/ PlaceOrder(o) \/ RefundBuyer(o)
  \/ SaveOrder(o) \/ PickItem(o) \/ ReserveItem(o) \/ MarkUsed(o)
  \/ PurchaseRewarded(o)

-----------------------------------------------------------------------------
(* check_unified_orders: a pass over the orders of one query, in one session. *)

\* An order a provider has: only those are saved PROCESSING.
Snapshot ==
  /\ monitor.at = "idle"
  /\ monitor' = [Resting EXCEPT !.at = "loop",
       !.todo = {o \in Orders : Exists(o) /\ row[o].status = "processing"}]
  /\ UNCHANGED <<shop, row, money, rewards, item, admin, faults>>

\* The session is closed: what it has not committed is lost.
PassEnds ==
  /\ monitor.at = "loop" /\ monitor.todo = {}
  /\ monitor' = Resting
  /\ UNCHANGED <<shop, row, money, rewards, item, admin, faults>>

Turn(o) == monitor.at = "loop" /\ o \in monitor.todo

\* The monitor goes on with o, or with the next order when `at' is "loop".
Goes(o, at) ==
  [monitor EXCEPT !.at = at, !.cur = IF at = "loop" THEN NoRow ELSE o,
                  !.todo = monitor.todo \ {o}]

\* session.commit with `new' as the row of o; the session's other uncommitted
\* changes, of orders whose turn has raised, go with it.
Commit(o, at, new) ==
  /\ row' = [p \in Orders |->
       IF p = o THEN new
       ELSE IF monitor.dirty[p] > 0
         THEN [row[p] EXCEPT !.status = "partial", !.remains = monitor.dirty[p]]
         ELSE row[p]]
  /\ monitor' = [Goes(o, at) EXCEPT !.dirty = Clean]

Becomes(o, status) == [row[o] EXCEPT !.status = status]

\* Mutated `CheckFails': an order whose provider does not answer is given up.
CheckFailsForGood(o) ==
  /\ Turn(o)
  /\ faults < MaxFaults /\ faults' = faults + 1
  /\ Commit(o, "loop", Becomes(o, "failed"))
  /\ UNCHANGED <<shop, money, rewards, item, admin>>

\* The provider cannot be asked (an error of the protocol is stored with the
\* provider, any other exception is not), or is inactive.
CheckFails(o) ==
  /\ Turn(o)
  /\ faults < MaxFaults /\ faults' = faults + 1
  /\ \/ Commit(o, "loop", row[o])
     \/ monitor' = Goes(o, "loop") /\ UNCHANGED row
  /\ UNCHANGED <<shop, money, rewards, item, admin>>

\* The provider is not done.
StillProcessing(o) ==
  /\ Turn(o)
  /\ Commit(o, "loop", row[o])
  /\ UNCHANGED <<shop, money, rewards, item, admin, faults>>

\* _handle_completed.
HandleCompleted(o) ==
  /\ Turn(o)
  /\ Commit(o, "completed", Becomes(o, "completed"))
  /\ UNCHANGED <<shop, money, rewards, item, admin, faults>>

CompletedRewarded ==
  /\ monitor.at = "completed"
  /\ Reward(monitor.cur, 0, 1)
  /\ Commit(monitor.cur, "loop", row[monitor.cur])
  /\ UNCHANGED <<shop, money, item, admin, faults>>

Partial(o, left) ==
  [row[o] EXCEPT !.status = "partial", !.remains = left]

\* Mutated `HandlePartial': the status is committed before the credit.
HandlePartialInTwo(o) ==
  /\ Turn(o)
  /\ \E left \in 0 .. Quantity : Commit(o, "failed", Partial(o, left))
  /\ UNCHANGED <<shop, money, rewards, item, admin, faults>>

\* _handle_partial: the status is part of the transaction of the credit for the
\* pieces that remain.  If the order was credited otherwise, the credit raises
\* and the status waits in the session for a commit of another order's turn.
HandlePartial(o) ==
  /\ Turn(o)
  /\ \E left \in 0 .. Quantity :
       \/ /\ left = 0 /\ UNCHANGED money
          /\ Commit(o, "loop", Partial(o, left))
       \/ /\ left > 0 /\ Credit(o, left)
          /\ Commit(o, "loop", Partial(o, left))
       \/ /\ left > 0 /\ Refused(o, left)
          /\ monitor' = [Goes(o, "loop") EXCEPT !.dirty[o] = left]
          /\ UNCHANGED <<row, money>>
  /\ UNCHANGED <<shop, rewards, item, admin, faults>>

\* Mutated `HandleFailed': the order is marked refunded before the credit.
HandleFailedMarked(o) ==
  /\ Turn(o)
  /\ Commit(o, "failed", Becomes(o, "refunded"))
  /\ UNCHANGED <<shop, money, rewards, item, admin, faults>>

\* _handle_failed: FAILED is committed, the price credited, REFUNDED committed.
HandleFailed(o) ==
  /\ Turn(o)
  /\ Commit(o, "failed", Becomes(o, "failed"))
  /\ UNCHANGED <<shop, money, rewards, item, admin, faults>>

\* Mutated `FailedCredit': the credit may be skipped.
FailedCreditLost ==
  /\ monitor.at = "failed"
  /\ \/ Credit(monitor.cur, Quantity) /\ Commit(monitor.cur, "credited", row[monitor.cur])
     \/ UNCHANGED <<money, row>> /\ monitor' = Goes(monitor.cur, "loop")
  /\ UNCHANGED <<shop, rewards, item, admin, faults>>

FailedCredit ==
  /\ monitor.at = "failed"
  /\ Credit(monitor.cur, Quantity)
  /\ Commit(monitor.cur, "credited", row[monitor.cur])
  /\ UNCHANGED <<shop, rewards, item, admin, faults>>

FailedRefunded ==
  /\ monitor.at = "credited"
  /\ Commit(monitor.cur, "loop", Becomes(monitor.cur, "refunded"))
  /\ UNCHANGED <<shop, money, rewards, item, admin, faults>>

Poll ==
  \/ Snapshot \/ PassEnds
  \/ CompletedRewarded \/ FailedCredit \/ FailedRefunded
  \/ \E o \in Orders :
       \/ CheckFails(o) \/ StillProcessing(o) \/ HandleCompleted(o)
       \/ HandlePartial(o) \/ HandleFailed(o)

-----------------------------------------------------------------------------
(* Administrators.                                                         *)

Begin(a, op, id) ==
  /\ admin[a].at = "idle" /\ op \in scenario.desk[a]
  /\ admin' = [admin EXCEPT ![a] = [at |-> "read", op |-> op, id |-> id]]
  /\ UNCHANGED <<shop, row, money, rewards, item, monitor, faults>>

Doing(a, op) == admin[a].at = "read" /\ admin[a].op = op

OrderCompleteRead(a, o) ==
  Exists(o) /\ row[o].status = "processing" /\ Begin(a, "complete", o)

OrderRefundRead(a, o) ==
  /\ Exists(o) /\ row[o].status \notin {"completed", "refunded"}
  /\ Begin(a, "refund", o)

VoidItemRead(a, i) == item[i].status = "available" /\ Begin(a, "void", i)

Finish(a) == admin' = [admin EXCEPT ![a] = NoTask]

OrderCompleted(a) ==
  /\ Doing(a, "complete")
  /\ row' = [row EXCEPT ![admin[a].id].status = "completed"]
  /\ Finish(a)
  /\ UNCHANGED <<shop, money, rewards, item, monitor, faults>>

OrderRefundCredit(a) ==
  /\ Doing(a, "refund")
  /\ \/ /\ Credit(admin[a].id, Quantity)
        /\ admin' = [admin EXCEPT ![a].at = "credited"]
     \/ /\ Refused(admin[a].id, Quantity)
        /\ Finish(a) /\ UNCHANGED money
  /\ UNCHANGED <<shop, row, rewards, item, monitor, faults>>

OrderRefunded(a) ==
  /\ admin[a].at = "credited"
  /\ row' = [row EXCEPT ![admin[a].id].status = "refunded"]
  /\ Finish(a)
  /\ UNCHANGED <<shop, money, rewards, item, monitor, faults>>

\* void_item writes VOID over an item that may have been sold since.
VoidItem(a) ==
  /\ Doing(a, "void")
  /\ item' = [item EXCEPT ![admin[a].id].status = "void"]
  /\ Finish(a)
  /\ UNCHANGED <<shop, row, money, rewards, monitor, faults>>

Press(a) == \/ \E o \in Orders : OrderCompleteRead(a, o) \/ OrderRefundRead(a, o)
            \/ \E i \in Items : VoidItemRead(a, i)
Handle(a) == \/ OrderCompleted(a) \/ OrderRefundCredit(a) \/ OrderRefunded(a)
             \/ VoidItem(a)

-----------------------------------------------------------------------------
(* The environment.                                                        *)

\* The bot and the HTTP server are restarted, once: the database survives.
Crash ==
  /\ ~crashed /\ crashed' = TRUE
  /\ buyer' = [o \in Orders |-> IF buyer[o].at = "idle" THEN buyer[o]
                                ELSE [buyer[o] EXCEPT !.at = "over"]]
  /\ admin' = [a \in Admins |-> NoTask]
  /\ monitor' = Resting
  /\ UNCHANGED <<scenario, row, money, rewards, coupon, promo, item, faults,
                 trouble>>

Next ==
  \/ \E o \in Orders : Quote(o) \/ Buy(o)
  \/ \E a \in Admins : Press(a) \/ Handle(a)
  \/ Poll
  \/ Crash

Spec == Init /\ [][Next]_vars

\* The scheduler starts the monitor every two minutes and purchases that have
\* begun go on; a provider asked again and again is done at some time.
Fairness ==
  /\ WF_vars(Poll)
  /\ \A o \in Orders :
       /\ WF_vars(Buy(o))
       /\ SF_vars(HandleCompleted(o) \/ HandlePartial(o) \/ HandleFailed(o))

FairSpec == Spec /\ Fairness

-----------------------------------------------------------------------------
(* What buyers and the operator rely on.                                   *)

Placed(o, status) == Exists(o) /\ row[o].status = status

\* Nobody gets more back than was paid, although the purchase, the monitor and
\* administrators all refund, in full or by the piece
\* (games.py:935, 971, unified_order_monitor.py:234, 278, admin/orders.py:243).
NeverOverRefunded ==
  \A o \in Orders : money[o].plain + money[o].linked <= money[o].paid

\* To the buyer's account all of it is one escrow: the price is taken once and
\* given back at most once, in full or by the piece, although the purchase, the
\* monitor and administrators may all try (games.py:935, 971,
\* unified_order_monitor.py:234, 278, admin/orders.py:243).
Account == INSTANCE Escrow WITH Price <- Quantity,
  paid <- [o \in Orders |-> money[o].paid],
  back <- [o \in Orders |-> money[o].plain + money[o].linked]
ImplementsEscrow == Account!Spec

\* An order shown as refunded has been credited its whole price, even if parts
\* of it had been credited or another task was writing its status.
RefundedIsPaidBack ==
  \A o \in Orders : Placed(o, "refunded") => money[o].linked = Quantity

\* An order shown as partial has been credited the pieces that remain, also
\* after a restart and when the status was committed by another order's turn.
PartialIsPaidBack ==
  \A o \in Orders : Placed(o, "partial") => money[o].linked >= row[o].remains

\* What the inventory delivered is final: the order is complete, never
\* credited, and still the only owner of its item, whoever else bought or
\* voided at the time (inventory_service.py:137-149, 189).
DeliveredIsFinal ==
  \A o \in Orders : Kind(o) = "item" /\ Exists(o) =>
    /\ row[o].status = "completed"
    /\ money[o].linked = 0
    /\ item[buyer[o].item].order = o

\* The coupon's counter, its usages and the orders at its price agree: within
\* max_uses, and once per user (coupon_service.py:101-124).
CouponHonoured ==
  /\ coupon.used = Cardinality(coupon.by) /\ coupon.used <= scenario.uses
  /\ \A o \in Orders : Exists(o) /\ buyer[o].disc = "coupon" =>
       /\ Owner(o) \in coupon.by
       /\ \A p \in Orders \ {o} : Exists(p) /\ buyer[p].disc = "coupon" =>
            Owner(p) # Owner(o)

\* A use of the promotion is counted after an order at its price was saved
\* ("after the success of the order", promotion_service.py:94).
PromotionUseIsAnOrder ==
  promo <= Cardinality({o \in Orders : Exists(o) /\ row[o].promo})

\* Sales, cashback and points come from orders: a purchase whose debit was given
\* back earns nothing, and points of a provider's order wait for its completion
\* (games.py:1004-1014, unified_order_monitor.py:174-185).
RewardsFollowOrders ==
  \A o \in Orders :
    /\ rewards[o].sold + rewards[o].cash > 0 => Exists(o) /\ money[o].plain = 0
    /\ rewards[o].points > 0 => Placed(o, "completed") \/ Placed(o, "refunded")

\* Until the processes are restarted nobody who has paid is forgotten: an order
\* that is neither done nor paid back is still being bought, PROCESSING, so that
\* the next pass finds it, or FAILED while the monitor is about to credit it;
\* only the two errors that end a purchase leave a debit without a trace.
\* Statuses written over another task's, and those that wait in the monitor's
\* session, must not leave an order nobody looks at
\* (unified_order_monitor.py:38, 268-284, admin/orders.py:196, 249).
Owed(o) == money[o].paid > money[o].plain + money[o].linked
CaredFor(o) ==
  \/ buyer[o].at \in {"paid", "applied", "refunding", "placed"}
  \/ Placed(o, "processing")
  \/ monitor.at = "failed" /\ monitor.cur = o

NobodyIsForgotten ==
  ~crashed => \A o \in Orders :
    Owed(o) /\ trouble[o] = "none" =>
      Placed(o, "completed") \/ Placed(o, "partial") \/ CaredFor(o)

\* Who has paid gets the order done or the money back, unless the purchase ended
\* in an error the code does not refund, or the processes were restarted.
Settled ==
  \A o \in Orders :
    money[o].paid > 0 ~> \/ money[o].plain + money[o].linked > 0
                         \/ Placed(o, "completed") \/ Placed(o, "partial")
                         \/ trouble[o] # "none" \/ crashed

\* "The debit was already committed by BalanceService.  Refund it if the coupon
\* was consumed concurrently by another order." (games.py:932): who was debited
\* at the coupon's price and got no order has the money back.
Lost(o) ==
  /\ buyer[o].at = "over" /\ buyer[o].disc = "coupon"
  /\ money[o].paid > 0 /\ ~Exists(o)
  /\ money[o].plain = 0 /\ trouble[o] # "provider" /\ ~crashed
CouponDebitRefunded == \A o \in Orders : ~Lost(o)

\* How far that goes wrong: a debit is lost only to another purchase of the same
\* user that got past the use of the coupon.  The last use taken by somebody
\* else, a refusal of the provider or a coupon switched off are all given back
\* (games.py:925-947, 967-981, coupon_service.py:101-124).
PastTheCoupon(o) ==
  /\ buyer[o].disc = "coupon" /\ trouble[o] # "coupon"
  /\ buyer[o].at \in {"applied", "refunding", "placed", "saved", "marked", "over"}
CouponDebitLostToOneself ==
  \A o \in Orders : Lost(o) =>
    \E p \in Orders \ {o} : Owner(p) = Owner(o) /\ PastTheCoupon(p)
=============================================================================
