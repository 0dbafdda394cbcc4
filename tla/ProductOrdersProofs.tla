------------------------- MODULE ProductOrdersProofs -------------------------
(***************************************************************************)
(* Theorems about ProductOrders, for every set of orders, users, items and *)
(* administrators, every quantity and every bound: the type invariant, and *)
(* what the buyer and the operator rely on whatever the purchases, the     *)
(* monitor, administrators, failing calls and a restart do at once.        *)
(***************************************************************************)
EXTENDS ProductOrders, FiniteSetTheorems, TLAPS

\* The money of an order: nothing before the debit, a refund without an order
\* only while there is none, one that names the order only when there is one.
MoneyOK(o) ==
  /\ money[o].paid \in {0, Quantity} /\ money[o].plain \in {0, money[o].paid}
  /\ money[o].linked <= Quantity
  /\ Exists(o) => money[o].paid = Quantity /\ money[o].plain = 0
  /\ ~Exists(o) => money[o].linked = 0
  /\ buyer[o].at \in {"idle", "quoted", "picked"} =>
       ~Exists(o) /\ money[o].paid = 0
  /\ buyer[o].at \in {"paid", "applied", "refunding", "placed"} =>
       ~Exists(o) /\ money[o].paid = Quantity /\ money[o].plain = 0
  /\ buyer[o].at \in {"saved", "marked"} => Exists(o)

\* The status of an order agrees with what it was credited and has earned; a
\* provider's order is not credited by the piece before it is done.
StatusOK(o) ==
  /\ Exists(o) =>
       /\ row[o].status = "processing" => money[o].linked \in {0, Quantity}
       /\ row[o].status = "refunded" => money[o].linked = Quantity
       /\ row[o].status = "partial" => money[o].linked >= row[o].remains
  /\ rewards[o].sold + rewards[o].cash > 0 => Exists(o)
  /\ rewards[o].points > 0 =>
       Exists(o) /\ row[o].status \in {"completed", "refunded"}

\* An order of the inventory was complete when it was saved, and its item
\* cannot be reserved again.
ItemOK(o) ==
  /\ buyer[o].at = "picked" => Kind(o) = "item" /\ buyer[o].item \in Items
  /\ buyer[o].at \in {"paid", "applied", "refunding", "placed"} =>
       Kind(o) # "item"
  /\ Kind(o) = "item" /\ Exists(o) =>
       /\ row[o].status = "completed" /\ money[o].linked = 0
       /\ buyer[o].item \in Items
       /\ item[buyer[o].item].order = o
       /\ item[buyer[o].item].status # "available"

\* An order of a provider, which the monitor and administrators may work on.
Provided(o) == o \in Orders /\ Exists(o) /\ Kind(o) # "item"

\* The monitor works on orders of providers, which have earned no points when
\* it may still find them failed; what it leaves dirty was credited in full,
\* and so was what it is about to mark refunded.
MonitorOK ==
  /\ \A o \in monitor.todo :
       /\ Provided(o) /\ monitor.dirty[o] = 0
       /\ money[o].linked \in {0, Quantity} /\ rewards[o].points = 0
  /\ \A o \in Orders : monitor.dirty[o] > 0 =>
       /\ Provided(o)
       /\ money[o].linked = Quantity /\ rewards[o].points = 0
  /\ monitor.at \in {"completed", "failed", "credited"} =>
       Provided(monitor.cur) /\ monitor.cur \notin monitor.todo
  /\ monitor.at = "completed" =>
       row[monitor.cur].status \in {"completed", "refunded"}
  /\ monitor.at \in {"failed", "credited"} => rewards[monitor.cur].points = 0
  /\ monitor.at = "credited" => money[monitor.cur].linked = Quantity

\* So do administrators, who credit before they mark as refunded.
AdminOK(a) ==
  /\ admin[a].at # "idle" =>
       \/ admin[a].op \in {"complete", "refund"} /\ Provided(admin[a].id)
       \/ admin[a].op = "void" /\ admin[a].id \in Items
  /\ admin[a].at = "credited" =>
       Provided(admin[a].id) /\ money[admin[a].id].linked = Quantity

\* A purchase that has used the coupon and was not given up.
Holds(o) ==
  /\ buyer[o].disc = "coupon"
  /\ Exists(o) \/ buyer[o].at \in {"applied", "placed", "saved", "marked"}

CouponOK ==
  /\ IsFiniteSet(coupon.by) /\ coupon.used = Cardinality(coupon.by)
  /\ coupon.used <= scenario.uses
  /\ \A o \in Orders :
       /\ buyer[o].disc = "coupon" => Kind(o) # "item"
       /\ Holds(o) => Owner(o) \in coupon.by
  /\ \A o, p \in Orders : Holds(o) /\ Holds(p) /\ o # p => Owner(o) # Owner(p)

IInv ==
  /\ TypeOK
  /\ \A o \in Orders : MoneyOK(o) /\ StatusOK(o) /\ ItemOK(o)
  /\ MonitorOK
  /\ \A a \in Admins : AdminOK(a)
  /\ CouponOK

\* The orders whose use of the promotion has been counted or passed over.
Counted == {o \in Orders : Exists(o) /\ row[o].promo /\ buyer[o].at # "saved"}

PromoOK ==
  /\ promo <= Cardinality(Counted)
  /\ \A o \in Orders :
       buyer[o].at = "saved" => (row[o].promo <=> buyer[o].disc = "promo")

-----------------------------------------------------------------------------
(* What is kept by the steps that leave a task alone.                      *)

Purchase == [at : {"idle", "quoted", "picked", "paid", "applied", "refunding",
                   "placed", "saved", "marked", "over"},
             disc : {"none", "promo", "coupon"}, item : Items \cup {NoRow}]
Money == [paid : Nat, plain : Nat, linked : Nat]
Rewards == [sold : Nat, cash : Nat, points : Nat]
Stock == [status : {"available", "sold", "void"}, order : Orders \cup {NoRow}]
Desk == [at : {"idle", "read", "credited"}, op : Ops \cup {"none"},
         id : Orders \cup Items \cup {NoRow}]
Pass == [at : {"idle", "loop", "completed", "failed", "credited"},
         todo : SUBSET Orders, cur : Orders \cup {NoRow},
         dirty : [Orders -> 0 .. Quantity]]

\* The type of what the purchases and the tables are made of.
ShopType ==
  /\ row \in [Orders -> OrderRow \cup {NoRow}]
  /\ money \in [Orders -> Money]
  /\ rewards \in [Orders -> Rewards]
  /\ coupon \in [used : Nat, by : SUBSET Users] /\ promo \in Nat
  /\ item \in [Items -> Stock]
  /\ buyer \in [Orders -> Purchase]
  /\ faults \in 0 .. MaxFaults
  /\ trouble \in [Orders -> {"none", "provider", "coupon"}]

LEMMA Typed ==
  TypeOK <=> /\ ShopType /\ scenario \in Scenarios
             /\ admin \in [Admins -> Desk] /\ monitor \in Pass
             /\ crashed \in BOOLEAN
BY DEF TypeOK, ShopType, Purchase, Money, Rewards, Stock, Desk, Pass

LEMMA TypedNext ==
  ASSUME ShopType', scenario' \in Scenarios, admin' \in [Admins -> Desk],
         monitor' \in Pass, crashed' \in BOOLEAN
  PROVE  TypeOK'
BY DEF TypeOK, ShopType, Purchase, Money, Rewards, Stock, Desk, Pass

LEMMA RowFields ==
  ASSUME NEW o \in Orders, Exists(o), ShopType
  PROVE  /\ row[o] \in OrderRow /\ row[o].status \in Status
         /\ row[o].remains \in 0 .. Quantity
BY DEF Exists, ShopType, OrderRow

\* Provided orders stay so, and what was credited in full stays credited.
Grows ==
  /\ scenario' = scenario
  /\ \A o \in Orders : Provided(o) =>
       /\ Provided(o)'
       /\ money[o].linked = Quantity => money'[o].linked = Quantity

\* Nor do they earn points, or become anything but done.
Steady ==
  \A o \in Orders : Provided(o) =>
    /\ money[o].linked \in {0, Quantity} => money'[o].linked \in {0, Quantity}
    /\ rewards'[o].points = rewards[o].points
    /\ row[o].status \in {"completed", "refunded"} =>
         row'[o].status \in {"completed", "refunded"}

LEMMA MonitorKept ==
  ASSUME IInv, Grows, Steady, monitor' = monitor
  PROVE  MonitorOK'
BY DEF IInv, MonitorOK, Grows, Steady, Provided, TypeOK

LEMMA AdminKept ==
  ASSUME IInv, Grows, NEW a \in Admins, admin'[a] = admin[a]
  PROVE  AdminOK(a)'
BY DEF IInv, AdminOK, Grows, Provided

\* An order none of whose rows is written; its item has not changed hands.
Untouched(o) ==
  /\ row'[o] = row[o] /\ money'[o] = money[o] /\ rewards'[o] = rewards[o]
  /\ buyer'[o] = buyer[o]

StockKept ==
  \A i \in Items : item[i].status # "available" =>
    item'[i].status # "available" /\ item'[i].order = item[i].order

OrderOK(o) == MoneyOK(o) /\ StatusOK(o) /\ ItemOK(o)

LEMMA OrderKept ==
  ASSUME IInv, scenario' = scenario, StockKept, NEW o \in Orders, Untouched(o)
  PROVE  OrderOK(o)'
BY DEF IInv, OrderOK, MoneyOK, StatusOK, ItemOK, StockKept, Untouched, Exists,
       Kind

\* A step of the purchase o.
LEMMA BuyerStep ==
  ASSUME IInv, UNCHANGED others, NEW o \in Orders, ShopType', StockKept,
         \A p \in Orders \ {o} : Untouched(p),
         Exists(o) => Untouched(o) \/ UNCHANGED <<row, money>>,
         Provided(o) => rewards'[o].points = rewards[o].points,
         OrderOK(o)', CouponOK'
  PROVE  IInv'
<1>1. Grows
  BY DEF Grows, Untouched, Provided, Exists, Kind, others
<1>2. Steady
  BY DEF Steady, Untouched, Provided, Exists
<1>3. MonitorOK' BY <1>1, <1>2, MonitorKept DEF others
<1>4. \A a \in Admins : AdminOK(a)' BY <1>1, AdminKept DEF others
<1>5. \A p \in Orders : OrderOK(p)' BY OrderKept DEF others
<1>6. TypeOK' BY Typed, TypedNext DEF others, IInv
<1> QED BY <1>3, <1>4, <1>5, <1>6 DEF IInv, OrderOK

\* A step of the administrator a.
LEMMA AdminStep ==
  ASSUME IInv, UNCHANGED <<scenario, coupon, promo, buyer, trouble, crashed,
                           monitor, faults, rewards>>,
         ShopType', StockKept, Steady, NEW a \in Admins, NEW r \in Desk,
         admin' = [admin EXCEPT ![a] = r], AdminOK(a)',
         \A o \in Orders : (Exists(o) <=> Exists(o)') /\ OrderOK(o)',
         \A o \in Orders : money[o].linked = Quantity =>
                             money'[o].linked = Quantity
  PROVE  IInv'
<1>1. Grows
  BY DEF Grows, Provided, Kind
<1>2. MonitorOK' BY <1>1, MonitorKept
<1>3. ASSUME NEW b \in Admins PROVE AdminOK(b)'
  <2>1. CASE b = a BY <2>1
  <2>2. CASE b # a
    <3>1. admin'[b] = admin[b] BY <2>2 DEF IInv, TypeOK
    <3> QED BY <1>1, <3>1, AdminKept
  <2> QED BY <2>1, <2>2
<1>4. CouponOK'
  BY DEF IInv, CouponOK, Holds, Kind, Owner
<1>5. TypeOK'
  <2>1. admin \in [Admins -> Desk] BY Typed DEF IInv
  <2>2. admin' \in [Admins -> Desk] BY <2>1
  <2> QED BY <2>2, Typed, TypedNext DEF IInv
<1> QED BY <1>2, <1>3, <1>4, <1>5 DEF IInv, OrderOK

\* A step of the monitor: it writes rows, money or points of orders there are.
LEMMA MonitorStep ==
  ASSUME IInv, UNCHANGED shop, UNCHANGED <<item, admin>>, ShopType', Grows,
         monitor' \in Pass, MonitorOK',
         \A o \in Orders : (Exists(o) <=> Exists(o)') /\ OrderOK(o)'
  PROVE  IInv'
<1>1. \A a \in Admins : AdminOK(a)' BY AdminKept
<1>2. CouponOK'
  BY DEF IInv, CouponOK, Holds, Kind, Owner, shop
<1>3. TypeOK'
  BY Typed, TypedNext DEF IInv, shop
<1> QED BY <1>1, <1>2, <1>3 DEF IInv, OrderOK

-----------------------------------------------------------------------------
(* The purchase.                                                           *)

LEMMA Initially == Init => IInv
<1> SUFFICES ASSUME Init PROVE IInv
  OBVIOUS
<1>1. TypeOK
  <2>1. Resting \in Pass /\ NoTask \in Desk
    BY ProductOrdersAssumption DEF Resting, Clean, Pass, NoTask, Desk
  <2>2. admin \in [Admins -> Desk] /\ monitor \in Pass
        /\ crashed \in BOOLEAN /\ scenario \in Scenarios
    BY <2>1 DEF Init
  <2>3. ShopType
    BY ProductOrdersAssumption
    DEF Init, ShopType, Money, Rewards, Stock, Purchase
  <2> QED BY <2>2, <2>3, Typed
<1>2. \A o \in Orders : MoneyOK(o) /\ StatusOK(o) /\ ItemOK(o)
  BY ProductOrdersAssumption
  DEF Init, MoneyOK, StatusOK, ItemOK, Exists
<1>3. MonitorOK
  BY DEF Init, MonitorOK, Resting, Clean
<1>4. \A a \in Admins : AdminOK(a)
  BY DEF Init, AdminOK, NoTask
<1>5. CouponOK
  <2>1. scenario.uses \in Nat BY ProductOrdersAssumption DEF Init, Scenario
  <2>2. IsFiniteSet({}) /\ Cardinality({}) = 0 BY FS_EmptySet
  <2> QED BY <2>1, <2>2 DEF Init, CouponOK, Holds, Exists
<1> QED BY <1>1, <1>2, <1>3, <1>4, <1>5 DEF IInv

\* A step that changes nothing of the books but the progress of a purchase.
LEMMA BuyerMoves ==
  ASSUME IInv, UNCHANGED <<row, money, rewards, coupon, item>>,
         UNCHANGED others, NEW o \in Orders, NEW r \in Purchase,
         buyer' = [buyer EXCEPT ![o] = r],
         promo' \in Nat, faults' \in 0 .. MaxFaults,
         trouble' \in [Orders -> {"none", "provider", "coupon"}],
         MoneyOK(o)', ItemOK(o)', Holds(o)' => Holds(o),
         r.disc = "coupon" => Kind(o) # "item"
  PROVE  IInv'
<1>1. ShopType BY Typed DEF IInv
<1>2. buyer' \in [Orders -> Purchase] /\ buyer'[o] = r
  BY <1>1 DEF ShopType
<1>3. \A p \in Orders \ {o} : buyer'[p] = buyer[p]
  BY <1>1 DEF ShopType
<1>4. ShopType'
  BY <1>1, <1>2 DEF ShopType
<1>5. CouponOK'
  <2>1. \A p \in Orders : Holds(p)' => Holds(p)
    BY <1>3 DEF Holds, Exists
  <2> QED BY <1>2, <1>3, <2>1 DEF IInv, CouponOK, Kind, Owner, others
<1>6. OrderOK(o)'
  BY DEF IInv, OrderOK, StatusOK, Exists
<1> QED
  BY <1>3, <1>4, <1>5, <1>6, BuyerStep DEF Untouched, StockKept

\* Progress of a purchase by `Buying'.
LEMMA Moved ==
  ASSUME IInv, NEW o \in Orders, NEW from, NEW to, Buying(o, from, to),
         to \in {"idle", "quoted", "picked", "paid", "applied", "refunding",
                 "placed", "saved", "marked", "over"}
  PROVE  \E r \in Purchase :
           /\ buyer[o].at = from
           /\ buyer' = [buyer EXCEPT ![o] = r]
           /\ r = buyer'[o]
           /\ r.at = to /\ r.disc = buyer[o].disc /\ r.item = buyer[o].item
           /\ \A p \in Orders \ {o} : buyer'[p] = buyer[p]
<1>1. buyer \in [Orders -> Purchase] BY Typed DEF IInv, ShopType
<1> DEFINE r == [buyer[o] EXCEPT !.at = to]
<1>2. r \in Purchase BY <1>1 DEF Purchase
<1>3. buyer' = [buyer EXCEPT ![o] = r] BY DEF Buying
<1>4. r.at = to /\ r.disc = buyer[o].disc /\ r.item = buyer[o].item
  BY <1>1 DEF Purchase
<1>5. r = buyer'[o] /\ \A p \in Orders \ {o} : buyer'[p] = buyer[p]
  BY <1>1, <1>3
<1> QED BY <1>2, <1>3, <1>4, <1>5 DEF Buying

LEMMA QuoteStep ==
  ASSUME IInv, NEW o \in Orders, Quote(o) PROVE IInv'
<1>1. buyer \in [Orders -> Purchase] BY Typed DEF IInv, ShopType
<1>2. PICK disc \in {"none", "promo", "coupon"} :
        /\ disc = "coupon" => Kind(o) = "bot"
        /\ buyer' = [buyer EXCEPT ![o].at = "quoted", ![o].disc = disc]
  BY DEF Quote
<1> DEFINE r == [buyer[o] EXCEPT !.at = "quoted", !.disc = disc]
<1>3. /\ r \in Purchase /\ r.at = "quoted" /\ r.disc = disc
      /\ r.item = buyer[o].item
  BY <1>1 DEF Purchase
<1>9. buyer' = [buyer EXCEPT ![o] = r]
  BY <1>1, <1>2
<1> HIDE DEF r
<1>4. buyer'[o] = r BY <1>1, <1>9
<1>5. MoneyOK(o)' /\ ItemOK(o)'
  BY <1>3, <1>4 DEF Quote, desk, IInv, MoneyOK, ItemOK, Exists, Kind, others
<1>6. Holds(o)' => Holds(o)
  BY <1>3, <1>4, <1>5 DEF Holds, MoneyOK
<1>7. promo' \in Nat /\ faults' \in 0 .. MaxFaults
      /\ trouble' \in [Orders -> {"none", "provider", "coupon"}]
  BY DEF Quote, IInv, TypeOK
<1>8. r.disc = "coupon" => Kind(o) # "item" BY <1>2, <1>3
<1> QED
  BY <1>3, <1>9, <1>5, <1>6, <1>7, <1>8, BuyerMoves DEF Quote, desk, others

\* A step to a place where the order's money and item are as they were.
LEMMA JustMoves ==
  ASSUME IInv, UNCHANGED <<row, money, rewards, coupon, item>>,
         UNCHANGED others, NEW o \in Orders, NEW from, NEW to,
         Buying(o, from, to),
         promo' \in Nat, faults' \in 0 .. MaxFaults,
         trouble' \in [Orders -> {"none", "provider", "coupon"}],
         \/ to = "over"
         \/ from = "picked" /\ to = "quoted"
         \/ from \in {"paid", "applied"} /\ to = "refunding"
         \/ from = "applied" /\ to = "placed"
         \/ from = "paid" /\ to = "placed" /\ buyer[o].disc # "coupon"
         \/ from = "saved" /\ to = "marked"
  PROVE  IInv'
<1>1. PICK r \in Purchase :
           /\ buyer[o].at = from
           /\ buyer' = [buyer EXCEPT ![o] = r]
           /\ r = buyer'[o]
           /\ r.at = to /\ r.disc = buyer[o].disc /\ r.item = buyer[o].item
  BY Moved
<1>2. MoneyOK(o)' /\ ItemOK(o)'
  BY <1>1 DEF IInv, MoneyOK, ItemOK, Exists, Kind, others
<1>3. Holds(o)' => Holds(o)
  BY <1>1, <1>2 DEF Holds, Exists, MoneyOK
<1>4. r.disc = "coupon" => Kind(o) # "item"
  BY <1>1 DEF IInv, CouponOK
<1> QED BY <1>1, <1>2, <1>3, <1>4, BuyerMoves

\* A step of a purchase that has no order yet, which is debited or credited.
LEMMA BuyerPays ==
  ASSUME IInv, UNCHANGED <<row, rewards, coupon, promo, item, faults, trouble>>,
         UNCHANGED others, NEW o \in Orders, NEW from, NEW to,
         Buying(o, from, to), ~Exists(o),
         NEW m \in Money, money' = [money EXCEPT ![o] = m], MoneyOK(o)',
         \/ from = "quoted" /\ to = "paid" /\ Kind(o) # "item"
         \/ from = "refunding" /\ to = "over"
  PROVE  IInv'
<1>1. PICK r \in Purchase :
           /\ buyer[o].at = from
           /\ buyer' = [buyer EXCEPT ![o] = r]
           /\ r = buyer'[o]
           /\ r.at = to /\ r.disc = buyer[o].disc /\ r.item = buyer[o].item
           /\ \A p \in Orders \ {o} : buyer'[p] = buyer[p]
  BY Moved
<1>2. ShopType BY Typed DEF IInv
<1>3. ShopType' BY <1>1, <1>2 DEF ShopType
<1>4. \A p \in Orders : Holds(p)' => Holds(p)
  BY <1>1 DEF Holds, Exists
<1>5. CouponOK'
  BY <1>1, <1>4 DEF IInv, CouponOK, Kind, Owner, others
<1>6. OrderOK(o)'
  BY <1>1 DEF IInv, OrderOK, StatusOK, ItemOK, Exists, Kind, others
<1>7. \A p \in Orders \ {o} : Untouched(p)
  BY <1>1, <1>2 DEF Untouched, ShopType
<1> QED BY <1>3, <1>5, <1>6, <1>7, BuyerStep DEF StockKept

LEMMA DeductStep ==
  ASSUME IInv, NEW o \in Orders, Deduct(o) PROVE IInv'
<1> USE DEF Deduct, desk
<1>1. money \in [Orders -> Money] BY Typed DEF IInv, ShopType
<1>2. CASE /\ Buying(o, "quoted", "paid")
           /\ money' = [money EXCEPT ![o].paid = money[o].paid + Quantity]
  <2> DEFINE m == [money[o] EXCEPT !.paid = money[o].paid + Quantity]
  <2>1. m \in Money BY <1>1, ProductOrdersAssumption DEF Money
  <2>2. money' = [money EXCEPT ![o] = m] BY <1>2
  <2>3. buyer[o].at = "quoted" /\ buyer'[o].at = "paid" BY <1>2, Moved
  <2>4. /\ money'[o] = m /\ m.paid = Quantity /\ m.linked = money[o].linked
        /\ m.plain = money[o].plain /\ money[o].plain = 0
    BY <1>1, <2>2, <2>3, ProductOrdersAssumption DEF Money, IInv, MoneyOK
  <2>5. MoneyOK(o)'
    BY <2>3, <2>4 DEF IInv, MoneyOK, Exists
  <2>6. ~Exists(o) BY <2>3 DEF IInv, MoneyOK
  <2>7. UNCHANGED <<row, rewards, coupon, promo, item, faults, trouble>>
        /\ UNCHANGED others /\ Kind(o) # "item"
    OBVIOUS
  <2> HIDE DEF m, Deduct
  <2> QED BY <1>2, <2>1, <2>2, <2>5, <2>6, <2>7, BuyerPays
<1>3. CASE Buying(o, "quoted", "over") /\ UNCHANGED money
  BY <1>3, JustMoves DEF IInv, TypeOK
<1> QED BY <1>2, <1>3

LEMMA RefundBuyerStep ==
  ASSUME IInv, NEW o \in Orders, RefundBuyer(o) PROVE IInv'
<1> USE DEF RefundBuyer, desk
<1>1. money \in [Orders -> Money] BY Typed DEF IInv, ShopType
<1> DEFINE m == [money[o] EXCEPT !.plain = money[o].plain + Quantity]
<1>2. m \in Money BY <1>1, ProductOrdersAssumption DEF Money
<1>3. money' = [money EXCEPT ![o] = m] OBVIOUS
<1>4. buyer[o].at = "refunding" /\ buyer'[o].at = "over" BY Moved
<1>5. /\ money'[o] = m /\ m.plain = Quantity /\ m.paid = Quantity
      /\ m.linked = money[o].linked
  BY <1>1, <1>3, <1>4, ProductOrdersAssumption DEF Money, IInv, MoneyOK
<1>6. MoneyOK(o)'
  BY <1>4, <1>5 DEF IInv, MoneyOK, Exists
<1>7. ~Exists(o) BY <1>4 DEF IInv, MoneyOK
<1> HIDE DEF m
<1> QED BY <1>2, <1>3, <1>6, <1>7, BuyerPays

LEMMA ApplyCouponStep ==
  ASSUME IInv, NEW o \in Orders, ApplyCoupon(o) PROVE IInv'
<1> USE DEF ApplyCoupon, desk
<1>1. ShopType BY Typed DEF IInv
<1>2. CASE /\ CouponValid(o)
           /\ Buying(o, "paid", "applied")
           /\ coupon' = [used |-> coupon.used + 1,
                         by |-> coupon.by \cup {Owner(o)}]
           /\ UNCHANGED trouble
  <2>1. PICK r \in Purchase :
           /\ buyer[o].at = "paid"
           /\ buyer' = [buyer EXCEPT ![o] = r]
           /\ r = buyer'[o]
           /\ r.at = "applied" /\ r.disc = buyer[o].disc
           /\ \A p \in Orders \ {o} : buyer'[p] = buyer[p]
    BY <1>2, Moved
  <2>2. scenario \in Scenario /\ Owner(o) \in Users
    BY ProductOrdersAssumption DEF IInv, TypeOK, Scenario, Owner
  <2>3. /\ IsFiniteSet(coupon'.by) /\ coupon'.used = Cardinality(coupon'.by)
        /\ coupon'.by = coupon.by \cup {Owner(o)}
        /\ coupon'.used = coupon.used + 1
    <3>1. coupon'.by = coupon.by \cup {Owner(o)}
          /\ coupon'.used = coupon.used + 1
      BY <1>2
    <3>2. IsFiniteSet(coupon.by) /\ coupon.used = Cardinality(coupon.by)
      BY DEF IInv, CouponOK
    <3>3. Owner(o) \notin coupon.by BY <1>2 DEF CouponValid
    <3>4. /\ IsFiniteSet(coupon.by \cup {Owner(o)})
          /\ Cardinality(coupon.by \cup {Owner(o)}) = Cardinality(coupon.by) + 1
      BY <3>2, <3>3, FS_AddElement
    <3> QED BY <3>1, <3>2, <3>4
  <2>4. coupon'.used <= scenario.uses
    BY <1>1, <1>2, <2>2, <2>3
    DEF CouponValid, CouponOpen, Scenario, ShopType
  <2>5. \A p \in Orders \ {o} : Holds(p)' => Holds(p)
    BY <2>1 DEF Holds, Exists
  <2>6. \A p \in Orders \ {o} : Holds(p) => Owner(p) # Owner(o)
    BY <1>2 DEF CouponValid, IInv, CouponOK
  <2>7. CouponOK'
    BY <2>1, <2>3, <2>4, <2>5, <2>6
    DEF IInv, CouponOK, Kind, Owner, others
  <2>8. ShopType'
    BY <1>1, <1>2, <2>1, <2>2 DEF ShopType
  <2>9. OrderOK(o)'
    BY <2>1 DEF IInv, OrderOK, MoneyOK, StatusOK, ItemOK, Exists, Kind,
             others
  <2> QED
    BY <2>1, <2>7, <2>8, <2>9, BuyerStep DEF Untouched, StockKept
<1>3. CASE Buying(o, "paid", "refunding") /\ UNCHANGED <<coupon, trouble>>
  BY <1>1, <1>3, JustMoves DEF ShopType
<1>4. CASE /\ Buying(o, "paid", "over")
           /\ trouble' = [trouble EXCEPT ![o] = "coupon"]
           /\ UNCHANGED coupon
  <2>1. trouble' \in [Orders -> {"none", "provider", "coupon"}]
    BY <1>1, <1>4 DEF ShopType
  <2> QED BY <1>1, <1>4, <2>1, JustMoves DEF ShopType
<1> QED BY <1>2, <1>3, <1>4

LEMMA PlaceOrderStep ==
  ASSUME IInv, NEW o \in Orders, PlaceOrder(o) PROVE IInv'
<1> USE DEF desk
<1>1. ShopType BY Typed DEF IInv
<1>2. PICK from \in {"paid", "applied"} :
        /\ from = "applied" <=> buyer[o].disc = "coupon"
        /\ \/ Buying(o, from, "placed") /\ UNCHANGED <<faults, trouble>>
           \/ Buying(o, from, "refunding") /\ UNCHANGED <<faults, trouble>>
           \/ /\ Buying(o, from, "over")
              /\ faults < MaxFaults /\ faults' = faults + 1
              /\ trouble' = [trouble EXCEPT ![o] = "provider"]
  BY DEF PlaceOrder
<1>3. UNCHANGED <<row, money, rewards, coupon, item>> /\ UNCHANGED others
      /\ UNCHANGED promo
  BY DEF PlaceOrder
<1>4. promo' \in Nat /\ faults' \in 0 .. MaxFaults
      /\ trouble' \in [Orders -> {"none", "provider", "coupon"}]
  BY <1>1, <1>2, <1>3, ProductOrdersAssumption DEF ShopType
<1>5. CASE Buying(o, from, "placed")
  BY <1>2, <1>3, <1>4, <1>5, JustMoves
<1>6. CASE Buying(o, from, "refunding")
  BY <1>2, <1>3, <1>4, <1>6, JustMoves
<1>7. CASE Buying(o, from, "over")
  BY <1>2, <1>3, <1>4, <1>7, JustMoves
<1> QED BY <1>2, <1>5, <1>6, <1>7

LEMMA MarkUsedStep ==
  ASSUME IInv, NEW o \in Orders, MarkUsed(o) PROVE IInv'
<1>1. ShopType BY Typed DEF IInv
<1>2. PICK to \in {"over", "marked"} : Buying(o, "saved", to)
  BY DEF MarkUsed
<1>3. promo' \in Nat /\ faults' \in 0 .. MaxFaults
      /\ trouble' \in [Orders -> {"none", "provider", "coupon"}]
  BY <1>1 DEF MarkUsed, ShopType
<1>4. UNCHANGED <<row, money, rewards, coupon, item>> /\ UNCHANGED others
  BY DEF MarkUsed, desk
<1> QED BY <1>2, <1>3, <1>4, JustMoves

LEMMA PickItemStep ==
  ASSUME IInv, NEW o \in Orders, PickItem(o) PROVE IInv'
<1> USE DEF PickItem, desk
<1>1. ShopType BY Typed DEF IInv
<1>2. CASE Buying(o, "quoted", "over")
  BY <1>1, <1>2, JustMoves DEF ShopType
<1>3. CASE /\ buyer[o].at = "quoted"
           /\ \E i \in Items :
                buyer' = [buyer EXCEPT ![o].at = "picked", ![o].item = i]
  <2>1. PICK i \in Items :
          buyer' = [buyer EXCEPT ![o].at = "picked", ![o].item = i]
    BY <1>3
  <2> DEFINE r == [buyer[o] EXCEPT !.at = "picked", !.item = i]
  <2>2. /\ r \in Purchase /\ r.at = "picked" /\ r.item = i
        /\ r.disc = buyer[o].disc
    BY <1>1 DEF ShopType, Purchase
  <2>3. buyer' = [buyer EXCEPT ![o] = r] BY <1>1, <2>1
  <2> HIDE DEF r
  <2>4. buyer'[o] = r BY <1>1, <2>3 DEF ShopType
  <2>5. MoneyOK(o)' /\ ItemOK(o)'
    BY <1>3, <2>2, <2>4 DEF IInv, MoneyOK, ItemOK, Exists, Kind, others
  <2>6. Holds(o)' => Holds(o)
    BY <2>2, <2>4, <2>5 DEF Holds, MoneyOK
  <2>7. r.disc = "coupon" => Kind(o) # "item"
    BY <2>2 DEF IInv, CouponOK
  <2>8. promo' \in Nat /\ faults' \in 0 .. MaxFaults
        /\ trouble' \in [Orders -> {"none", "provider", "coupon"}]
    BY <1>1 DEF ShopType
  <2> QED BY <2>2, <2>3, <2>5, <2>6, <2>7, <2>8, BuyerMoves
<1> QED BY <1>2, <1>3

LEMMA NewRowType ==
  ASSUME IInv, NEW o \in Orders, NEW status \in Status
  PROVE  /\ NewRow(o, status) \in OrderRow /\ NewRow(o, status) # NoRow
         /\ NewRow(o, status).status = status
         /\ NewRow(o, status).promo = (buyer[o].disc = "promo")
<1>1. 0 \in 0 .. Quantity BY ProductOrdersAssumption
<1>2. (buyer[o].disc = "promo") \in BOOLEAN OBVIOUS
<1>3. NewRow(o, status) \in OrderRow
  BY <1>1, <1>2, Zenon DEF NewRow, OrderRow
<1>4. /\ NewRow(o, status).status = status
      /\ NewRow(o, status).promo = (buyer[o].disc = "promo")
  BY Zenon DEF NewRow
<1> QED BY <1>3, <1>4, NoRowAssumption

LEMMA SaveOrderStep ==
  ASSUME IInv, NEW o \in Orders, SaveOrder(o) PROVE IInv'
<1> USE DEF SaveOrder
<1>1. ShopType BY Typed DEF IInv
<1> DEFINE r == NewRow(o, "processing")
<1>2. r \in OrderRow /\ r # NoRow /\ r.status = "processing"
  BY NewRowType DEF Status
<1> HIDE DEF r
<1>3. PICK b \in Purchase :
           /\ buyer[o].at = "placed"
           /\ buyer' = [buyer EXCEPT ![o] = b]
           /\ b = buyer'[o]
           /\ b.at = "saved" /\ b.disc = buyer[o].disc
           /\ \A p \in Orders \ {o} : buyer'[p] = buyer[p]
  BY Moved
<1>4. row' = [row EXCEPT ![o] = r] BY DEF r
<1>5. row'[o] = r /\ \A p \in Orders \ {o} : row'[p] = row[p]
  BY <1>1, <1>4 DEF ShopType
<1>6. ShopType'
  BY <1>1, <1>2, <1>3, <1>4 DEF ShopType
<1>7. ~Exists(o) /\ Exists(o)'
  BY <1>2, <1>3, <1>5 DEF IInv, MoneyOK, Exists
<1>8. money[o].linked = 0 /\ money[o].paid = Quantity /\ money[o].plain = 0
  BY <1>3, <1>7 DEF IInv, MoneyOK
<1>9. MoneyOK(o)'
  BY <1>3, <1>7, <1>8, ProductOrdersAssumption DEF MoneyOK
<1>10. StatusOK(o)'
  BY <1>2, <1>5, <1>7, <1>8 DEF IInv, StatusOK
<1>11. /\ \A p \in Orders \ {o} : Holds(p)' <=> Holds(p)
       /\ Holds(o)' <=> Holds(o)
  BY <1>3, <1>5, <1>7 DEF Holds, Exists
<1>12. CouponOK'
  BY <1>3, <1>11 DEF IInv, CouponOK, Kind, Owner, others
<1>13. Kind(o) # "item"
  BY <1>3 DEF IInv, ItemOK
<1>14. ItemOK(o)'
  BY <1>3, <1>13 DEF ItemOK, Kind, others
<1> QED
  BY <1>3, <1>5, <1>6, <1>7, <1>9, <1>10, <1>12, <1>14, BuyerStep
  DEF Untouched, StockKept, OrderOK

LEMMA PurchaseRewardedStep ==
  ASSUME IInv, NEW o \in Orders, PurchaseRewarded(o) PROVE IInv'
<1> USE DEF PurchaseRewarded, desk
<1>1. ShopType BY Typed DEF IInv
<1>2. PICK b \in Purchase :
           /\ buyer[o].at = "marked"
           /\ buyer' = [buyer EXCEPT ![o] = b]
           /\ b = buyer'[o]
           /\ b.at = "over" /\ b.disc = buyer[o].disc /\ b.item = buyer[o].item
           /\ \A p \in Orders \ {o} : buyer'[p] = buyer[p]
  BY Moved
<1> DEFINE w == [sold |-> rewards[o].sold + 1, cash |-> 1,
                 points |-> IF Kind(o) = "item" THEN 1 ELSE rewards[o].points]
<1>3. w \in Rewards BY <1>1 DEF ShopType, Rewards
<1>4. rewards' = [rewards EXCEPT ![o] = w]
  <2>1. CASE Kind(o) = "item" BY <2>1 DEF Reward
  <2>2. CASE Kind(o) # "item" BY <2>2 DEF Reward
  <2> QED BY <2>1, <2>2
<1>5. rewards'[o] = w /\ \A p \in Orders \ {o} : rewards'[p] = rewards[p]
  BY <1>1, <1>4 DEF ShopType
<1>6. ShopType'
  BY <1>1, <1>2, <1>3, <1>4 DEF ShopType
<1>7. Exists(o) /\ Exists(o)'
  BY <1>2 DEF IInv, MoneyOK, Exists
<1>8. MoneyOK(o)' /\ ItemOK(o)'
  BY <1>2, <1>7 DEF IInv, MoneyOK, ItemOK, Kind, others
<1>9. StatusOK(o)'
  <2>1. Kind(o) = "item" => row[o].status = "completed"
    BY <1>7 DEF IInv, ItemOK
  <2> QED BY <1>5, <1>7, <2>1 DEF IInv, StatusOK
<1>10. \A p \in Orders : Holds(p)' => Holds(p)
  BY <1>2, <1>7 DEF Holds, Exists
<1>11. CouponOK'
  BY <1>2, <1>10 DEF IInv, CouponOK, Kind, Owner, others
<1>12. Provided(o) => rewards'[o].points = rewards[o].points
  BY <1>5 DEF Provided
<1> QED
  BY <1>2, <1>5, <1>6, <1>8, <1>9, <1>11, <1>12, BuyerStep
  DEF Untouched, StockKept, OrderOK

LEMMA ReserveItemStep ==
  ASSUME IInv, NEW o \in Orders, ReserveItem(o) PROVE IInv'
<1> USE DEF ReserveItem
<1>1. ShopType BY Typed DEF IInv
<1> DEFINE i == buyer[o].item
           r == NewRow(o, "completed")
           m == [money[o] EXCEPT !.paid = money[o].paid + Quantity]
<1>2. CASE Buying(o, "picked", "quoted") /\ UNCHANGED <<item, row, money>>
  BY <1>1, <1>2, JustMoves DEF ShopType
<1>3. CASE /\ Buying(o, "picked", "saved")
           /\ item[i].status = "available"
           /\ item' = [item EXCEPT ![i] = [status |-> "sold", order |-> o]]
           /\ row' = [row EXCEPT ![o] = r]
           /\ money' = [money EXCEPT ![o].paid = money[o].paid + Quantity]
  <2>1. PICK b \in Purchase :
           /\ buyer[o].at = "picked"
           /\ buyer' = [buyer EXCEPT ![o] = b]
           /\ b = buyer'[o]
           /\ b.at = "saved" /\ b.disc = buyer[o].disc /\ b.item = buyer[o].item
           /\ \A p \in Orders \ {o} : buyer'[p] = buyer[p]
    BY <1>3, Moved
  <2>2. r \in OrderRow /\ r # NoRow /\ r.status = "completed"
    BY NewRowType DEF Status
  <2>3. m \in Money /\ m.plain = money[o].plain /\ m.linked = money[o].linked
        /\ m.paid = money[o].paid + Quantity
    BY <1>1, ProductOrdersAssumption DEF ShopType, Money
  <2>4. money' = [money EXCEPT ![o] = m] BY <1>3
  <2>5. i \in Items /\ Kind(o) = "item" BY <2>1 DEF IInv, ItemOK
  <2> HIDE DEF r, m
  <2>6. /\ row'[o] = r /\ money'[o] = m
        /\ item'[i].status = "sold" /\ item'[i].order = o
        /\ \A p \in Orders \ {o} : row'[p] = row[p] /\ money'[p] = money[p]
        /\ \A j \in Items \ {i} : item'[j] = item[j]
    BY <1>1, <1>3, <2>4, <2>5 DEF ShopType
  <2>7. item' \in [Items -> Stock]
    BY <1>1, <1>3 DEF ShopType, Stock
  <2>8. ShopType'
    BY <1>1, <1>3, <2>1, <2>2, <2>3, <2>4, <2>7 DEF ShopType
  <2>9. ~Exists(o) /\ Exists(o)'
    BY <2>1, <2>2, <2>6 DEF IInv, MoneyOK, Exists
  <2>10. m.paid = Quantity /\ m.plain = 0 /\ m.linked = 0
    BY <2>1, <2>3, <2>9, ProductOrdersAssumption DEF IInv, MoneyOK
  <2>11. MoneyOK(o)'
    BY <2>1, <2>6, <2>9, <2>10, ProductOrdersAssumption DEF MoneyOK
  <2>12. StatusOK(o)'
    BY <2>2, <2>6, <2>9 DEF IInv, StatusOK
  <2>13. ItemOK(o)'
    BY <2>1, <2>2, <2>5, <2>6, <2>10 DEF ItemOK, Kind, others
  <2>14. /\ \A p \in Orders \ {o} : Holds(p)' <=> Holds(p)
         /\ ~Holds(o)'
    BY <2>1, <2>5, <2>6 DEF IInv, CouponOK, Holds, Exists
  <2>15. CouponOK'
    BY <2>1, <2>5, <2>14 DEF IInv, CouponOK, Kind, Owner, others
  <2>16. StockKept
    BY <1>3, <2>6 DEF StockKept
  <2> QED
    BY <2>1, <2>6, <2>8, <2>9, <2>11, <2>12, <2>13, <2>15, <2>16, BuyerStep
    DEF Untouched, OrderOK, Provided
<1> QED BY <1>2, <1>3

LEMMA BuySteps ==
  ASSUME IInv, NEW o \in Orders, Quote(o) \/ Buy(o) PROVE IInv'
BY QuoteStep, DeductStep, ApplyCouponStep, PlaceOrderStep, RefundBuyerStep,
   SaveOrderStep, PickItemStep, ReserveItemStep, MarkUsedStep,
   PurchaseRewardedStep DEF Buy

-----------------------------------------------------------------------------
(* Administrators.                                                         *)

\* A step of an administrator that leaves rows and money alone.
LEMMA AdminMoves ==
  ASSUME IInv, UNCHANGED <<shop, row, money, rewards, monitor, faults>>,
         StockKept, item' \in [Items -> Stock],
         NEW a \in Admins, NEW r \in Desk,
         admin' = [admin EXCEPT ![a] = r], AdminOK(a)'
  PROVE  IInv'
<1>1. ShopType' BY Typed DEF IInv, ShopType, shop
<1>2. Steady BY DEF Steady
<1>3. \A o \in Orders : (Exists(o) <=> Exists(o)') /\ OrderOK(o)'
  BY OrderKept DEF Untouched, Exists, shop
<1> QED BY <1>1, <1>2, <1>3, AdminStep DEF shop

LEMMA AdminReads ==
  ASSUME IInv, NEW a \in Admins, NEW op \in Ops,
         NEW id \in Orders \cup Items, Begin(a, op, id),
         \/ op \in {"complete", "refund"} /\ Provided(id)
         \/ op = "void" /\ id \in Items
  PROVE  IInv'
<1> USE DEF Begin
<1> DEFINE r == [at |-> "read", op |-> op, id |-> id]
<1>1. admin \in [Admins -> Desk] /\ item \in [Items -> Stock]
  BY Typed DEF IInv, ShopType
<1>2. r \in Desk BY DEF Desk
<1>3. admin'[a] = r BY <1>1
<1>4. AdminOK(a)' BY <1>3 DEF AdminOK, Provided, Exists, Kind, shop
<1> QED BY <1>1, <1>2, <1>4, AdminMoves DEF StockKept

LEMMA PressStep ==
  ASSUME IInv, NEW a \in Admins, Press(a) PROVE IInv'
<1>1. ASSUME NEW o \in Orders, OrderCompleteRead(a, o) PROVE IInv'
  <2>1. Provided(o)
    BY <1>1 DEF OrderCompleteRead, IInv, ItemOK, Provided
  <2> QED BY <1>1, <2>1, AdminReads DEF OrderCompleteRead, Ops
<1>2. ASSUME NEW o \in Orders, OrderRefundRead(a, o) PROVE IInv'
  <2>1. Provided(o)
    BY <1>2 DEF OrderRefundRead, IInv, ItemOK, Provided
  <2> QED BY <1>2, <2>1, AdminReads DEF OrderRefundRead, Ops
<1>3. ASSUME NEW i \in Items, VoidItemRead(a, i) PROVE IInv'
  BY <1>3, AdminReads DEF VoidItemRead, Ops
<1> QED BY <1>1, <1>2, <1>3 DEF Press

LEMMA FinishType ==
  ASSUME NEW a \in Admins, admin \in [Admins -> Desk], Finish(a)
  PROVE  /\ NoTask \in Desk /\ admin' = [admin EXCEPT ![a] = NoTask]
         /\ AdminOK(a)'
BY DEF Finish, NoTask, Desk, AdminOK

\* An administrator writes "completed", or "refunded" after the credit.
LEMMA AdminWrites ==
  ASSUME IInv, UNCHANGED <<shop, money, rewards, item, monitor, faults>>,
         NEW a \in Admins, Finish(a), NEW o \in Orders, Provided(o),
         NEW s \in {"completed", "refunded"},
         row' = [row EXCEPT ![o].status = s],
         s = "refunded" => money[o].linked = Quantity
  PROVE  IInv'
<1>1. ShopType /\ admin \in [Admins -> Desk] BY Typed DEF IInv
<1> DEFINE r == [row[o] EXCEPT !.status = s]
<1>2. row[o] \in OrderRow BY <1>1, RowFields DEF Provided
<1>3. r \in OrderRow /\ r.status = s
  BY <1>2 DEF OrderRow, Status
<1>4. row' = [row EXCEPT ![o] = r] BY <1>1 DEF ShopType
<1> HIDE DEF r
<1>5. row'[o] = r /\ \A p \in Orders \ {o} : row'[p] = row[p]
  BY <1>1, <1>4 DEF ShopType
<1>6. ShopType' BY <1>1, <1>3, <1>4 DEF ShopType, shop
<1>7. r # NoRow BY <1>3, NoRowAssumption
<1>8. OrderOK(o)'
  BY <1>3, <1>5, <1>7
  DEF IInv, OrderOK, MoneyOK, StatusOK, ItemOK, Provided, Exists, Kind, shop
<1>9. \A p \in Orders : (Exists(p) <=> Exists(p)') /\ OrderOK(p)'
  <2>1. StockKept /\ scenario' = scenario BY DEF StockKept, shop
  <2>2. \A p \in Orders \ {o} : Untouched(p)
    BY <1>5 DEF Untouched, shop
  <2>3. \A p \in Orders : Exists(p) <=> Exists(p)'
    BY <1>5, <1>7 DEF Exists, Provided
  <2> QED BY <1>8, <2>1, <2>2, <2>3, OrderKept
<1>10. Steady
  BY <1>3, <1>5 DEF Steady
<1> QED
  BY <1>1, <1>6, <1>9, <1>10, FinishType, AdminStep DEF StockKept, shop

LEMMA OrderRefundCreditStep ==
  ASSUME IInv, NEW a \in Admins, OrderRefundCredit(a) PROVE IInv'
<1>1. ShopType /\ admin \in [Admins -> Desk] BY Typed DEF IInv
<1>2. PICK o \in Orders : o = admin[a].id /\ Provided(o)
  BY DEF OrderRefundCredit, Doing, IInv, AdminOK, Provided
<1>3. /\ admin[a].op = "refund"
      /\ UNCHANGED <<shop, row, rewards, item, monitor, faults>>
  BY DEF OrderRefundCredit, Doing
<1>4. CASE Credit(o, Quantity) /\ admin' = [admin EXCEPT ![a].at = "credited"]
  <2> DEFINE m == [money[o] EXCEPT !.linked = Quantity]
             r == [admin[a] EXCEPT !.at = "credited"]
  <2>1. /\ m \in Money /\ m.linked = Quantity
        /\ m.paid = money[o].paid /\ m.plain = money[o].plain
    BY <1>1, <1>2, ProductOrdersAssumption DEF ShopType, Money, Provided
  <2>2. /\ money' = [money EXCEPT ![o] = m]
        /\ money[o].linked \in {0, Quantity}
    BY <1>2, <1>4 DEF Credit
  <2>3. /\ r \in Desk /\ admin' = [admin EXCEPT ![a] = r]
        /\ r.at = "credited" /\ r.op = admin[a].op /\ r.id = o
    BY <1>1, <1>2, <1>4 DEF Desk
  <2> HIDE DEF m, r
  <2>4. money'[o] = m /\ \A p \in Orders \ {o} : money'[p] = money[p]
    BY <1>1, <1>2, <2>2 DEF ShopType, Provided
  <2>5. admin'[a] = r BY <1>1, <2>3
  <2>6. ShopType' BY <1>1, <1>3, <2>1, <2>2 DEF ShopType, shop
  <2>7. OrderOK(o)'
    <3>1. row[o].remains \in 0 .. Quantity
      BY <1>1, <1>2, RowFields DEF Provided
    <3>2. MoneyOK(o)'
      BY <1>2, <1>3, <2>1, <2>4, ProductOrdersAssumption
      DEF IInv, MoneyOK, Provided, Exists, shop
    <3>3. StatusOK(o)'
      BY <1>2, <1>3, <2>1, <2>4, <3>1, ProductOrdersAssumption
      DEF IInv, StatusOK, Provided, Exists
    <3>4. ItemOK(o)'
      BY <1>2, <1>3 DEF IInv, ItemOK, Provided, Exists, Kind, shop
    <3> QED BY <3>2, <3>3, <3>4 DEF OrderOK
  <2>8. \A p \in Orders : (Exists(p) <=> Exists(p)') /\ OrderOK(p)'
    <3>1. StockKept /\ scenario' = scenario BY <1>3 DEF StockKept, shop
    <3>2. \A p \in Orders \ {o} : Untouched(p)
      BY <1>3, <2>4 DEF Untouched, shop
    <3>3. \A p \in Orders : Exists(p) <=> Exists(p)' BY <1>3 DEF Exists
    <3> QED BY <2>7, <3>1, <3>2, <3>3, OrderKept
  <2>9. Steady BY <1>3, <2>1, <2>4 DEF Steady
  <2>10. AdminOK(a)'
    BY <1>2, <1>3, <2>1, <2>3, <2>4, <2>5
    DEF AdminOK, Provided, Exists, Kind, shop
  <2>11. \A p \in Orders : money[p].linked = Quantity =>
                             money'[p].linked = Quantity
    BY <2>1, <2>4
  <2> QED
    BY <1>3, <2>3, <2>6, <2>8, <2>9, <2>10, <2>11, AdminStep
    DEF StockKept, shop
<1>5. CASE Finish(a) /\ UNCHANGED money
  BY <1>1, <1>5, <1>3, FinishType, AdminMoves DEF StockKept, ShopType
<1> QED BY <1>2, <1>4, <1>5 DEF OrderRefundCredit

LEMMA HandleStep ==
  ASSUME IInv, NEW a \in Admins, Handle(a) PROVE IInv'
<1>1. ShopType /\ admin \in [Admins -> Desk] BY Typed DEF IInv
<1>2. CASE OrderCompleted(a)
  <2>1. Provided(admin[a].id)
    BY <1>2 DEF OrderCompleted, Doing, IInv, AdminOK
  <2>2. admin[a].id \in Orders BY <2>1 DEF Provided
  <2> QED BY <1>2, <2>1, <2>2, AdminWrites DEF OrderCompleted
<1>3. CASE OrderRefundCredit(a)
  BY <1>3, OrderRefundCreditStep
<1>4. CASE OrderRefunded(a)
  <2>1. Provided(admin[a].id) /\ money[admin[a].id].linked = Quantity
    BY <1>4 DEF OrderRefunded, IInv, AdminOK
  <2>2. admin[a].id \in Orders BY <2>1 DEF Provided
  <2> QED BY <1>4, <2>1, <2>2, AdminWrites DEF OrderRefunded
<1>5. CASE VoidItem(a)
  <2> DEFINE i == admin[a].id
  <2>1. i \in Items BY <1>5 DEF VoidItem, Doing, IInv, AdminOK
  <2> DEFINE v == [item[i] EXCEPT !.status = "void"]
  <2>2. v \in Stock /\ v.order = item[i].order /\ v.status = "void"
    BY <1>1, <2>1 DEF ShopType, Stock
  <2>3. item' = [item EXCEPT ![i] = v] BY <1>5 DEF VoidItem
  <2> HIDE DEF v
  <2>4. item' \in [Items -> Stock] /\ StockKept
    BY <1>1, <2>2, <2>3 DEF ShopType, StockKept
  <2> QED BY <1>1, <1>5, <2>4, FinishType, AdminMoves DEF VoidItem
<1> QED BY <1>2, <1>3, <1>4, <1>5 DEF Handle

LEMMA CrashStep ==
  ASSUME IInv, Crash PROVE IInv'
<1> USE DEF Crash
<1>1. ShopType BY Typed DEF IInv
<1>2. \A o \in Orders :
        /\ buyer'[o] \in Purchase
        /\ buyer'[o].disc = buyer[o].disc /\ buyer'[o].item = buyer[o].item
        /\ buyer'[o].at = IF buyer[o].at = "idle" THEN "idle" ELSE "over"
  BY <1>1 DEF ShopType, Purchase
<1>3. ShopType'
  <2>1. buyer' \in [Orders -> Purchase] BY <1>2
  <2> QED BY <1>1, <2>1 DEF ShopType
<1>4. Resting \in Pass /\ NoTask \in Desk
  BY ProductOrdersAssumption DEF Resting, Clean, Pass, NoTask, Desk
<1>5. TypeOK'
  <2>1. admin' \in [Admins -> Desk] /\ monitor' \in Pass
        /\ crashed' \in BOOLEAN /\ scenario' \in Scenarios
    BY <1>4, Typed DEF IInv
  <2> QED BY <1>3, <2>1, TypedNext
<1>6. \A o \in Orders : OrderOK(o)'
  BY <1>2 DEF IInv, OrderOK, MoneyOK, StatusOK, ItemOK, Exists, Kind
<1>7. MonitorOK' BY DEF MonitorOK, Resting, Clean
<1>8. \A a \in Admins : AdminOK(a)' BY DEF AdminOK, NoTask
<1>9. CouponOK'
  <2>1. \A o \in Orders : Holds(o)' => Holds(o)
    BY <1>2 DEF Holds, Exists
  <2> QED BY <1>2, <2>1 DEF IInv, CouponOK, Kind, Owner
<1> QED BY <1>5, <1>6, <1>7, <1>8, <1>9 DEF IInv, OrderOK

-----------------------------------------------------------------------------
(* The monitor.                                                            *)

\* What a commit of the monitor writes.
LEMMA Committed ==
  ASSUME IInv, NEW o \in Orders, NEW at \in {"loop", "completed", "failed",
                                             "credited"},
         NEW new \in OrderRow, Commit(o, at, new)
  PROVE  /\ monitor' \in Pass
         /\ monitor'.at = at /\ monitor'.todo = monitor.todo \ {o}
         /\ monitor'.cur = IF at = "loop" THEN NoRow ELSE o
         /\ \A p \in Orders : monitor'.dirty[p] = 0
         /\ row' \in [Orders -> OrderRow \cup {NoRow}] /\ row'[o] = new
         /\ \A p \in Orders \ {o} :
              /\ monitor.dirty[p] = 0 => row'[p] = row[p]
              /\ monitor.dirty[p] > 0 =>
                   /\ row'[p] \in OrderRow
                   /\ row'[p].status = "partial"
                   /\ row'[p].remains = monitor.dirty[p]
<1>1. ShopType /\ monitor \in Pass BY Typed DEF IInv
<1>2. Clean \in [Orders -> 0 .. Quantity]
  BY ProductOrdersAssumption DEF Clean
<1>3. Goes(o, at) \in Pass
      /\ Goes(o, at).at = at /\ Goes(o, at).todo = monitor.todo \ {o}
      /\ Goes(o, at).cur = IF at = "loop" THEN NoRow ELSE o
  BY <1>1 DEF Goes, Pass
<1>4. monitor' = [Goes(o, at) EXCEPT !.dirty = Clean]
  BY DEF Commit
<1>5. /\ monitor' \in Pass
      /\ monitor'.at = at /\ monitor'.todo = monitor.todo \ {o}
      /\ monitor'.cur = IF at = "loop" THEN NoRow ELSE o
      /\ monitor'.dirty = Clean
  BY <1>2, <1>3, <1>4 DEF Pass
<1> DEFINE part(p) == [row[p] EXCEPT !.status = "partial",
                                     !.remains = monitor.dirty[p]]
<1>6. ASSUME NEW p \in Orders, monitor.dirty[p] > 0
      PROVE  /\ part(p) \in OrderRow /\ part(p).status = "partial"
             /\ part(p).remains = monitor.dirty[p]
  <2>1. monitor.dirty[p] \in 0 .. Quantity BY <1>1 DEF Pass
  <2>2. row[p] \in OrderRow
    BY <1>1, <1>6, RowFields DEF IInv, MonitorOK, Provided
  <2> QED BY <2>1, <2>2 DEF OrderRow, Status
<1>7. row' = [p \in Orders |-> IF p = o THEN new
                               ELSE IF monitor.dirty[p] > 0 THEN part(p)
                               ELSE row[p]]
  BY DEF Commit
<1> HIDE DEF part
<1>8. row'[o] = new
      /\ \A p \in Orders \ {o} : row'[p] = IF monitor.dirty[p] > 0
                                             THEN part(p) ELSE row[p]
  BY <1>7
<1>9. row' \in [Orders -> OrderRow \cup {NoRow}]
  BY <1>1, <1>6, <1>7 DEF ShopType
<1>10. \A p \in Orders : monitor.dirty[p] = 0 => ~(monitor.dirty[p] > 0)
  BY <1>1 DEF Pass
<1>11. \A p \in Orders : Clean[p] = 0 BY DEF Clean
<1> QED BY <1>5, <1>6, <1>8, <1>9, <1>10, <1>11

\* A commit of the monitor, with what else it does to the order in its turn.
LEMMA MonitorCommits ==
  ASSUME IInv, UNCHANGED shop, UNCHANGED <<item, admin>>,
         faults' \in 0 .. MaxFaults,
         NEW o \in Orders, Provided(o),
         NEW at \in {"loop", "completed", "failed", "credited"},
         NEW new \in OrderRow, Commit(o, at, new),
         NEW m \in Money, money' = [money EXCEPT ![o] = m],
         m.paid = money[o].paid, m.plain = money[o].plain,
         m.linked <= Quantity,
         money[o].linked = Quantity => m.linked = Quantity,
         NEW w \in Rewards, rewards' = [rewards EXCEPT ![o] = w],
         w.points > 0 => new.status \in {"completed", "refunded"},
         new.status = "processing" => m.linked \in {0, Quantity},
         new.status = "refunded" => m.linked = Quantity,
         new.status = "partial" => m.linked >= new.remains,
         at = "completed" => new.status \in {"completed", "refunded"},
         at \in {"failed", "credited"} => w.points = 0,
         at = "credited" => m.linked = Quantity
  PROVE  IInv'
<1>1. ShopType /\ monitor \in Pass BY Typed DEF IInv
<1>2. /\ monitor' \in Pass
      /\ monitor'.at = at /\ monitor'.todo = monitor.todo \ {o}
      /\ monitor'.cur = IF at = "loop" THEN NoRow ELSE o
      /\ \A p \in Orders : monitor'.dirty[p] = 0
      /\ row' \in [Orders -> OrderRow \cup {NoRow}] /\ row'[o] = new
      /\ \A p \in Orders \ {o} :
           /\ monitor.dirty[p] = 0 => row'[p] = row[p]
           /\ monitor.dirty[p] > 0 =>
                /\ row'[p] \in OrderRow
                /\ row'[p].status = "partial"
                /\ row'[p].remains = monitor.dirty[p]
  BY Committed
<1>3. /\ money'[o] = m /\ rewards'[o] = w
      /\ \A p \in Orders \ {o} :
           money'[p] = money[p] /\ rewards'[p] = rewards[p]
  BY <1>1 DEF ShopType
<1>4. ShopType' BY <1>1, <1>2 DEF ShopType, shop
<1>5. \A p \in Orders : monitor.dirty[p] = 0 \/ monitor.dirty[p] > 0
  BY <1>1 DEF Pass
<1>6. \A p \in Orders : Exists(p) <=> Exists(p)'
  BY <1>2, <1>5, NoRowAssumption DEF Exists, IInv, MonitorOK, Provided
<1>7. OrderOK(o)'
  <2>1. Exists(o) /\ Exists(o)' BY <1>6 DEF Provided
  <2>2. MoneyOK(o)'
    BY <1>3, <2>1 DEF IInv, MoneyOK, shop
  <2>3. StatusOK(o)'
    BY <1>2, <1>3, <2>1 DEF StatusOK
  <2>4. ItemOK(o)'
    BY <2>1 DEF IInv, ItemOK, Provided, Kind, shop
  <2> QED BY <2>2, <2>3, <2>4 DEF OrderOK
<1>8. ASSUME NEW p \in Orders \ {o} PROVE OrderOK(p)'
  <2>1. CASE monitor.dirty[p] = 0
    <3>1. Untouched(p) BY <1>2, <1>3, <2>1 DEF Untouched, shop
    <3> QED BY <3>1, OrderKept DEF StockKept, shop
  <2>2. CASE monitor.dirty[p] > 0
    <3>1. /\ Exists(p) /\ Kind(p) # "item"
          /\ money[p].linked = Quantity /\ rewards[p].points = 0
      BY <2>2 DEF IInv, MonitorOK, Provided
    <3>2. Exists(p)' BY <1>6, <3>1
    <3>3. MoneyOK(p)' BY <1>3, <3>1, <3>2 DEF IInv, MoneyOK, shop
    <3>4. monitor.dirty[p] \in 0 .. Quantity BY <1>1 DEF Pass
    <3>5. StatusOK(p)'
      BY <1>2, <1>3, <2>2, <3>1, <3>2, <3>4, ProductOrdersAssumption
      DEF StatusOK
    <3>6. ItemOK(p)'
      BY <3>1, <3>2 DEF IInv, ItemOK, Kind, shop
    <3> QED BY <3>3, <3>5, <3>6 DEF OrderOK
  <2> QED BY <1>5, <2>1, <2>2
<1>9. \A p \in Orders : Provided(p) <=> Provided(p)'
  BY <1>6 DEF Provided, Kind, shop
<1>10. Grows
  BY <1>3, <1>9 DEF Grows, shop
<1>11. MonitorOK'
  <2>1. \A p \in monitor'.todo :
          /\ p \in monitor.todo /\ p \in Orders \ {o}
          /\ money'[p] = money[p] /\ rewards'[p] = rewards[p]
    BY <1>1, <1>2, <1>3 DEF Pass
  <2>2. \A p \in monitor'.todo :
       /\ Provided(p)' /\ monitor'.dirty[p] = 0
       /\ money'[p].linked \in {0, Quantity} /\ rewards'[p].points = 0
    BY <1>2, <1>9, <2>1 DEF IInv, MonitorOK
  <2>3. at # "loop" => monitor'.cur = o /\ Provided(o)'
    BY <1>2, <1>9
  <2>4. \A p \in Orders : ~(monitor'.dirty[p] > 0)
    BY <1>2
  <2>5. o \notin monitor'.todo BY <1>2
  <2> QED BY <1>2, <1>3, <2>2, <2>3, <2>4, <2>5 DEF MonitorOK, Provided
<1> QED
  BY <1>2, <1>4, <1>6, <1>7, <1>8, <1>10, <1>11, MonitorStep

\* A commit that neither moves money nor counts anything.
LEMMA MonitorWrites ==
  ASSUME IInv, UNCHANGED shop, UNCHANGED <<item, admin, money, rewards>>,
         faults' \in 0 .. MaxFaults,
         NEW o \in Orders, Provided(o),
         NEW at \in {"loop", "completed", "failed", "credited"},
         NEW new \in OrderRow, Commit(o, at, new),
         rewards[o].points > 0 => new.status \in {"completed", "refunded"},
         new.status = "processing" => money[o].linked \in {0, Quantity},
         new.status = "refunded" => money[o].linked = Quantity,
         new.status = "partial" => money[o].linked >= new.remains,
         at = "completed" => new.status \in {"completed", "refunded"},
         at \in {"failed", "credited"} => rewards[o].points = 0,
         at = "credited" => money[o].linked = Quantity
  PROVE  IInv'
<1>1. ShopType BY Typed DEF IInv
<1>2. money[o] \in Money /\ rewards[o] \in Rewards
      /\ money[o].linked <= Quantity
  BY <1>1 DEF ShopType, IInv, MoneyOK
<1>3. money' = [money EXCEPT ![o] = money[o]]
      /\ rewards' = [rewards EXCEPT ![o] = rewards[o]]
  BY <1>1 DEF ShopType
<1>4. /\ money[o].paid = money[o].paid /\ money[o].plain = money[o].plain
      /\ money[o].linked = Quantity => money[o].linked = Quantity
      /\ UNCHANGED <<item, admin>>
  OBVIOUS
<1> QED BY <1>2, <1>3, <1>4, MonitorCommits, ZenonT(60)

LEMMA InTurn ==
  ASSUME IInv, NEW o \in Orders, Turn(o)
  PROVE  /\ Provided(o) /\ row[o] \in OrderRow /\ monitor.dirty[o] = 0
         /\ money[o].linked \in {0, Quantity} /\ rewards[o].points = 0
         /\ StatusOK(o)
BY Typed, RowFields DEF Turn, IInv, MonitorOK, Provided

LEMMA BecomesRow ==
  ASSUME NEW o \in Orders, row[o] \in OrderRow, NEW s \in Status
  PROVE  Becomes(o, s) \in OrderRow /\ Becomes(o, s).status = s
BY DEF Becomes, OrderRow

LEMMA PassSteps ==
  ASSUME IInv, Snapshot \/ PassEnds PROVE IInv'
<1> DEFINE found == {o \in Orders : Exists(o) /\ row[o].status = "processing"}
<1>1. ShopType BY Typed DEF IInv
<1>2. UNCHANGED <<shop, row, money, rewards, item, admin, faults>>
  BY DEF Snapshot, PassEnds
<1>3. PICK todo \in {{}, found} :
        monitor' \in {[Resting EXCEPT !.at = "loop", !.todo = todo], Resting}
  BY DEF Snapshot, PassEnds
<1>4. Resting \in Pass /\ Resting.todo = {} /\ Resting.at = "idle"
      /\ \A o \in Orders : Resting.dirty[o] = 0
  BY ProductOrdersAssumption DEF Resting, Pass, Clean
<1>5. /\ monitor' \in Pass /\ monitor'.todo \subseteq found
      /\ monitor'.at \in {"idle", "loop"}
      /\ \A o \in Orders : monitor'.dirty[o] = 0
  BY <1>3, <1>4 DEF Pass
<1>6. \A o \in found :
        /\ Provided(o) /\ money[o].linked \in {0, Quantity}
        /\ rewards[o].points = 0
  BY <1>1 DEF IInv, StatusOK, ItemOK, Provided, ShopType, Rewards
<1>7. MonitorOK'
  <2>1. \A o \in found :
          /\ Provided(o)' /\ money'[o].linked \in {0, Quantity}
          /\ rewards'[o].points = 0
    BY <1>2, <1>6 DEF Provided, Exists, Kind, shop
  <2> QED BY <1>5, <2>1 DEF MonitorOK
<1>8. \A o \in Orders : (Exists(o) <=> Exists(o)') /\ OrderOK(o)'
  BY <1>2, OrderKept DEF Untouched, StockKept, Exists, shop
<1>9. Grows BY <1>2 DEF Grows, Provided, Exists, Kind, shop
<1>10. ShopType' BY <1>1, <1>2 DEF ShopType, shop
<1> QED BY <1>2, <1>5, <1>7, <1>8, <1>9, <1>10, MonitorStep

\* The session's uncommitted rows are the only thing that changes.
LEMMA TurnLost ==
  ASSUME IInv, UNCHANGED shop, UNCHANGED <<row, money, rewards, item, admin>>,
         faults' \in 0 .. MaxFaults, NEW o \in Orders, Turn(o),
         NEW left \in 0 .. Quantity,
         \/ monitor' = Goes(o, "loop")
         \/ /\ monitor' = [Goes(o, "loop") EXCEPT !.dirty[o] = left]
            /\ money[o].linked = Quantity
  PROVE  IInv'
<1>1. ShopType /\ monitor \in Pass BY Typed DEF IInv
<1>2. /\ monitor' \in Pass /\ monitor'.at = "loop"
      /\ monitor'.todo = monitor.todo \ {o}
      /\ \A p \in Orders \ {o} : monitor'.dirty[p] = monitor.dirty[p]
      /\ monitor'.dirty[o] > 0 =>
           monitor.dirty[o] > 0 \/ money[o].linked = Quantity
  <2> DEFINE g == Goes(o, "loop")
             d == [g.dirty EXCEPT ![o] = left]
  <2>1. /\ g \in Pass /\ g.at = "loop" /\ g.todo = monitor.todo \ {o}
        /\ g.dirty = monitor.dirty
    BY <1>1 DEF Goes, Pass
  <2>2. /\ d \in [Orders -> 0 .. Quantity]
        /\ \A p \in Orders \ {o} : d[p] = monitor.dirty[p]
    BY <1>1, <2>1 DEF Pass
  <2>3. [g EXCEPT !.dirty[o] = left] = [g EXCEPT !.dirty = d]
    BY <2>1 DEF Pass
  <2> HIDE DEF g, d
  <2>4. monitor' = g \/ /\ monitor' = [g EXCEPT !.dirty = d]
                        /\ money[o].linked = Quantity
    BY <2>3 DEF g
  <2>5. CASE monitor' = g
    BY <2>1, <2>5
  <2>6. CASE /\ monitor' = [g EXCEPT !.dirty = d]
             /\ money[o].linked = Quantity
    BY <2>1, <2>2, <2>6 DEF Pass
  <2> QED BY <2>4, <2>5, <2>6
<1>3. Provided(o) /\ rewards[o].points = 0 BY InTurn
<1>4. \A p \in Orders : Provided(p) => Provided(p)'
  BY DEF Provided, Exists, Kind, shop
<1>5. MonitorOK'
  <2>1. \A p \in monitor'.todo :
          p \in monitor.todo /\ p \in Orders \ {o}
    BY <1>1, <1>2 DEF Pass
  <2>2. \A p \in monitor'.todo :
       /\ Provided(p)' /\ monitor'.dirty[p] = 0
       /\ money'[p].linked \in {0, Quantity} /\ rewards'[p].points = 0
    BY <1>2, <1>4, <2>1 DEF IInv, MonitorOK
  <2>3. \A p \in Orders : monitor'.dirty[p] > 0 =>
       /\ Provided(p)'
       /\ money'[p].linked = Quantity /\ rewards'[p].points = 0
    BY <1>2, <1>3, <1>4 DEF IInv, MonitorOK
  <2> QED BY <1>2, <2>2, <2>3 DEF MonitorOK
<1>6. \A p \in Orders : (Exists(p) <=> Exists(p)') /\ OrderOK(p)'
  BY OrderKept DEF Untouched, StockKept, Exists, shop
<1>7. Grows BY <1>4 DEF Grows, shop
<1>8. ShopType' BY <1>1 DEF ShopType, shop
<1> QED BY <1>2, <1>5, <1>6, <1>7, <1>8, MonitorStep

LEMMA CheckFailsStep ==
  ASSUME IInv, NEW o \in Orders, CheckFails(o) PROVE IInv'
<1>1. Turn(o) /\ faults' \in 0 .. MaxFaults
      /\ UNCHANGED shop /\ UNCHANGED <<item, admin, money, rewards>>
  BY Typed, ProductOrdersAssumption DEF CheckFails, IInv, ShopType
<1>2. CASE Commit(o, "loop", row[o])
  BY <1>1, <1>2, InTurn, MonitorWrites DEF StatusOK, Provided
<1>3. CASE monitor' = Goes(o, "loop") /\ UNCHANGED row
  <2>1. 0 \in 0 .. Quantity BY ProductOrdersAssumption
  <2> QED BY <1>1, <1>3, <2>1, TurnLost
<1> QED BY <1>2, <1>3 DEF CheckFails

LEMMA StillProcessingStep ==
  ASSUME IInv, NEW o \in Orders, StillProcessing(o) PROVE IInv'
<1>1. Turn(o) /\ faults' \in 0 .. MaxFaults
      /\ UNCHANGED shop /\ UNCHANGED <<item, admin, money, rewards>>
  BY Typed DEF StillProcessing, IInv, ShopType
<1>2. Commit(o, "loop", row[o]) BY DEF StillProcessing
<1> QED BY <1>1, <1>2, InTurn, MonitorWrites DEF StatusOK, Provided

LEMMA HandleCompletedStep ==
  ASSUME IInv, NEW o \in Orders, HandleCompleted(o) PROVE IInv'
<1>1. Turn(o) /\ faults' \in 0 .. MaxFaults
      /\ UNCHANGED shop /\ UNCHANGED <<item, admin, money, rewards>>
  BY Typed DEF HandleCompleted, IInv, ShopType
<1>2. PICK new \in OrderRow :
        new.status = "completed" /\ Commit(o, "completed", new)
  BY <1>1, InTurn, BecomesRow DEF HandleCompleted, Status
<1> QED BY <1>1, <1>2, InTurn, MonitorWrites

LEMMA HandleFailedStep ==
  ASSUME IInv, NEW o \in Orders, HandleFailed(o) PROVE IInv'
<1>1. Turn(o) /\ faults' \in 0 .. MaxFaults
      /\ UNCHANGED shop /\ UNCHANGED <<item, admin, money, rewards>>
  BY Typed DEF HandleFailed, IInv, ShopType
<1>2. PICK new \in OrderRow :
        new.status = "failed" /\ Commit(o, "failed", new)
  BY <1>1, InTurn, BecomesRow DEF HandleFailed, Status
<1> QED BY <1>1, <1>2, InTurn, MonitorWrites

LEMMA HandlePartialStep ==
  ASSUME IInv, NEW o \in Orders, HandlePartial(o) PROVE IInv'
<1>1. Turn(o) /\ faults' \in 0 .. MaxFaults
      /\ UNCHANGED shop /\ UNCHANGED <<item, admin, rewards>>
  BY Typed DEF HandlePartial, IInv, ShopType
<1>2. PICK left \in 0 .. Quantity :
        \/ /\ left = 0 /\ UNCHANGED money
           /\ Commit(o, "loop", Partial(o, left))
        \/ /\ left > 0 /\ Credit(o, left)
           /\ Commit(o, "loop", Partial(o, left))
        \/ /\ left > 0 /\ Refused(o, left)
           /\ monitor' = [Goes(o, "loop") EXCEPT !.dirty[o] = left]
           /\ UNCHANGED <<row, money>>
  BY DEF HandlePartial
<1>3. ShopType BY Typed DEF IInv
<1>4. PICK new \in OrderRow :
        /\ new = Partial(o, left)
        /\ new.status = "partial" /\ new.remains = left
  <2> DEFINE r == [row[o] EXCEPT !.status = "partial", !.remains = left]
  <2>1. row[o] \in OrderRow BY <1>1, InTurn
  <2>2. r \in OrderRow /\ r.status = "partial" /\ r.remains = left
    BY <2>1 DEF OrderRow, Status
  <2> QED BY <2>2 DEF Partial
<1>5. CASE left = 0 /\ UNCHANGED money /\ Commit(o, "loop", Partial(o, left))
  <2>1. money[o].linked >= 0
    BY <1>3 DEF ShopType, Money
  <2> QED BY <1>1, <1>4, <1>5, <2>1, InTurn, MonitorWrites
<1>6. CASE left > 0 /\ Credit(o, left) /\ Commit(o, "loop", Partial(o, left))
  <2>1. PICK m \in Money :
          /\ money' = [money EXCEPT ![o] = m] /\ m.linked = left
          /\ m.paid = money[o].paid /\ m.plain = money[o].plain
    <3> DEFINE c == [money[o] EXCEPT !.linked = left]
    <3>1. /\ c \in Money /\ c.linked = left
          /\ c.paid = money[o].paid /\ c.plain = money[o].plain
      BY <1>3, ProductOrdersAssumption DEF ShopType, Money
    <3>2. money' = [money EXCEPT ![o] = c] BY <1>6 DEF Credit
    <3> QED BY <3>1, <3>2
  <2>2. money[o].linked = Quantity => left = Quantity
    BY <1>6, ProductOrdersAssumption DEF Credit
  <2>3. PICK w \in Rewards :
          ~(w.points > 0) /\ rewards' = [rewards EXCEPT ![o] = w]
    BY <1>1, <1>3, InTurn DEF ShopType
  <2>4. /\ m.linked <= Quantity /\ m.linked >= new.remains
        /\ money[o].linked = Quantity => m.linked = Quantity
        /\ new.status # "processing" /\ new.status # "refunded"
    BY <1>4, <2>1, <2>2, ProductOrdersAssumption
  <2>5. Provided(o) /\ Commit(o, "loop", new) /\ UNCHANGED <<item, admin>>
    BY <1>1, <1>4, <1>6, InTurn
  <2> QED
    BY <1>1, <2>1, <2>3, <2>4, <2>5, MonitorCommits
<1>7. CASE /\ left > 0 /\ Refused(o, left)
           /\ monitor' = [Goes(o, "loop") EXCEPT !.dirty[o] = left]
           /\ UNCHANGED <<row, money>>
  <2>1. money[o].linked = Quantity BY <1>1, <1>7, InTurn DEF Refused
  <2> QED BY <1>1, <1>7, <2>1, TurnLost
<1> QED BY <1>2, <1>5, <1>6, <1>7

LEMMA CompletedRewardedStep ==
  ASSUME IInv, CompletedRewarded PROVE IInv'
<1>1. PICK o \in Orders : o = monitor.cur /\ Provided(o)
  BY DEF CompletedRewarded, IInv, MonitorOK, Provided
<1>2. ShopType /\ row[o] \in OrderRow
      /\ row[o].status \in {"completed", "refunded"}
  BY <1>1, Typed, RowFields
  DEF CompletedRewarded, IInv, MonitorOK, Provided
<1>3. UNCHANGED shop /\ UNCHANGED <<item, admin, money>>
      /\ faults' \in 0 .. MaxFaults /\ Commit(o, "loop", row[o])
  BY <1>1, <1>2 DEF CompletedRewarded, ShopType
<1>4. PICK w \in Rewards : rewards' = [rewards EXCEPT ![o] = w]
  <2> DEFINE v == [sold |-> rewards[o].sold + 1, cash |-> rewards[o].cash,
                   points |-> 1]
  <2>1. v \in Rewards BY <1>2 DEF ShopType, Rewards
  <2>2. rewards' = [rewards EXCEPT ![o] = v]
    BY <1>1 DEF CompletedRewarded, Reward
  <2> QED BY <2>1, <2>2
<1>5. PICK m \in Money :
        m = money[o] /\ m.linked <= Quantity /\ money' = [money EXCEPT ![o] = m]
  BY <1>2, <1>3 DEF ShopType, IInv, MoneyOK
<1>6. row[o].status = "refunded" => money[o].linked = Quantity
  BY <1>1 DEF IInv, StatusOK, Provided
<1> QED BY <1>1, <1>2, <1>3, <1>4, <1>5, <1>6, MonitorCommits

LEMMA FailedCreditStep ==
  ASSUME IInv, FailedCredit PROVE IInv'
<1>1. PICK o \in Orders : o = monitor.cur /\ Provided(o)
  BY DEF FailedCredit, IInv, MonitorOK, Provided
<1>2. ShopType /\ row[o] \in OrderRow /\ row[o].remains \in 0 .. Quantity
      /\ rewards[o].points = 0 /\ StatusOK(o)
  BY <1>1, Typed, RowFields DEF FailedCredit, IInv, MonitorOK, Provided
<1>3. UNCHANGED shop /\ UNCHANGED <<item, admin>> /\ rewards' = rewards
      /\ faults' \in 0 .. MaxFaults /\ Commit(o, "credited", row[o])
      /\ Credit(o, Quantity)
  BY <1>1, <1>2 DEF FailedCredit, ShopType
<1>4. PICK m \in Money :
        /\ money' = [money EXCEPT ![o] = m] /\ m.linked = Quantity
        /\ m.paid = money[o].paid /\ m.plain = money[o].plain
  <2> DEFINE c == [money[o] EXCEPT !.linked = Quantity]
  <2>1. /\ c \in Money /\ c.linked = Quantity
        /\ c.paid = money[o].paid /\ c.plain = money[o].plain
    BY <1>2, ProductOrdersAssumption DEF ShopType, Money
  <2>2. money' = [money EXCEPT ![o] = c] BY <1>3 DEF Credit
  <2> QED BY <2>1, <2>2
<1>5. PICK w \in Rewards :
        /\ w.points = 0 /\ ~(w.points > 0)
        /\ rewards' = [rewards EXCEPT ![o] = w]
  BY <1>2, <1>3 DEF ShopType
<1>6. /\ m.linked <= Quantity /\ m.linked >= row[o].remains
      /\ m.linked \in {0, Quantity}
  BY <1>2, <1>4, ProductOrdersAssumption
<1>7. row[o] \in OrderRow /\ Provided(o) BY <1>1, <1>2
<1> QED BY <1>3, <1>4, <1>5, <1>6, <1>7, MonitorCommits

LEMMA FailedRefundedStep ==
  ASSUME IInv, FailedRefunded PROVE IInv'
<1>1. PICK o \in Orders : o = monitor.cur /\ Provided(o)
  BY DEF FailedRefunded, IInv, MonitorOK, Provided
<1>2. ShopType /\ row[o] \in OrderRow /\ money[o].linked = Quantity
      /\ rewards[o].points = 0
  BY <1>1, Typed, RowFields DEF FailedRefunded, IInv, MonitorOK, Provided
<1>3. PICK new \in OrderRow :
        new.status = "refunded" /\ Commit(o, "loop", new)
  BY <1>1, <1>2, BecomesRow DEF FailedRefunded, Status
<1>4. UNCHANGED shop /\ UNCHANGED <<item, admin, money, rewards>>
      /\ faults' \in 0 .. MaxFaults
  BY <1>2 DEF FailedRefunded, ShopType
<1> QED BY <1>1, <1>2, <1>3, <1>4, MonitorWrites

LEMMA PollStep ==
  ASSUME IInv, Poll PROVE IInv'
BY PassSteps, CheckFailsStep, StillProcessingStep, HandleCompletedStep,
   HandlePartialStep, HandleFailedStep, CompletedRewardedStep,
   FailedCreditStep, FailedRefundedStep DEF Poll

LEMMA StutterStep ==
  ASSUME IInv, UNCHANGED vars PROVE IInv'
<1>1. ShopType' /\ scenario' = scenario
  BY Typed DEF IInv, ShopType, vars
<1>2. Grows /\ Steady /\ UNCHANGED shop /\ UNCHANGED <<item, admin, monitor>>
  BY DEF Grows, Steady, Provided, Exists, Kind, shop, vars
<1>3. MonitorOK' /\ monitor' \in Pass
  BY <1>2, MonitorKept, Typed DEF IInv
<1>4. \A o \in Orders : (Exists(o) <=> Exists(o)') /\ OrderOK(o)'
  BY OrderKept DEF Untouched, StockKept, Exists, vars
<1> QED BY <1>1, <1>2, <1>3, <1>4, MonitorStep

LEMMA Inductive == IInv /\ [Next]_vars => IInv'
<1> SUFFICES ASSUME IInv, [Next]_vars PROVE IInv'
  OBVIOUS
<1> QED
  BY BuySteps, PressStep, HandleStep, PollStep, CrashStep, StutterStep
  DEF Next

\* Every reachable state satisfies the inductive invariant.
THEOREM Invariance == Spec => []IInv
<1>1. Init => IInv BY Initially
<1>2. IInv /\ [Next]_vars => IInv' BY Inductive
<1> QED BY <1>1, <1>2, PTL DEF Spec

-----------------------------------------------------------------------------
(* What follows from it.                                                   *)

\* Rows, money, stock, tasks and the monitor's pass keep their types.
THEOREM TypeCorrect == Spec => []TypeOK
<1>1. IInv => TypeOK BY DEF IInv
<1> QED BY <1>1, Invariance, PTL

\* Nobody gets more back than was paid, whoever refunds.
THEOREM NobodyIsOverRefunded == Spec => []NeverOverRefunded
<1>1. IInv => NeverOverRefunded
  <2> SUFFICES ASSUME IInv, NEW o \in Orders
               PROVE  money[o].plain + money[o].linked <= money[o].paid
    BY DEF NeverOverRefunded
  <2>1. money[o] \in Money BY Typed DEF IInv, ShopType
  <2> QED BY <2>1, ProductOrdersAssumption DEF IInv, MoneyOK, Money
<1> QED BY <1>1, Invariance, PTL

\* An order shown as refunded was credited its whole price.
THEOREM RefundedArePaid == Spec => []RefundedIsPaidBack
<1>1. IInv => RefundedIsPaidBack
  BY DEF IInv, StatusOK, RefundedIsPaidBack, Placed
<1> QED BY <1>1, Invariance, PTL

\* An order shown as partial was credited what remains of it.
THEOREM PartialArePaid == Spec => []PartialIsPaidBack
<1>1. IInv => PartialIsPaidBack
  BY DEF IInv, StatusOK, PartialIsPaidBack, Placed
<1> QED BY <1>1, Invariance, PTL

\* What the inventory delivered stays delivered.
THEOREM InventoryIsFinal == Spec => []DeliveredIsFinal
<1>1. IInv => DeliveredIsFinal
  BY DEF IInv, ItemOK, DeliveredIsFinal
<1> QED BY <1>1, Invariance, PTL

\* The coupon's counter, its usages and the orders at its price agree.
THEOREM CouponsAreHonoured == Spec => []CouponHonoured
<1>1. IInv => CouponHonoured
  BY DEF IInv, CouponOK, Holds, CouponHonoured
<1> QED BY <1>1, Invariance, PTL

\* Sales, cashback and points come from orders that were not given up.
THEOREM RewardsAreEarned == Spec => []RewardsFollowOrders
<1>1. IInv => RewardsFollowOrders
  BY DEF IInv, MoneyOK, StatusOK, RewardsFollowOrders, Placed
<1> QED BY <1>1, Invariance, PTL

-----------------------------------------------------------------------------
(* Uses of the promotion.                                                  *)

\* Orders and the price they were saved with stay.
PromoRows ==
  \A o \in Orders :
    Exists(o) => Exists(o)' /\ (row'[o].promo <=> row[o].promo)

LEMMA PromoKept ==
  ASSUME IInv, PromoOK, IsFiniteSet(Orders), promo' = promo, PromoRows,
         \A o \in Orders : buyer'[o].at = "saved" =>
           \/ buyer[o].at = "saved" /\ buyer'[o].disc = buyer[o].disc
           \/ ~Exists(o) /\ (row'[o].promo <=> buyer'[o].disc = "promo")
  PROVE  PromoOK'
<1>1. Counted \subseteq Counted'
  BY DEF Counted, PromoRows
<1>2. IsFiniteSet(Counted')
  BY FS_Subset DEF Counted
<1>3. Cardinality(Counted) <= Cardinality(Counted')
  BY <1>1, <1>2, FS_Subset
<1>4. /\ promo \in Nat
      /\ Cardinality(Counted) \in Nat /\ Cardinality(Counted') \in Nat
  BY <1>1, <1>2, FS_Subset, FS_CardinalityType DEF IInv, TypeOK
<1>5. promo' <= Cardinality(Counted')
  BY <1>3, <1>4 DEF PromoOK
<1>6. \A o \in Orders : buyer[o].at = "saved" => Exists(o)
  BY DEF IInv, MoneyOK
<1> QED BY <1>5, <1>6 DEF PromoOK, PromoRows

\* No commit of the monitor changes what an order was saved with.
LEMMA CommitPromo ==
  ASSUME IInv, NEW o \in Orders, NEW at, NEW new \in OrderRow,
         new.promo = row[o].promo, Commit(o, at, new)
  PROVE  PromoRows
<1>1. ShopType /\ monitor \in Pass BY Typed DEF IInv
<1> DEFINE part(p) == [row[p] EXCEPT !.status = "partial",
                                     !.remains = monitor.dirty[p]]
<1>2. ASSUME NEW p \in Orders, Exists(p)
      PROVE  part(p).promo = row[p].promo /\ part(p) # NoRow
  <2>1. row[p] \in OrderRow BY <1>1, <1>2, RowFields
  <2>2. monitor.dirty[p] \in 0 .. Quantity BY <1>1 DEF Pass
  <2>3. part(p) \in OrderRow /\ part(p).promo = row[p].promo
    BY <2>1, <2>2 DEF OrderRow, Status
  <2> QED BY <2>3, NoRowAssumption
<1>3. row' = [p \in Orders |-> IF p = o THEN new
                               ELSE IF monitor.dirty[p] > 0 THEN part(p)
                               ELSE row[p]]
  BY DEF Commit
<1> HIDE DEF part
<1>4. \A p \in Orders : row'[p] = IF p = o THEN new
                                  ELSE IF monitor.dirty[p] > 0 THEN part(p)
                                  ELSE row[p]
  BY <1>3
<1> QED BY <1>2, <1>4, NoRowAssumption DEF PromoRows, Exists

LEMMA PollPromo ==
  ASSUME IInv, Poll PROVE PromoRows /\ promo' = promo /\ buyer' = buyer
<1>1. ShopType /\ monitor \in Pass BY Typed DEF IInv
<1>2. promo' = promo /\ buyer' = buyer
  BY DEF Poll, Snapshot, PassEnds, CompletedRewarded, FailedCredit,
         FailedRefunded, CheckFails, StillProcessing, HandleCompleted,
         HandlePartial, HandleFailed, shop
<1>3. CASE row' = row
  BY <1>2, <1>3 DEF PromoRows, Exists
<1>4. CASE \E o \in Orders, at \in {"loop", "completed", "failed", "credited"} :
             \E s \in Status, left \in 0 .. Quantity :
               /\ Provided(o)
               /\ \/ Commit(o, at, row[o]) \/ Commit(o, at, Becomes(o, s))
                  \/ Commit(o, at, Partial(o, left))
  <2>1. PICK o \in Orders, at \in {"loop", "completed", "failed", "credited"},
             s \in Status, left \in 0 .. Quantity :
               /\ Provided(o)
               /\ \/ Commit(o, at, row[o]) \/ Commit(o, at, Becomes(o, s))
                  \/ Commit(o, at, Partial(o, left))
    BY <1>4
  <2>2. row[o] \in OrderRow BY <1>1, <2>1, RowFields DEF Provided
  <2>3. /\ Becomes(o, s) \in OrderRow /\ Becomes(o, s).promo = row[o].promo
        /\ Partial(o, left) \in OrderRow
        /\ Partial(o, left).promo = row[o].promo
    BY <2>2 DEF Becomes, Partial, OrderRow, Status
  <2> QED BY <1>2, <2>1, <2>2, <2>3, CommitPromo
<1>5. row' = row \/ \E o \in Orders,
                      at \in {"loop", "completed", "failed", "credited"} :
             \E s \in Status, left \in 0 .. Quantity :
               /\ Provided(o)
               /\ \/ Commit(o, at, row[o]) \/ Commit(o, at, Becomes(o, s))
                  \/ Commit(o, at, Partial(o, left))
  <2>1. 0 \in 0 .. Quantity /\ "completed" \in Status /\ "failed" \in Status
        /\ "refunded" \in Status
    BY ProductOrdersAssumption DEF Status
  <2>2. \A o \in Orders : Turn(o) => Provided(o) BY InTurn
  <2>3. CASE Snapshot \/ PassEnds BY <2>3 DEF Snapshot, PassEnds
  <2>4. CASE CompletedRewarded \/ FailedCredit \/ FailedRefunded
    <3>1. monitor.cur \in Orders /\ Provided(monitor.cur)
      BY <2>4 DEF CompletedRewarded, FailedCredit, FailedRefunded, IInv,
                  MonitorOK, Provided
    <3> QED
      BY <2>1, <2>4, <3>1 DEF CompletedRewarded, FailedCredit, FailedRefunded
  <2>5. ASSUME NEW o \in Orders, CheckFails(o) \/ StillProcessing(o)
        PROVE  row' = row \/ (Provided(o) /\ Commit(o, "loop", row[o]))
    BY <2>2, <2>5 DEF CheckFails, StillProcessing
  <2>6. ASSUME NEW o \in Orders, HandleCompleted(o) \/ HandleFailed(o)
        PROVE  Provided(o) /\ \/ Commit(o, "completed", Becomes(o, "completed"))
                              \/ Commit(o, "failed", Becomes(o, "failed"))
    BY <2>2, <2>6 DEF HandleCompleted, HandleFailed
  <2>7. ASSUME NEW o \in Orders, HandlePartial(o)
        PROVE  row' = row \/ /\ Provided(o)
                             /\ \E left \in 0 .. Quantity :
                                  Commit(o, "loop", Partial(o, left))
    BY <2>2, <2>7 DEF HandlePartial
  <2> QED BY <2>1, <2>3, <2>4, <2>5, <2>6, <2>7 DEF Poll
<1> QED BY <1>2, <1>3, <1>4, <1>5

LEMMA AdminPromo ==
  ASSUME IInv, NEW a \in Admins, Press(a) \/ Handle(a)
  PROVE  PromoRows /\ promo' = promo /\ buyer' = buyer
<1>1. ShopType BY Typed DEF IInv
<1>2. promo' = promo /\ buyer' = buyer
  BY DEF Press, Handle, OrderCompleteRead, OrderRefundRead, VoidItemRead, Begin,
         OrderCompleted, OrderRefundCredit, OrderRefunded, VoidItem, shop
<1>3. \/ row' = row
      \/ \E s \in Status, o \in Orders :
           Provided(o) /\ row' = [row EXCEPT ![o].status = s]
  BY DEF Press, Handle, OrderCompleteRead, OrderRefundRead, VoidItemRead, Begin,
         OrderCompleted, OrderRefundCredit, OrderRefunded, VoidItem, Doing,
         Status, IInv, AdminOK, Provided
<1>4. CASE row' = row
  BY <1>2, <1>4 DEF PromoRows, Exists
<1>5. ASSUME NEW s \in Status, NEW o \in Orders, Provided(o),
             row' = [row EXCEPT ![o].status = s]
      PROVE  PromoRows
  <2> DEFINE r == [row[o] EXCEPT !.status = s]
  <2>1. row[o] \in OrderRow BY <1>1, <1>5, RowFields DEF Provided
  <2>2. r \in OrderRow /\ r.promo = row[o].promo BY <2>1 DEF OrderRow
  <2>3. row' = [row EXCEPT ![o] = r] BY <1>5
  <2> HIDE DEF r
  <2>4. row'[o] = r /\ \A p \in Orders \ {o} : row'[p] = row[p]
    BY <1>1, <2>3 DEF ShopType
  <2> QED BY <2>2, <2>4, NoRowAssumption DEF PromoRows, Exists
<1> QED BY <1>2, <1>3, <1>4, <1>5

\* The steps of a purchase that save no order and count no use.
LEMMA BuyerPromo ==
  ASSUME IInv, NEW o \in Orders,
         \/ Quote(o) \/ Deduct(o) \/ ApplyCoupon(o) \/ PlaceOrder(o)
         \/ RefundBuyer(o) \/ PickItem(o) \/ PurchaseRewarded(o)
  PROVE  /\ row' = row /\ promo' = promo
         /\ \A p \in Orders : buyer'[p].at = "saved" => buyer'[p] = buyer[p]
<1>1. buyer \in [Orders -> Purchase] BY Typed DEF IInv, ShopType
<1>2. row' = row /\ promo' = promo
  BY DEF Quote, Deduct, ApplyCoupon, PlaceOrder, RefundBuyer, PickItem,
         PurchaseRewarded, desk
<1>3. \E r \in Purchase : r.at # "saved" /\ buyer' = [buyer EXCEPT ![o] = r]
  <2>1. CASE Quote(o)
    <3>1. PICK d \in {"none", "promo", "coupon"} :
            buyer' = [buyer EXCEPT ![o].at = "quoted", ![o].disc = d]
      BY <2>1 DEF Quote
    <3> DEFINE r == [buyer[o] EXCEPT !.at = "quoted", !.disc = d]
    <3>2. r \in Purchase /\ r.at # "saved" BY <1>1 DEF Purchase
    <3>3. buyer' = [buyer EXCEPT ![o] = r] BY <1>1, <3>1
    <3> QED BY <3>2, <3>3
  <2>2. CASE PickItem(o) /\ ~Buying(o, "quoted", "over")
    <3>1. PICK i \in Items :
            buyer' = [buyer EXCEPT ![o].at = "picked", ![o].item = i]
      BY <2>2 DEF PickItem
    <3> DEFINE r == [buyer[o] EXCEPT !.at = "picked", !.item = i]
    <3>2. r \in Purchase /\ r.at # "saved" BY <1>1 DEF Purchase
    <3>3. buyer' = [buyer EXCEPT ![o] = r] BY <1>1, <3>1
    <3> QED BY <3>2, <3>3
  <2>3. CASE \E from \in {"quoted", "paid", "applied", "refunding", "marked"},
                to \in {"over", "paid", "applied", "refunding", "placed"} :
               Buying(o, from, to)
    BY <2>3, Moved
  <2> QED
    BY <2>1, <2>2, <2>3 DEF Deduct, ApplyCoupon, PlaceOrder, RefundBuyer,
                            PickItem, PurchaseRewarded
<1> QED BY <1>1, <1>2, <1>3

\* The two steps that save an order.
LEMMA SavedPromo ==
  ASSUME IInv, NEW o \in Orders, SaveOrder(o) \/ ReserveItem(o)
  PROVE  /\ PromoRows /\ promo' = promo
         /\ \A p \in Orders : buyer'[p].at = "saved" =>
              \/ buyer'[p] = buyer[p]
              \/ ~Exists(p) /\ (row'[p].promo <=> buyer'[p].disc = "promo")
<1>1. ShopType BY Typed DEF IInv
<1>2. promo' = promo BY DEF SaveOrder, ReserveItem, others
<1>3. CASE Buying(o, "picked", "quoted") /\ UNCHANGED row
  <2>1. \A p \in Orders : buyer'[p].at = "saved" => buyer'[p] = buyer[p]
    BY <1>3, Moved
  <2> QED BY <1>2, <1>3, <2>1 DEF PromoRows, Exists
<1>4. CASE \E from \in {"placed", "picked"}, s \in Status :
             Buying(o, from, "saved") /\ row' = [row EXCEPT ![o] = NewRow(o, s)]
  <2>1. PICK from \in {"placed", "picked"}, s \in Status :
          Buying(o, from, "saved") /\ row' = [row EXCEPT ![o] = NewRow(o, s)]
    BY <1>4
  <2>2. /\ buyer[o].at = from /\ buyer'[o].disc = buyer[o].disc
        /\ \A p \in Orders \ {o} : buyer'[p] = buyer[p]
    BY <2>1, Moved
  <2>3. ~Exists(o) BY <2>2 DEF IInv, MoneyOK
  <2>4. NewRow(o, s).promo = (buyer[o].disc = "promo") BY NewRowType
  <2>5. row'[o] = NewRow(o, s) /\ \A p \in Orders \ {o} : row'[p] = row[p]
    BY <1>1, <2>1 DEF ShopType
  <2>6. PromoRows BY <2>3, <2>5 DEF PromoRows, Exists
  <2>7. row'[o].promo <=> buyer'[o].disc = "promo"
    BY <2>2, <2>4, <2>5
  <2> QED BY <1>2, <2>2, <2>3, <2>6, <2>7
<1> QED BY <1>3, <1>4 DEF SaveOrder, ReserveItem, Status

LEMMA PromoInductive ==
  ASSUME IsFiniteSet(Orders), IInv, PromoOK, [Next]_vars PROVE PromoOK'
<1>1. CASE \E o \in Orders :
             \/ Quote(o) \/ Deduct(o) \/ ApplyCoupon(o) \/ PlaceOrder(o)
             \/ RefundBuyer(o) \/ PickItem(o) \/ PurchaseRewarded(o)
  <2>1. /\ row' = row /\ promo' = promo
        /\ \A p \in Orders : buyer'[p].at = "saved" => buyer'[p] = buyer[p]
    BY <1>1, BuyerPromo
  <2> QED BY <2>1, PromoKept DEF PromoRows, Exists
<1>2. CASE \E o \in Orders : SaveOrder(o) \/ ReserveItem(o)
  <2>1. /\ PromoRows /\ promo' = promo
        /\ \A p \in Orders : buyer'[p].at = "saved" =>
             \/ buyer'[p] = buyer[p]
             \/ ~Exists(p) /\ (row'[p].promo <=> buyer'[p].disc = "promo")
    BY <1>2, SavedPromo
  <2> QED BY <2>1, PromoKept
<1>3. ASSUME NEW o \in Orders, MarkUsed(o) PROVE PromoOK'
  <2>1. PICK to \in {"over", "marked"} : Buying(o, "saved", to)
    BY <1>3 DEF MarkUsed
  <2>2. /\ buyer[o].at = "saved" /\ buyer'[o].at # "saved"
        /\ \A p \in Orders \ {o} : buyer'[p] = buyer[p]
    BY <2>1, Moved
  <2>3. row' = row BY <1>3 DEF MarkUsed, desk
  <2>4. CASE promo' = promo
    BY <2>2, <2>3, <2>4, PromoKept DEF PromoRows, Exists
  <2>5. CASE buyer[o].disc = "promo" /\ promo' = promo + 1
    <3>1. Counted' = Counted \cup {o} /\ o \notin Counted
      BY <2>2, <2>3, <2>5 DEF Counted, PromoOK, IInv, MoneyOK, Exists
    <3>2. IsFiniteSet(Counted) BY FS_Subset DEF Counted
    <3>3. Cardinality(Counted') = Cardinality(Counted) + 1
      BY <3>1, <3>2, FS_AddElement
    <3>4. promo \in Nat /\ Cardinality(Counted) \in Nat
      BY <3>2, FS_CardinalityType DEF IInv, TypeOK
    <3> QED
      BY <2>2, <2>3, <2>5, <3>3, <3>4 DEF PromoOK
  <2> QED BY <1>3, <2>4, <2>5 DEF MarkUsed
<1>4. CASE Poll
  BY <1>4, PollPromo, PromoKept
<1>5. CASE \E a \in Admins : Press(a) \/ Handle(a)
  BY <1>5, AdminPromo, PromoKept
<1>6. CASE Crash
  <2>1. buyer \in [Orders -> Purchase] BY Typed DEF IInv, ShopType
  <2>2. \A o \in Orders : buyer'[o].at # "saved"
    BY <1>6, <2>1 DEF Crash, Purchase
  <2> QED BY <1>6, <2>2, PromoKept DEF Crash, PromoRows, Exists
<1>7. CASE UNCHANGED vars
  BY <1>7, PromoKept DEF vars, PromoRows, Exists
<1> QED BY <1>1, <1>2, <1>3, <1>4, <1>5, <1>6, <1>7 DEF Next, Buy

\* A counted use of the promotion is an order saved at its price; of finitely
\* many orders, as Cardinality says nothing of others.
THEOREM PromotionUses ==
  ASSUME IsFiniteSet(Orders)
  PROVE  Spec => []PromotionUseIsAnOrder
<1>1. Init => PromoOK
  <2> SUFFICES ASSUME Init PROVE PromoOK
    OBVIOUS
  <2>1. Counted = {} BY DEF Counted, Init, Exists
  <2>2. Cardinality(Counted) = 0 BY <2>1, FS_EmptySet
  <2> QED BY <2>2 DEF Init, PromoOK
<1>2. IInv /\ PromoOK /\ [Next]_vars => PromoOK'
  BY PromoInductive
<1>3. IInv /\ PromoOK => PromotionUseIsAnOrder
  <2> SUFFICES ASSUME IInv, PromoOK PROVE PromotionUseIsAnOrder
    OBVIOUS
  <2> DEFINE S == {o \in Orders : Exists(o) /\ row[o].promo}
  <2>1. Counted \subseteq S /\ IsFiniteSet(S) BY FS_Subset DEF Counted
  <2>2. Cardinality(Counted) <= Cardinality(S) BY <2>1, FS_Subset
  <2>3. Cardinality(Counted) \in Nat /\ Cardinality(S) \in Nat
    BY <2>1, FS_Subset, FS_CardinalityType
  <2>4. promo \in Nat BY DEF IInv, TypeOK
  <2> QED BY <2>2, <2>3, <2>4 DEF PromoOK, PromotionUseIsAnOrder
<1> QED BY <1>1, <1>2, <1>3, Invariance, PTL DEF Spec

-----------------------------------------------------------------------------
(* One escrow.                                                             *)

\* What is given back for an order.
Back(o) == money[o].plain + money[o].linked

\* A step that moves money for one order only.
LEMMA OneMovement ==
  ASSUME NEW o \in Orders, \A p \in Orders \ {o} : money'[p] = money[p],
         \/ money[o].paid = 0 /\ money'[o].paid = Quantity /\ Back(o)' = Back(o)
         \/ /\ money[o].paid = Quantity /\ money'[o].paid = Quantity
            /\ Back(o) = 0 /\ Back(o)' \in 1 .. Quantity
         \/ money'[o].paid = money[o].paid /\ Back(o)' = Back(o)
  PROVE  [Account!Next]_(Account!vars)
<1> DEFINE P == [p \in Orders |-> money[p].paid]
           B == [p \in Orders |-> money[p].plain + money[p].linked]
<1>1. /\ P' = [P EXCEPT ![o] = money'[o].paid]
      /\ B' = [B EXCEPT ![o] = money'[o].plain + money'[o].linked]
  OBVIOUS
<1>2. /\ P[o] = money[o].paid /\ B[o] = Back(o)
      /\ P' = [P EXCEPT ![o] = money'[o].paid] /\ B' = [B EXCEPT ![o] = Back(o)']
  BY <1>1 DEF Back
<1>3. (P' = P <=> money'[o].paid = money[o].paid) /\ (B' = B <=> Back(o)' = Back(o))
  BY <1>2 DEF Back
<1>4. CASE money[o].paid = 0 /\ money'[o].paid = Quantity /\ Back(o)' = Back(o)
  <2>1. Account!Pay(o) BY <1>2, <1>3, <1>4 DEF Account!Pay
  <2> QED BY <2>1 DEF Account!Next
<1>5. CASE /\ money[o].paid = Quantity /\ money'[o].paid = Quantity
           /\ Back(o) = 0 /\ Back(o)' \in 1 .. Quantity
  <2>1. PICK amount \in 1 .. Quantity : amount = Back(o)'
    BY <1>5
  <2>2. B' = [B EXCEPT ![o] = amount] /\ P' = P
    BY <1>2, <1>3, <1>5, <2>1
  <2>3. Account!Return(o, amount)
    BY <1>2, <1>5, <2>2 DEF Account!Return
  <2> QED BY <2>3 DEF Account!Next
<1>6. CASE money'[o].paid = money[o].paid /\ Back(o)' = Back(o)
  <2>1. UNCHANGED Account!vars BY <1>3, <1>6 DEF Account!vars
  <2> QED BY <2>1
<1> QED BY <1>4, <1>5, <1>6

LEMMA NoMovement ==
  ASSUME UNCHANGED money PROVE [Account!Next]_(Account!vars)
<1>1. UNCHANGED Account!vars BY DEF Account!vars
<1> QED BY <1>1

\* A credit that names the order.
LEMMA CreditMovement ==
  ASSUME IInv, NEW o \in Orders, Exists(o), NEW amount \in 1 .. Quantity,
         Credit(o, amount)
  PROVE  [Account!Next]_(Account!vars)
<1>1. money \in [Orders -> Money] /\ MoneyOK(o)
  BY Typed DEF IInv, ShopType
<1>2. money[o].paid = Quantity /\ money[o].plain = 0
  BY <1>1 DEF MoneyOK
<1>3. /\ money'[o].paid = money[o].paid /\ money'[o].plain = money[o].plain
      /\ money'[o].linked = amount
      /\ \A p \in Orders \ {o} : money'[p] = money[p]
  BY <1>1 DEF Credit, Money
<1>4. money[o].linked \in {0, amount} BY DEF Credit
<1>5. CASE money[o].linked = 0
  <2>1. Back(o) = 0 /\ Back(o)' = amount
    BY <1>2, <1>3, <1>5 DEF Back
  <2> QED BY <1>2, <1>3, <2>1, OneMovement
<1>6. CASE money[o].linked = amount
  BY <1>3, <1>6, OneMovement DEF Back
<1> QED BY <1>4, <1>5, <1>6

LEMMA BuyMovement ==
  ASSUME IInv, NEW o \in Orders, Buy(o)
  PROVE  [Account!Next]_(Account!vars)
<1>1. money \in [Orders -> Money] /\ MoneyOK(o)
  BY Typed DEF IInv, ShopType
<1>2. CASE UNCHANGED money
  BY <1>2, NoMovement
<1>3. CASE /\ money' = [money EXCEPT ![o].paid = money[o].paid + Quantity]
           /\ buyer[o].at \in {"quoted", "picked"}
  <2>1. money[o].paid = 0
    BY <1>1, <1>3 DEF MoneyOK
  <2>2. /\ money'[o].paid = Quantity /\ money'[o].plain = money[o].plain
        /\ money'[o].linked = money[o].linked
        /\ \A p \in Orders \ {o} : money'[p] = money[p]
    BY <1>1, <1>3, <2>1, ProductOrdersAssumption DEF Money
  <2> QED BY <2>1, <2>2, OneMovement DEF Back
<1>4. CASE RefundBuyer(o)
  <2>1. money[o].paid = Quantity /\ money[o].plain = 0 /\ money[o].linked = 0
    BY <1>1, <1>4 DEF RefundBuyer, Buying, MoneyOK
  <2>2. /\ money'[o].paid = Quantity /\ money'[o].plain = Quantity
        /\ money'[o].linked = 0
        /\ \A p \in Orders \ {o} : money'[p] = money[p]
    BY <1>1, <1>4, <2>1, ProductOrdersAssumption DEF RefundBuyer, Money
  <2>3. Back(o) = 0 /\ Back(o)' = Quantity /\ Quantity \in 1 .. Quantity
    BY <2>1, <2>2, ProductOrdersAssumption DEF Back
  <2> QED BY <2>1, <2>2, <2>3, OneMovement
<1> QED BY <1>2, <1>3, <1>4
        DEF Buy, Deduct, ApplyCoupon, PlaceOrder, SaveOrder, PickItem,
            ReserveItem, MarkUsed, PurchaseRewarded, Buying

LEMMA DeskMovement ==
  ASSUME IInv, NEW a \in Admins, Handle(a)
  PROVE  [Account!Next]_(Account!vars)
<1>1. CASE UNCHANGED money
  BY <1>1, NoMovement
<1>2. CASE Doing(a, "refund") /\ Credit(admin[a].id, Quantity)
  <2>1. PICK o \in Orders : o = admin[a].id /\ Exists(o)
    BY <1>2 DEF Doing, IInv, AdminOK, Provided
  <2>2. Quantity \in 1 .. Quantity BY ProductOrdersAssumption
  <2> QED BY <1>2, <2>1, <2>2, CreditMovement
<1> QED BY <1>1, <1>2
        DEF Handle, OrderCompleted, OrderRefundCredit, OrderRefunded, VoidItem

LEMMA PollMovement ==
  ASSUME IInv, Poll
  PROVE  [Account!Next]_(Account!vars)
<1>1. CASE UNCHANGED money
  BY <1>1, NoMovement
<1>2. CASE FailedCredit
  <2>1. PICK o \in Orders : o = monitor.cur /\ Exists(o)
    BY <1>2 DEF FailedCredit, IInv, MonitorOK, Provided
  <2>2. Quantity \in 1 .. Quantity BY ProductOrdersAssumption
  <2> QED BY <1>2, <2>1, <2>2, CreditMovement DEF FailedCredit
<1>3. ASSUME NEW o \in Orders, HandlePartial(o)
      PROVE  [Account!Next]_(Account!vars)
  <2>1. PICK left \in 0 .. Quantity : UNCHANGED money \/ (left > 0 /\ Credit(o, left))
    BY <1>3 DEF HandlePartial
  <2>2. CASE left > 0 /\ Credit(o, left)
    <3>1. Exists(o) BY <1>3, InTurn DEF HandlePartial, Provided
    <3>2. left \in 1 .. Quantity BY <2>2, ProductOrdersAssumption
    <3> QED BY <2>2, <3>1, <3>2, CreditMovement
  <2> QED BY <1>1, <2>1, <2>2
<1> QED BY <1>1, <1>2, <1>3
        DEF Poll, Snapshot, PassEnds, CheckFails, StillProcessing,
            HandleCompleted, CompletedRewarded, HandleFailed, FailedRefunded

\* To the buyer every purchase is one escrow: the price is taken once and given
\* back at most once, in full or by the piece, whoever tries.
THEOREM OneEscrow == Spec => ImplementsEscrow
<1>1. Init => Account!Init
  BY DEF Init, Account!Init
<1>2. IInv /\ [Next]_vars => [Account!Next]_(Account!vars)
  <2> SUFFICES ASSUME IInv, [Next]_vars PROVE [Account!Next]_(Account!vars)
    OBVIOUS
  <2>1. CASE UNCHANGED money
    BY <2>1, NoMovement
  <2>2. (\E o \in Orders : Buy(o)) \/ (\E a \in Admins : Handle(a)) \/ Poll
        \/ UNCHANGED money
    BY DEF Next, vars, Quote, Press, OrderCompleteRead, OrderRefundRead,
           VoidItemRead, Begin, Crash
  <2> QED BY <2>1, <2>2, BuyMovement, DeskMovement, PollMovement
<1> QED BY <1>1, <1>2, Invariance, PTL DEF Spec, ImplementsEscrow, Account!Spec

-----------------------------------------------------------------------------
(* Nobody is forgotten.  The property is kept by every step from a state   *)
(* that satisfies the inductive invariant to another one: what a step does *)
(* not care for any more it has finished or paid back.                     *)

Served(o) ==
  ~crashed /\ Owed(o) /\ trouble[o] = "none" =>
    Placed(o, "completed") \/ Placed(o, "partial") \/ CaredFor(o)

\* An order that a step leaves where it is.
LEMMA ServedKept ==
  ASSUME NEW o \in Orders, Served(o), crashed' = crashed,
         row'[o] = row[o], money'[o] = money[o], trouble'[o] = trouble[o],
         \/ buyer'[o].at = buyer[o].at
         \/ buyer[o].at \in {"saved", "marked"},
         monitor.at = "failed" /\ monitor.cur = o =>
           monitor'.at = "failed" /\ monitor'.cur = o
  PROVE  Served(o)'
BY DEF Served, Owed, Placed, CaredFor, Exists

LEMMA PaidBack ==
  ASSUME NEW o \in Orders, IInv',
         \/ buyer'[o].at \in {"idle", "quoted", "picked"}
         \/ money'[o].plain > 0 \/ money'[o].linked = Quantity
  PROVE  ~Owed(o)'
<1>1. TypeOK' /\ MoneyOK(o)' BY DEF IInv
<1>2. money'[o] \in Money BY <1>1 DEF TypeOK, Money
<1> QED BY <1>1, <1>2, ProductOrdersAssumption DEF Money, MoneyOK, Owed

\* A step of a purchase leaves the others alone.
LEMMA OthersUntouched ==
  ASSUME IInv, NEW o \in Orders, Quote(o) \/ Buy(o)
  PROVE  /\ UNCHANGED <<crashed, monitor>>
         /\ \A p \in Orders \ {o} :
              /\ row'[p] = row[p] /\ money'[p] = money[p]
              /\ trouble'[p] = trouble[p] /\ buyer'[p] = buyer[p]
<1>1. ShopType BY Typed DEF IInv
<1>2. CASE Quote(o)
  BY <1>1, <1>2 DEF Quote, desk, others, ShopType
<1>3. CASE Deduct(o)
  BY <1>1, <1>3 DEF Deduct, Buying, desk, others, ShopType
<1>4. CASE ApplyCoupon(o)
  BY <1>1, <1>4 DEF ApplyCoupon, Buying, desk, others, ShopType
<1>5. CASE PlaceOrder(o)
  BY <1>1, <1>5 DEF PlaceOrder, Buying, desk, others, ShopType
<1>6. CASE RefundBuyer(o)
  BY <1>1, <1>6 DEF RefundBuyer, Buying, desk, others, ShopType
<1>7. CASE SaveOrder(o)
  BY <1>1, <1>7 DEF SaveOrder, Buying, others, ShopType
<1>8. CASE PickItem(o)
  BY <1>1, <1>8 DEF PickItem, Buying, desk, others, ShopType
<1>9. CASE ReserveItem(o)
  BY <1>1, <1>9 DEF ReserveItem, Buying, others, ShopType
<1>10. CASE MarkUsed(o)
  BY <1>1, <1>10 DEF MarkUsed, Buying, desk, others, ShopType
<1>11. CASE PurchaseRewarded(o)
  BY <1>1, <1>11 DEF PurchaseRewarded, Buying, desk, others, ShopType
<1> QED
  BY <1>2, <1>3, <1>4, <1>5, <1>6, <1>7, <1>8, <1>9, <1>10, <1>11 DEF Buy

LEMMA BuyerServes ==
  ASSUME IInv, IInv', NEW o \in Orders, Quote(o) \/ Buy(o), Served(o)
  PROVE  Served(o)'
<1>1. ShopType BY Typed DEF IInv
<1>2. \A from, to : Buying(o, from, to) =>
        buyer[o].at = from /\ buyer'[o].at = to
  BY <1>1 DEF Buying, ShopType, Purchase
<1>3. CASE buyer'[o].at \in {"idle", "quoted", "picked"}
  <2>1. ~Owed(o)' BY <1>3, PaidBack
  <2> QED BY <2>1 DEF Served
<1>4. CASE buyer'[o].at \in {"paid", "applied", "refunding", "placed"}
  BY <1>4 DEF Served, CaredFor
<1>5. CASE buyer[o].at = "quoted" /\ UNCHANGED money
  <2>1. ~Owed(o)
    BY <1>1, <1>5 DEF IInv, MoneyOK, ShopType, Money, Owed
  <2> QED BY <1>5, <2>1 DEF Served, Owed
<1>6. CASE trouble'[o] # "none"
  BY <1>6 DEF Served
<1>7. CASE Quote(o)
  <2>1. buyer'[o].at = "quoted"
    BY <1>1, <1>7 DEF Quote, ShopType, Purchase
  <2> QED BY <1>3, <2>1
<1>8. CASE Deduct(o)
  BY <1>2, <1>4, <1>5, <1>8 DEF Deduct
<1>9. CASE ApplyCoupon(o)
  <2>1. buyer'[o].at \in {"applied", "refunding"} \/ trouble'[o] = "coupon"
    BY <1>1, <1>2, <1>9 DEF ApplyCoupon, ShopType
  <2> QED BY <1>4, <1>6, <2>1
<1>10. CASE PlaceOrder(o)
  <2>1. buyer'[o].at \in {"placed", "refunding"} \/ trouble'[o] = "provider"
    BY <1>1, <1>2, <1>10 DEF PlaceOrder, ShopType
  <2> QED BY <1>4, <1>6, <2>1
<1>11. CASE RefundBuyer(o)
  <2>1. money[o] \in Money BY <1>1 DEF ShopType
  <2>2. money'[o] = [money[o] EXCEPT !.plain = money[o].plain + Quantity]
    BY <1>1, <1>11 DEF RefundBuyer, ShopType
  <2>3. money'[o].plain > 0
    BY <2>1, <2>2, ProductOrdersAssumption DEF Money
  <2>4. ~Owed(o)' BY <2>3, PaidBack
  <2> QED BY <2>4 DEF Served
<1>12. CASE SaveOrder(o)
  <2>1. row'[o] = NewRow(o, "processing")
    BY <1>1, <1>12 DEF SaveOrder, ShopType
  <2>2. Placed(o, "processing")'
    BY <2>1, NewRowType DEF Placed, Exists, Status
  <2> QED BY <2>2 DEF Served, CaredFor
<1>13. CASE PickItem(o)
  <2>1. \/ buyer'[o].at = "picked"
        \/ buyer[o].at = "quoted" /\ UNCHANGED money
    BY <1>1, <1>2, <1>13 DEF PickItem, ShopType, Purchase
  <2> QED BY <1>3, <1>5, <2>1
<1>14. CASE ReserveItem(o)
  <2>1. CASE row' = [row EXCEPT ![o] = NewRow(o, "completed")]
    <3>1. row'[o] = NewRow(o, "completed") BY <1>1, <2>1 DEF ShopType
    <3>2. Placed(o, "completed")'
      BY <3>1, NewRowType DEF Placed, Exists, Status
    <3> QED BY <3>2 DEF Served
  <2> QED BY <1>2, <1>3, <1>14, <2>1 DEF ReserveItem
<1>15. CASE MarkUsed(o) \/ PurchaseRewarded(o)
  <2>1. UNCHANGED <<row, money, trouble, crashed, monitor>>
    BY <1>15 DEF MarkUsed, PurchaseRewarded, desk, others
  <2>2. buyer[o].at \in {"saved", "marked"}
    BY <1>2, <1>15 DEF MarkUsed, PurchaseRewarded
  <2> QED BY <2>1, <2>2, ServedKept
<1> QED
  BY <1>7, <1>8, <1>9, <1>10, <1>11, <1>12, <1>13, <1>14, <1>15 DEF Buy

\* An administrator marks an order done, or refunded when it was credited.
LEMMA DeskServes ==
  ASSUME IInv, IInv', NEW a \in Admins, Press(a) \/ Handle(a),
         NEW o \in Orders, Served(o)
  PROVE  Served(o)'
<1>1. ShopType BY Typed DEF IInv
<1>2. UNCHANGED <<crashed, trouble, buyer, monitor>>
  BY DEF Press, Handle, OrderCompleteRead, OrderRefundRead, VoidItemRead, Begin,
         OrderCompleted, OrderRefundCredit, OrderRefunded, VoidItem, shop
<1>3. CASE row' = row /\ money'[o] = money[o]
  BY <1>2, <1>3, ServedKept
<1>4. CASE OrderCompleted(a) /\ o = admin[a].id
  <2>1. Exists(o) BY <1>4 DEF OrderCompleted, Doing, IInv, AdminOK, Provided
  <2>2. row[o] \in OrderRow BY <1>1, <2>1, RowFields
  <2>3. row'[o] = [row[o] EXCEPT !.status = "completed"]
    BY <1>1, <1>4 DEF OrderCompleted, ShopType
  <2>4. row'[o] \in OrderRow /\ row'[o].status = "completed"
    BY <2>2, <2>3 DEF OrderRow, Status
  <2>5. Placed(o, "completed")'
    BY <2>4, NoRowAssumption DEF Placed, Exists
  <2> QED BY <2>5 DEF Served
<1>5. CASE OrderRefundCredit(a) /\ o = admin[a].id /\ Credit(o, Quantity)
  <2>1. money'[o].linked = Quantity
    BY <1>1, <1>5 DEF Credit, ShopType, Money
  <2>2. ~Owed(o)' BY <2>1, PaidBack
  <2> QED BY <2>2 DEF Served
<1>6. CASE OrderRefunded(a) /\ o = admin[a].id
  <2>1. money'[o].linked = Quantity
    BY <1>6 DEF OrderRefunded, IInv, AdminOK
  <2>2. ~Owed(o)' BY <2>1, PaidBack
  <2> QED BY <2>2 DEF Served
<1>7. CASE /\ o # admin[a].id
           /\ OrderCompleted(a) \/ OrderRefundCredit(a) \/ OrderRefunded(a)
  <2>1. row'[o] = row[o] /\ money'[o] = money[o]
    BY <1>1, <1>7
    DEF OrderCompleted, OrderRefundCredit, OrderRefunded, Credit, ShopType
  <2> QED BY <1>2, <2>1, ServedKept
<1>8. CASE OrderRefundCredit(a) /\ o = admin[a].id /\ ~Credit(o, Quantity)
  BY <1>3, <1>8 DEF OrderRefundCredit
<1>9. CASE Press(a) \/ VoidItem(a)
  BY <1>3, <1>9 DEF Press, OrderCompleteRead, OrderRefundRead, VoidItemRead,
                    Begin, VoidItem
<1> QED BY <1>4, <1>5, <1>6, <1>7, <1>8, <1>9 DEF Handle

\* A commit of the monitor: the orders it writes by the way become partial.
LEMMA CommitServes ==
  ASSUME IInv, IInv', NEW c \in Orders,
         NEW at \in {"loop", "completed", "failed", "credited"},
         NEW new \in OrderRow, Commit(c, at, new), UNCHANGED shop,
         NEW o \in Orders, Served(o),
         o # c => money'[o] = money[o],
         monitor.at = "failed" => monitor.cur = c,
         o = c => \/ new.status \in {"completed", "partial", "processing"}
                  \/ at = "failed" \/ money'[o].linked = Quantity
                  \/ money'[o] = money[o] /\ new = row[o] /\ monitor.at = "loop"
  PROVE  Served(o)'
<1>1. /\ monitor' \in Pass
      /\ monitor'.at = at /\ monitor'.todo = monitor.todo \ {c}
      /\ monitor'.cur = IF at = "loop" THEN NoRow ELSE c
      /\ row'[c] = new
      /\ \A p \in Orders \ {c} :
           /\ monitor.dirty[p] = 0 => row'[p] = row[p]
           /\ monitor.dirty[p] > 0 =>
                row'[p] \in OrderRow /\ row'[p].status = "partial"
  BY Committed
<1>2. UNCHANGED <<crashed, trouble, buyer>> BY DEF shop
<1>3. CASE o = c
  <2>1. CASE new.status \in {"completed", "partial", "processing"}
    BY <1>1, <1>3, <2>1, NoRowAssumption DEF Served, Placed, Exists, CaredFor
  <2>2. CASE at = "failed"
    BY <1>1, <1>3, <2>2 DEF Served, CaredFor
  <2>3. CASE money'[o].linked = Quantity
    <3>1. ~Owed(o)' BY <2>3, PaidBack
    <3> QED BY <3>1 DEF Served
  <2>4. CASE money'[o] = money[o] /\ new = row[o] /\ monitor.at = "loop"
    BY <1>1, <1>2, <1>3, <2>4, ServedKept
  <2> QED BY <1>3, <2>1, <2>2, <2>3, <2>4
<1>4. CASE o # c /\ monitor.dirty[o] > 0
  BY <1>1, <1>4, NoRowAssumption DEF Served, Placed, Exists
<1>5. CASE o # c /\ ~(monitor.dirty[o] > 0)
  <2>1. monitor.dirty[o] = 0 BY <1>5, Typed DEF IInv, Pass
  <2> QED BY <1>1, <1>2, <1>5, <2>1, ServedKept
<1> QED BY <1>3, <1>4, <1>5

LEMMA MonitorServes ==
  ASSUME IInv, IInv', Poll, NEW o \in Orders, Served(o)
  PROVE  Served(o)'
<1>1. ShopType /\ monitor \in Pass BY Typed DEF IInv
<1>2. UNCHANGED shop
  BY DEF Poll, Snapshot, PassEnds, CompletedRewarded, FailedCredit,
         FailedRefunded, CheckFails, StillProcessing, HandleCompleted,
         HandlePartial, HandleFailed
<1>3. /\ "completed" \in Status /\ "failed" \in Status /\ "refunded" \in Status
      /\ "partial" \in Status
  BY DEF Status
<1>4. CASE monitor.at # "failed" /\ row' = row /\ money'[o] = money[o]
  BY <1>2, <1>4, ServedKept DEF shop
<1>5. ASSUME NEW c \in Orders, Turn(c),
             \/ Commit(c, "loop", row[c]) \/ HandleCompleted(c)
             \/ HandleFailed(c),
             UNCHANGED money
      PROVE  Served(o)'
  <2>1. row[c] \in OrderRow /\ monitor.at = "loop"
    BY <1>5, InTurn DEF Turn
  <2>2. CASE Commit(c, "loop", row[c])
    BY <1>2, <1>5, <2>1, <2>2, CommitServes
  <2>3. CASE HandleCompleted(c)
    BY <1>2, <1>3, <1>5, <2>1, <2>3, BecomesRow, CommitServes
    DEF HandleCompleted
  <2>4. CASE HandleFailed(c)
    BY <1>2, <1>3, <1>5, <2>1, <2>4, BecomesRow, CommitServes DEF HandleFailed
  <2> QED BY <1>5, <2>2, <2>3, <2>4
<1>6. CASE Snapshot \/ PassEnds
  BY <1>4, <1>6 DEF Snapshot, PassEnds
<1>7. ASSUME NEW c \in Orders, CheckFails(c) PROVE Served(o)'
  BY <1>4, <1>5, <1>7 DEF CheckFails, Turn
<1>8. ASSUME NEW c \in Orders,
             StillProcessing(c) \/ HandleCompleted(c) \/ HandleFailed(c)
      PROVE  Served(o)'
  BY <1>5, <1>8 DEF StillProcessing, HandleCompleted, HandleFailed
<1>9. ASSUME NEW c \in Orders, HandlePartial(c) PROVE Served(o)'
  <2>1. row[c] \in OrderRow /\ monitor.at = "loop"
    BY <1>9, InTurn DEF HandlePartial, Turn
  <2>2. PICK left \in 0 .. Quantity :
          \/ /\ UNCHANGED money \/ Credit(c, left)
             /\ Commit(c, "loop", Partial(c, left))
          \/ UNCHANGED <<row, money>>
    BY <1>9 DEF HandlePartial
  <2>3. CASE UNCHANGED <<row, money>>
    BY <1>4, <2>1, <2>3
  <2>4. CASE /\ UNCHANGED money \/ Credit(c, left)
             /\ Commit(c, "loop", Partial(c, left))
    <3>1. Partial(c, left) \in OrderRow /\ Partial(c, left).status = "partial"
      BY <2>1, <1>3 DEF Partial, OrderRow
    <3>2. o # c => money'[o] = money[o]
      BY <1>1, <2>4 DEF Credit, ShopType
    <3> QED BY <1>2, <2>1, <2>4, <3>1, <3>2, CommitServes
  <2> QED BY <2>2, <2>3, <2>4
<1>10. CASE CompletedRewarded \/ FailedCredit \/ FailedRefunded
  <2>1. PICK c \in Orders : c = monitor.cur /\ Exists(c)
    BY <1>10 DEF CompletedRewarded, FailedCredit, FailedRefunded, IInv,
                 MonitorOK, Provided
  <2>2. row[c] \in OrderRow BY <1>1, <2>1, RowFields
  <2>3. CASE CompletedRewarded
    <3>1. row[c].status \in {"completed", "refunded"}
      BY <2>1, <2>3 DEF CompletedRewarded, IInv, MonitorOK
    <3>2. row[c].status = "refunded" => money'[c].linked = Quantity
      BY <2>1, <2>3 DEF CompletedRewarded, IInv, StatusOK
    <3>3. Commit(c, "loop", row[c]) /\ money' = money
      BY <2>1, <2>3 DEF CompletedRewarded
    <3> QED BY <1>2, <2>1, <2>2, <3>1, <3>2, <3>3, CommitServes
  <2>4. CASE FailedCredit
    <3>1. money'[c].linked = Quantity /\ (o # c => money'[o] = money[o])
      BY <1>1, <2>1, <2>4 DEF FailedCredit, Credit, ShopType, Money
    <3>2. Commit(c, "credited", row[c])
      BY <2>1, <2>4 DEF FailedCredit
    <3> QED BY <1>2, <2>1, <2>2, <3>1, <3>2, CommitServes
  <2>5. CASE FailedRefunded
    <3>1. money'[c].linked = Quantity /\ money' = money
      BY <2>1, <2>5 DEF FailedRefunded, IInv, MonitorOK
    <3>2. Commit(c, "loop", Becomes(c, "refunded"))
      BY <2>1, <2>5 DEF FailedRefunded
    <3>3. Becomes(c, "refunded") \in OrderRow
      BY <1>3, <2>2, BecomesRow
    <3> QED BY <1>2, <2>1, <3>1, <3>2, <3>3, CommitServes
  <2> QED BY <1>10, <2>3, <2>4, <2>5
<1> QED BY <1>6, <1>7, <1>8, <1>9, <1>10 DEF Poll

\* Until a restart an order that was paid is done, paid back or cared for.
THEOREM PaidOrdersAreCaredFor == Spec => []NobodyIsForgotten
<1>1. NobodyIsForgotten <=> \A o \in Orders : Served(o)
  BY DEF NobodyIsForgotten, Served
<1>2. Init => NobodyIsForgotten
  BY DEF Init, NobodyIsForgotten, Owed
<1>3. IInv /\ IInv' /\ NobodyIsForgotten /\ [Next]_vars => NobodyIsForgotten'
  <2> SUFFICES ASSUME IInv, IInv', \A o \in Orders : Served(o), [Next]_vars,
                      NEW o \in Orders
               PROVE  Served(o)'
    BY <1>1 DEF NobodyIsForgotten, Served
  <2>1. ASSUME NEW p \in Orders, Quote(p) \/ Buy(p) PROVE Served(o)'
    <3>1. CASE o = p BY <2>1, <3>1, BuyerServes
    <3>2. CASE o # p BY <2>1, <3>2, OthersUntouched, ServedKept
    <3> QED BY <3>1, <3>2
  <2>2. CASE \E a \in Admins : Press(a) \/ Handle(a)
    BY <2>2, DeskServes
  <2>3. CASE Poll BY <2>3, MonitorServes
  <2>4. CASE Crash BY <2>4 DEF Crash, Served
  <2>5. CASE UNCHANGED vars BY <2>5, ServedKept DEF vars
  <2> QED BY <2>1, <2>2, <2>3, <2>4, <2>5 DEF Next
<1> QED BY <1>2, <1>3, Inductive, Invariance, PTL DEF Spec

-----------------------------------------------------------------------------
(* Debits at the coupon's price.  The refund that never runs needs a use   *)
(* of the coupon by the same user that came first: every other debit leads *)
(* to an order or is given back.                                           *)

\* Whoever has used the coupon has a purchase that got past its use.
Uses == \A u \in coupon.by : \E p \in Orders : Owner(p) = u /\ PastTheCoupon(p)

\* Without that use no purchase ends as a lost debit.
GivenBack(o) ==
  Lost(o) => trouble[o] = "coupon" /\ Owner(o) \in coupon.by

\* Only a purchase that is over has had an error.
Quiet(o) == trouble[o] # "none" => buyer[o].at = "over"

\* What was given up stays given up, and its money is where it was.
LEMMA GivenBackKept ==
  ASSUME NEW o \in Orders, GivenBack(o), crashed' = crashed,
         scenario' = scenario, coupon.by \subseteq coupon'.by,
         trouble'[o] = trouble[o], Exists(o) => Exists(o)',
         buyer'[o] = buyer[o],
         money'[o].paid = money[o].paid /\ money'[o].plain = money[o].plain
  PROVE  GivenBack(o)' /\ (Quiet(o) => Quiet(o)')
BY DEF GivenBack, Lost, Owner, Quiet

LEMMA CreditIsLinked ==
  ASSUME money \in [Orders -> Money], NEW c \in Orders, NEW amount \in Nat,
         Credit(c, amount)
  PROVE  \A o \in Orders : /\ money'[o].paid = money[o].paid
                           /\ money'[o].plain = money[o].plain
<1>1. money' = [money EXCEPT ![c] = [money[c] EXCEPT !.linked = amount]]
  BY DEF Credit
<1>2. /\ [money[c] EXCEPT !.linked = amount].paid = money[c].paid
      /\ [money[c] EXCEPT !.linked = amount].plain = money[c].plain
  BY DEF Money
<1> QED BY <1>1, <1>2

LEMMA StaffCredits ==
  ASSUME IInv, Poll \/ \E a \in Admins : Press(a) \/ Handle(a)
  PROVE  /\ UNCHANGED shop
         /\ \A o \in Orders : /\ money'[o].paid = money[o].paid
                              /\ money'[o].plain = money[o].plain
<1>1. UNCHANGED shop
  BY DEF Poll, Snapshot, PassEnds, CompletedRewarded, FailedCredit,
         FailedRefunded, CheckFails, StillProcessing, HandleCompleted,
         HandlePartial, HandleFailed, Press, Handle, OrderCompleteRead,
         OrderRefundRead, VoidItemRead, Begin, OrderCompleted,
         OrderRefundCredit, OrderRefunded, VoidItem
<1>2. \/ UNCHANGED money
      \/ \E c \in Orders, amount \in Nat : Credit(c, amount)
  <2>1. Quantity \in Nat /\ 0 .. Quantity \subseteq Nat
    BY ProductOrdersAssumption
  <2>2. CASE Poll
    <3>1. CASE FailedCredit
      BY <2>1, <3>1 DEF FailedCredit, IInv, MonitorOK, Provided
    <3>2. CASE \E o \in Orders : HandlePartial(o)
      BY <2>1, <3>2 DEF HandlePartial
    <3> QED
      BY <2>2, <3>1, <3>2
      DEF Poll, Snapshot, PassEnds, CompletedRewarded, FailedRefunded,
          CheckFails, StillProcessing, HandleCompleted, HandleFailed
  <2>3. ASSUME NEW a \in Admins, Press(a) \/ Handle(a)
        PROVE  UNCHANGED money \/ \E c \in Orders, amount \in Nat : Credit(c, amount)
    <3>1. CASE OrderRefundCredit(a)
      <4>1. admin[a].id \in Orders
        BY <3>1 DEF OrderRefundCredit, Doing, IInv, AdminOK, Provided
      <4> QED BY <2>1, <3>1, <4>1 DEF OrderRefundCredit
    <3> QED
      BY <2>3, <3>1
      DEF Press, Handle, OrderCompleteRead, OrderRefundRead, VoidItemRead,
          Begin, OrderCompleted, OrderRefunded, VoidItem
  <2> QED BY <2>2, <2>3
<1>3. money \in [Orders -> Money] BY Typed DEF IInv, ShopType
<1> QED BY <1>1, <1>2, <1>3, CreditIsLinked

LEMMA CouponMoves ==
  ASSUME IInv, NEW o \in Orders, Quote(o) \/ Buy(o)
  PROVE  /\ scenario' = scenario /\ crashed' = crashed
         /\ coupon' = coupon \/ ApplyCoupon(o)
BY DEF Quote, Buy, Deduct, ApplyCoupon, PlaceOrder, RefundBuyer, SaveOrder,
       PickItem, ReserveItem, MarkUsed, PurchaseRewarded, desk, others

LEMMA BuyingMoves ==
  ASSUME ShopType, NEW o \in Orders
  PROVE  \A from, to : Buying(o, from, to) =>
           /\ buyer[o].at = from /\ buyer'[o].at = to
           /\ buyer'[o].disc = buyer[o].disc
BY DEF Buying, ShopType, Purchase

\* A purchase past the coupon stays there.
LEMMA PastNext ==
  ASSUME IInv, NEW o \in Orders, Quote(o) \/ Buy(o), PastTheCoupon(o)
  PROVE  PastTheCoupon(o)'
<1>0. ShopType BY Typed DEF IInv
<1>1. buyer[o].at \notin {"idle", "quoted", "picked", "paid"}
  BY DEF PastTheCoupon
<1>2. CASE PlaceOrder(o)
  BY <1>2, <1>0, BuyingMoves DEF PlaceOrder, PastTheCoupon, ShopType
<1>3. CASE RefundBuyer(o) \/ SaveOrder(o) \/ MarkUsed(o) \/ PurchaseRewarded(o)
  BY <1>3, <1>0, BuyingMoves
  DEF RefundBuyer, SaveOrder, MarkUsed, PurchaseRewarded, PastTheCoupon
<1>4. ~(Quote(o) \/ Deduct(o) \/ ApplyCoupon(o) \/ PickItem(o) \/ ReserveItem(o))
  BY <1>1, <1>0, BuyingMoves DEF Quote, Deduct, ApplyCoupon, PickItem, ReserveItem
<1> QED BY <1>2, <1>3, <1>4 DEF Buy

LEMMA UsesNext ==
  ASSUME IInv, Uses, NEW o \in Orders, Quote(o) \/ Buy(o), Quiet(o)
  PROVE  Uses' /\ coupon.by \subseteq coupon'.by
<1>0. ShopType BY Typed DEF IInv
<1>1. scenario' = scenario /\ \A p \in Orders : Owner(p)' = Owner(p)
  BY CouponMoves DEF Owner
<1>2. \A p \in Orders : PastTheCoupon(p) => PastTheCoupon(p)'
  <2>1. ASSUME NEW p \in Orders \ {o}, PastTheCoupon(p) PROVE PastTheCoupon(p)'
    <3>1. buyer'[p] = buyer[p] /\ trouble'[p] = trouble[p]
      BY OthersUntouched
    <3> QED BY <2>1, <3>1 DEF PastTheCoupon
  <2> QED BY <2>1, PastNext
<1>3. CASE coupon' = coupon
  BY <1>1, <1>2, <1>3 DEF Uses
<1>4. CASE ApplyCoupon(o) /\ coupon' # coupon
  <2>1. /\ buyer[o].at = "paid" /\ buyer'[o].at = "applied"
        /\ buyer'[o].disc = "coupon" /\ trouble' = trouble
        /\ coupon'.by = coupon.by \cup {Owner(o)}
    BY <1>0, <1>4, BuyingMoves DEF ApplyCoupon, ShopType
  <2>2. trouble[o] # "coupon"
    BY <2>1 DEF Quiet
  <2>3. PastTheCoupon(o)' BY <2>1, <2>2 DEF PastTheCoupon
  <2> QED BY <1>1, <1>2, <2>1, <2>3 DEF Uses
<1> QED BY <1>3, <1>4, CouponMoves

LEMMA GivenBackNext ==
  ASSUME IInv, IInv', NEW o \in Orders, Quote(o) \/ Buy(o), Quiet(o),
         GivenBack(o), Uses
  PROVE  GivenBack(o)' /\ Quiet(o)'
<1>0. ShopType BY Typed DEF IInv
<1>1. scenario' = scenario /\ \A p \in Orders : Owner(p)' = Owner(p)
  BY CouponMoves DEF Owner
<1>99. \A from, to : Buying(o, from, to) =>
         /\ buyer[o].at = from /\ buyer'[o].at = to
         /\ buyer'[o].disc = buyer[o].disc
  BY <1>0, BuyingMoves
<1>2. CASE trouble' = trouble /\ buyer'[o].at # "over" /\ buyer[o].at # "over"
  BY <1>2 DEF GivenBack, Lost, Quiet
<1>3. CASE /\ trouble' = trouble /\ buyer'[o].at = "over"
           /\ money'[o].paid = 0 \/ money'[o].plain > 0 \/ Exists(o)'
  BY <1>3 DEF GivenBack, Lost, Quiet
<1>4. CASE Quote(o)
  BY <1>0, <1>99, <1>2, <1>4 DEF Quote, ShopType, Purchase
<1>5. buyer[o].at = "quoted" => money[o].paid = 0
  BY DEF IInv, MoneyOK
<1>6. CASE Deduct(o)
  BY <1>0, <1>99, <1>2, <1>3, <1>5, <1>6 DEF Deduct
<1>7. CASE ApplyCoupon(o)
  <2>1. CASE buyer'[o].at # "over"
    BY <1>0, <1>99, <1>2, <1>7, <2>1 DEF ApplyCoupon
  <2>2. CASE buyer'[o].at = "over"
    <3>1. /\ Owner(o) \in coupon.by /\ coupon' = coupon
          /\ trouble'[o] = "coupon"
      BY <1>0, <1>99, <1>7, <2>2 DEF ApplyCoupon, ShopType
    <3> QED BY <1>1, <2>2, <3>1 DEF GivenBack, Quiet
  <2> QED BY <2>1, <2>2
<1>8. CASE PlaceOrder(o)
  <2>1. CASE buyer'[o].at # "over"
    BY <1>0, <1>99, <1>2, <1>8, <2>1 DEF PlaceOrder
  <2>2. CASE buyer'[o].at = "over"
    <3>1. trouble'[o] = "provider"
      BY <1>0, <1>99, <1>8, <2>2 DEF PlaceOrder, ShopType
    <3> QED BY <2>2, <3>1 DEF GivenBack, Lost, Quiet
  <2> QED BY <2>1, <2>2
<1>9. CASE RefundBuyer(o)
  <2>1. money[o] \in Money BY <1>0 DEF ShopType
  <2>2. money'[o] = [money[o] EXCEPT !.plain = money[o].plain + Quantity]
    BY <1>0, <1>9 DEF RefundBuyer, ShopType
  <2>3. money'[o].plain > 0
    BY <2>1, <2>2, ProductOrdersAssumption DEF Money
  <2> QED BY <1>0, <1>99, <1>3, <1>9, <2>3 DEF RefundBuyer
<1>10. CASE SaveOrder(o)
  BY <1>0, <1>99, <1>2, <1>10 DEF SaveOrder
<1>11. CASE PickItem(o)
  BY <1>0, <1>99, <1>2, <1>3, <1>5, <1>11 DEF PickItem, ShopType, Purchase
<1>12. CASE ReserveItem(o)
  BY <1>0, <1>99, <1>2, <1>12 DEF ReserveItem
<1>13. CASE MarkUsed(o) \/ PurchaseRewarded(o)
  <2>1. buyer[o].at \in {"saved", "marked"} /\ row' = row /\ trouble' = trouble
    BY <1>0, <1>99, <1>13 DEF MarkUsed, PurchaseRewarded, desk
  <2>2. Exists(o)' BY <2>1 DEF IInv, MoneyOK, Exists
  <2> QED BY <1>2, <1>3, <2>1, <2>2
<1> QED
  BY <1>4, <1>6, <1>7, <1>8, <1>9, <1>10, <1>11, <1>12, <1>13 DEF Buy

\* A debit at the coupon's price that is neither an order nor given back was
\* lost to another purchase of the same user, which got past the coupon first;
\* but for failures of the provider's client and restarts there is no other way.
THEOREM CouponDebitsAreLostToOneself == Spec => []CouponDebitLostToOneself
<1> DEFINE J == Uses /\ \A o \in Orders : GivenBack(o) /\ Quiet(o)
<1>1. Init => J
  BY DEF Init, Uses, GivenBack, Lost, Quiet
<1>2. IInv /\ IInv' /\ J /\ [Next]_vars => J'
  <2> SUFFICES ASSUME IInv, IInv', Uses,
                      \A o \in Orders : GivenBack(o) /\ Quiet(o), [Next]_vars
               PROVE  J'
    OBVIOUS
  <2>1. ASSUME NEW o \in Orders, Quote(o) \/ Buy(o) PROVE J'
    <3>1. Uses' /\ coupon.by \subseteq coupon'.by BY <2>1, UsesNext
    <3>2. GivenBack(o)' /\ Quiet(o)' BY <2>1, GivenBackNext
    <3>3. scenario' = scenario BY <2>1, CouponMoves
    <3>4. \A p \in Orders \ {o} : GivenBack(p)' /\ Quiet(p)'
      BY <2>1, <3>1, <3>3, OthersUntouched, GivenBackKept DEF Exists
    <3> QED BY <3>1, <3>2, <3>4
  <2>2. CASE Poll \/ \E a \in Admins : Press(a) \/ Handle(a)
    <3>1. PromoRows BY <2>2, PollPromo, AdminPromo
    <3>2. /\ UNCHANGED shop
          /\ \A o \in Orders : /\ money'[o].paid = money[o].paid
                               /\ money'[o].plain = money[o].plain
      BY <2>2, StaffCredits
    <3>3. Uses' BY <3>2 DEF shop, Uses, PastTheCoupon, Owner
    <3>4. \A o \in Orders : GivenBack(o)' /\ Quiet(o)'
      BY <3>1, <3>2, GivenBackKept DEF shop, PromoRows
    <3> QED BY <3>3, <3>4
  <2>3. CASE Crash
    <3>1. /\ crashed' = TRUE /\ scenario' = scenario /\ coupon' = coupon
          /\ trouble' = trouble
      BY <2>3 DEF Crash
    <3>2. \A o \in Orders :
            /\ buyer'[o].disc = buyer[o].disc
            /\ buyer'[o].at = buyer[o].at \/ buyer'[o].at = "over"
      <4>1. buyer \in [Orders -> Purchase] BY Typed DEF IInv, ShopType
      <4> QED BY <2>3, <4>1 DEF Crash, Purchase
    <3>3. Uses' BY <3>1, <3>2 DEF Uses, PastTheCoupon, Owner
    <3>4. \A o \in Orders : GivenBack(o)' /\ Quiet(o)'
      BY <3>1, <3>2 DEF GivenBack, Lost, Quiet
    <3> QED BY <3>3, <3>4
  <2>4. CASE UNCHANGED vars
    BY <2>4
    DEF vars, Uses, PastTheCoupon, Owner, GivenBack, Lost, Exists, Quiet
  <2> QED BY <2>1, <2>2, <2>3, <2>4 DEF Next
<1>3. J => CouponDebitLostToOneself
  <2> SUFFICES ASSUME J, NEW o \in Orders, Lost(o)
               PROVE  \E p \in Orders \ {o} :
                        Owner(p) = Owner(o) /\ PastTheCoupon(p)
    BY DEF CouponDebitLostToOneself
  <2>1. trouble[o] = "coupon" /\ Owner(o) \in coupon.by BY DEF GivenBack
  <2>2. PICK p \in Orders : Owner(p) = Owner(o) /\ PastTheCoupon(p)
    BY <2>1 DEF Uses
  <2> QED BY <2>1, <2>2 DEF PastTheCoupon
<1> HIDE DEF J
<1> QED BY <1>1, <1>2, <1>3, Inductive, Invariance, PTL DEF Spec
=============================================================================
