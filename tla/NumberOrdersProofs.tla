------------------------- MODULE NumberOrdersProofs -------------------------
(***************************************************************************)
(* Theorems about NumberOrders, for every set of orders and concurrent     *)
(* updates and any bounds: the type invariant, and what the buyer and the  *)
(* operator rely on whatever the purchase, the buttons, the administrator, *)
(* the monitor and a restart do at the same time.                          *)
(***************************************************************************)
EXTENDS NumberOrders, TLAPS

\* The money of an order: nothing before it is paid, a plain refund only when
\* there is no order, linked refunds and cashback only when there is one.
MoneyOK(o) ==
  /\ money[o].linked <= 1
  /\ money[o].plain <= money[o].paid
  /\ Exists(o) => money[o].paid = 1 /\ money[o].plain = 0
  /\ ~Exists(o) => money[o].linked = 0 /\ money[o].cash = 0
  /\ buyer[o] \in {"idle", "checked"} =>
       ~Exists(o) /\ money[o].paid = 0 /\ money[o].plain = 0
  /\ buyer[o] \in {"paid", "bought"} =>
       ~Exists(o) /\ money[o].paid = 1 /\ money[o].plain = 0
  /\ buyer[o] \in {"saved", "sent"} => Exists(o)

\* An update works on an order that exists, and marks it as refunded only
\* after the credit.
HandlerOK(h) ==
  handler[h].at # "idle" =>
    /\ Exists(handler[h].order)
    /\ handler[h].at = "credited" => money[handler[h].order].linked = 1

\* So does the monitor, which gives cashback for a code it has committed; its
\* copies are of orders that exist, and a code they show has not been lost.
MonitorOK ==
  /\ \A o \in monitor.todo : monitor.copy[o] # NoRow
  /\ \A o \in Orders : monitor.copy[o] # NoRow =>
       /\ Exists(o)
       /\ monitor.copy[o].code # NoCode => row[o].code # NoCode
  /\ monitor.at \notin {"idle", "loop"} =>
       /\ monitor.cur \in Orders /\ Exists(monitor.cur)
       /\ monitor.copy[monitor.cur] # NoRow
       /\ monitor.at = "refunded" => money[monitor.cur].linked = 1
       /\ monitor.at \in {"delivered", "messaged"} =>
            row[monitor.cur].code # NoCode

IInv ==
  /\ TypeOK
  /\ \A o \in Orders : MoneyOK(o)
  /\ \A h \in Handlers : HandlerOK(h)
  /\ MonitorOK
  /\ RefundedIsPaidBack
  /\ CashbackOnce

-----------------------------------------------------------------------------
(* What a commit can write.                                                *)

Columns == {"status", "code", "extra", "awaiting", "exp", "msg"}

LEMMA RowDomain ==
  ASSUME NEW r \in OrderRow
  PROVE  DOMAIN r = Columns
BY DEF OrderRow, Columns

\* A commit of the monitor: every column is the row's or the new value, and
\* the new value only where it differs from the copy.
LEMMA SavedByMonitor ==
  ASSUME NEW o \in Orders, row[o] \in OrderRow,
         NEW copy \in OrderRow, NEW new \in OrderRow
  PROVE  /\ Saved(o, copy, new) \in OrderRow
         /\ Saved(o, copy, new).status = IF new.status # copy.status
              THEN new.status ELSE row[o].status
         /\ Saved(o, copy, new).code = IF new.code # copy.code
              THEN new.code ELSE row[o].code
         /\ Saved(o, copy, new).awaiting = IF new.awaiting # copy.awaiting
              THEN new.awaiting ELSE row[o].awaiting
<1>1. DOMAIN row[o] = Columns /\ DOMAIN new = Columns
  BY RowDomain
<1> DEFINE s == Saved(o, copy, new)
<1>2. s = [f \in Columns |-> IF new[f] # copy[f] THEN new[f] ELSE row[o][f]]
  BY <1>1 DEF Saved
<1>3. s = [status |-> s.status, code |-> s.code, extra |-> s.extra,
           awaiting |-> s.awaiting, exp |-> s.exp, msg |-> s.msg]
  BY <1>2 DEF Columns
<1>4. s.status \in Status /\ s.code \in Codes \cup {NoCode}
  BY <1>2 DEF Columns, OrderRow
<1>5. s.extra \in SUBSET Codes /\ s.awaiting \in BOOLEAN
  BY <1>2 DEF Columns, OrderRow
<1>6. s.exp \in 1 .. MaxExp /\ s.msg \in BOOLEAN
  BY <1>2 DEF Columns, OrderRow
<1>7. s \in OrderRow
  BY <1>3, <1>4, <1>5, <1>6 DEF OrderRow
<1> QED BY <1>2, <1>7 DEF Columns

\* A commit of an update, which changes no more than the columns it has seen.
LEMMA SavedByHandler ==
  ASSUME NEW o \in Orders, row[o] \in OrderRow,
         NEW copy \in Seen, NEW new \in Seen
  PROVE  /\ Saved(o, copy, new) \in OrderRow
         /\ Saved(o, copy, new).status = IF new.status # copy.status
              THEN new.status ELSE row[o].status
         /\ Saved(o, copy, new).code = row[o].code
         /\ Saved(o, copy, new).awaiting = IF new.awaiting # copy.awaiting
              THEN new.awaiting ELSE row[o].awaiting
<1>1. DOMAIN row[o] = Columns /\ DOMAIN new = {"status", "awaiting"}
  BY RowDomain DEF Seen
<1> DEFINE s == Saved(o, copy, new)
<1>2. s = [f \in Columns |-> IF f \in {"status", "awaiting"} /\ new[f] # copy[f]
                               THEN new[f] ELSE row[o][f]]
  BY <1>1 DEF Saved
<1>3. s = [status |-> s.status, code |-> s.code, extra |-> s.extra,
           awaiting |-> s.awaiting, exp |-> s.exp, msg |-> s.msg]
  BY <1>2 DEF Columns
<1>4. s.status \in Status /\ s.code \in Codes \cup {NoCode}
  BY <1>2 DEF Columns, OrderRow, Seen
<1>5. s.extra \in SUBSET Codes /\ s.awaiting \in BOOLEAN
  BY <1>2 DEF Columns, OrderRow, Seen
<1>6. s.exp \in 1 .. MaxExp /\ s.msg \in BOOLEAN
  BY <1>2 DEF Columns, OrderRow, Seen
<1>7. s \in OrderRow
  BY <1>3, <1>4, <1>5, <1>6 DEF OrderRow
<1> QED BY <1>2, <1>7 DEF Columns

-----------------------------------------------------------------------------
(* What is kept by the steps that leave a task alone.                      *)

HandlerRecord == [at : {"idle", "read", "cancelled", "credited"},
                  op : Buttons \cup {"none"}, order : Orders \cup {NoRow},
                  copy : Seen \cup {NoRow}]
MonitorRecord == [at : {"idle", "loop", "checked", "expired", "refunded",
                        "delivered", "messaged"},
                  todo : SUBSET Orders, cur : Orders \cup {NoRow},
                  got : Codes \cup {NoCode}, copy : [Orders -> Copies]]
MoneyRecord == [paid : Nat, plain : Nat, linked : Nat, cash : Nat]

\* Orders and codes stay, and what was credited stays credited.
Grows ==
  \A o \in Orders :
    /\ Exists(o) => Exists(o)'
    /\ Exists(o) /\ row[o].code # NoCode => row'[o].code # NoCode
    /\ money[o].linked = 1 => money'[o].linked = 1

\* The part of the invariant about orders and their money.
BooksOK ==
  /\ row \in [Orders -> Copies]
  /\ money \in [Orders -> MoneyRecord]
  /\ \A o \in Orders : MoneyOK(o)
  /\ RefundedIsPaidBack
  /\ CashbackOnce

LEMMA Books == IInv => BooksOK
BY DEF IInv, TypeOK, BooksOK, MoneyRecord

LEMMA HandlerKept ==
  ASSUME IInv, Grows, NEW h \in Handlers, handler'[h] = handler[h]
  PROVE  HandlerOK(h)'
BY DEF IInv, TypeOK, HandlerOK, Grows

LEMMA MonitorKept ==
  ASSUME IInv, Grows, monitor' = monitor
  PROVE  MonitorOK'
BY DEF IInv, TypeOK, MonitorOK, Grows

\* A step of one update.
LEMMA HandlerStep ==
  ASSUME IInv, Grows, BooksOK', NEW h \in Handlers, NEW r \in HandlerRecord,
         handler' = [handler EXCEPT ![h] = r],
         UNCHANGED <<sms, passed, shown, buyer, monitor, crashed>>,
         r.at # "idle" =>
           /\ r.order \in Orders /\ r.copy \in Seen
           /\ Exists(r.order)'
           /\ r.at = "credited" => money'[r.order].linked = 1
  PROVE  IInv'
<1>1. handler \in [Handlers -> HandlerRecord]
  BY DEF IInv, TypeOK, HandlerRecord
<1>2. handler' \in [Handlers -> HandlerRecord] /\ handler'[h] = r
  BY <1>1
<1>3. ASSUME NEW g \in Handlers
      PROVE  /\ HandlerOK(g)'
             /\ handler'[g].at # "idle" =>
                  handler'[g].order \in Orders /\ handler'[g].copy \in Seen
  <2>1. CASE g = h
    BY <1>2, <2>1 DEF HandlerOK
  <2>2. CASE g # h
    <3>1. handler'[g] = handler[g] BY <1>1, <2>2
    <3> QED BY <3>1, HandlerKept DEF IInv, TypeOK
  <2> QED BY <2>1, <2>2
<1>4. TypeOK'
  BY <1>2, <1>3 DEF IInv, TypeOK, BooksOK, HandlerRecord, MoneyRecord
<1>5. MonitorOK'
  BY MonitorKept
<1> QED BY <1>3, <1>4, <1>5 DEF IInv, BooksOK

\* A step of the monitor.
LEMMA MonitorStep ==
  ASSUME IInv, Grows, BooksOK', monitor' \in MonitorRecord, MonitorOK',
         UNCHANGED <<sms, passed, buyer, handler, crashed>>,
         shown' \in [Orders -> {"none", "actions", "code"}]
  PROVE  IInv'
<1>1. \A h \in Handlers : HandlerOK(h)'
  BY HandlerKept
<1>2. TypeOK'
  BY DEF IInv, TypeOK, BooksOK, MonitorRecord, MoneyRecord
<1> QED BY <1>1, <1>2 DEF IInv, BooksOK

\* A step that leaves updates and monitor alone.
LEMMA OtherStep ==
  ASSUME IInv, Grows, BooksOK', UNCHANGED <<handler, monitor>>,
         sms' \in [Orders -> 0 .. MaxSms], passed' \in [Orders -> 0 .. MaxExp],
         shown' \in [Orders -> {"none", "actions", "code"}],
         buyer' \in [Orders -> {"idle", "checked", "paid", "bought", "saved",
                                "sent", "over"}],
         crashed' \in BOOLEAN
  PROVE  IInv'
<1>1. \A h \in Handlers : HandlerOK(h)'
  BY HandlerKept
<1>2. MonitorOK'
  BY MonitorKept
<1>3. TypeOK'
  BY DEF IInv, TypeOK, BooksOK, MoneyRecord
<1> QED BY <1>1, <1>2, <1>3 DEF IInv, BooksOK

-----------------------------------------------------------------------------
(* What the steps do to the books.                                         *)

LEMMA NothingBooked ==
  ASSUME IInv, UNCHANGED <<row, money, buyer>>
  PROVE  Grows /\ BooksOK'
BY Books DEF Grows, BooksOK, MoneyOK, Exists, RefundedIsPaidBack, CashbackOnce

\* A row is written: it is marked as refunded only if it was or is credited,
\* and no code is lost.
LEMMA RowWritten ==
  ASSUME IInv, NEW o \in Orders, Exists(o), NEW s \in OrderRow,
         row' = [row EXCEPT ![o] = s], UNCHANGED <<money, buyer>>,
         s.status = "refunded" =>
           row[o].status = "refunded" \/ money[o].linked = 1,
         row[o].code # NoCode => s.code # NoCode
  PROVE  Grows /\ BooksOK'
<1>1. BooksOK BY Books
<1>2. row' \in [Orders -> Copies] /\ row'[o] = s /\ s # NoRow
  BY <1>1, NoRowAssumption DEF BooksOK, Copies
<1>3. \A p \in Orders : p # o => row'[p] = row[p]
  BY <1>1 DEF BooksOK
<1>4. \A p \in Orders : Exists(p)' <=> Exists(p)
  BY <1>2, <1>3 DEF Exists
<1>5. Grows
  BY <1>2, <1>3, <1>4 DEF Grows
<1>6. \A p \in Orders : MoneyOK(p)'
  BY <1>1, <1>4 DEF BooksOK, MoneyOK
<1>7. RefundedIsPaidBack'
  BY <1>1, <1>2, <1>3, <1>4 DEF BooksOK, RefundedIsPaidBack
<1>8. CashbackOnce'
  BY <1>1, <1>2, <1>3 DEF BooksOK, CashbackOnce
<1> QED BY <1>1, <1>2, <1>5, <1>6, <1>7, <1>8 DEF BooksOK

\* A refund for an order that exists.
LEMMA Refunded ==
  ASSUME IInv, NEW o \in Orders, Exists(o), Refund(o), UNCHANGED <<row, buyer>>
  PROVE  Grows /\ BooksOK' /\ money'[o].linked = 1
<1>1. BooksOK BY Books
<1>2. money[o] \in MoneyRecord /\ money[o].linked \in {0, 1}
  BY <1>1 DEF BooksOK, MoneyOK, MoneyRecord
<1>3. money' = [money EXCEPT ![o] = [money[o] EXCEPT !.linked = 1]]
  <2>1. (IF money[o].linked > 0 THEN money[o].linked
                                ELSE money[o].linked + 1) = 1
    BY <1>2
  <2> QED BY <2>1 DEF Refund
<1>4. /\ money' \in [Orders -> MoneyRecord]
      /\ money'[o] = [money[o] EXCEPT !.linked = 1]
      /\ \A p \in Orders : p # o => money'[p] = money[p]
  <2>1. [money[o] EXCEPT !.linked = 1] \in MoneyRecord
    BY <1>2 DEF MoneyRecord
  <2> QED BY <1>1, <1>3, <2>1 DEF BooksOK
<1>5. /\ money'[o].linked = 1 /\ money'[o].paid = money[o].paid
      /\ money'[o].plain = money[o].plain /\ money'[o].cash = money[o].cash
  BY <1>2, <1>4 DEF MoneyRecord
<1>6. \A p \in Orders : Exists(p)' <=> Exists(p)
  BY DEF Exists
<1>7. Grows
  BY <1>4, <1>5, <1>6 DEF Grows
<1>8. ASSUME NEW p \in Orders PROVE MoneyOK(p)'
  <2>1. MoneyOK(p) BY <1>1 DEF BooksOK
  <2>2. Exists(p)' <=> Exists(p) BY <1>6
  <2>3. CASE p # o
    <3>1. money'[p] = money[p] BY <1>4, <2>3
    <3> QED BY <2>1, <2>2, <3>1 DEF MoneyOK
  <2>4. CASE p = o
    BY <1>5, <2>1, <2>2, <2>4 DEF MoneyOK
  <2> QED BY <2>3, <2>4
<1>9. RefundedIsPaidBack' /\ CashbackOnce'
  BY <1>1, <1>4, <1>5, <1>6 DEF BooksOK, RefundedIsPaidBack, CashbackOnce
<1> QED BY <1>1, <1>4, <1>5, <1>7, <1>8, <1>9 DEF BooksOK

-----------------------------------------------------------------------------
(* The purchase.                                                           *)

BuyerSteps == {"idle", "checked", "paid", "bought", "saved", "sent", "over"}

\* The purchase of one order goes on: only its own books are to be looked at.
LEMMA Bought ==
  ASSUME IInv, NEW o \in Orders, NEW to \in BuyerSteps,
         buyer' = [buyer EXCEPT ![o] = to],
         row' \in [Orders -> Copies], money' \in [Orders -> MoneyRecord],
         \A p \in Orders : p # o => row'[p] = row[p] /\ money'[p] = money[p],
         Exists(o) => Exists(o)' /\ row'[o].code = row[o].code
                      /\ row'[o].status = row[o].status,
         ~Exists(o) /\ Exists(o)' => row'[o].status = "pending",
         money'[o].linked = money[o].linked, money'[o].cash = money[o].cash,
         MoneyOK(o)'
  PROVE  Grows /\ BooksOK' /\ buyer' \in [Orders -> BuyerSteps]
<1>1. BooksOK BY Books
<1>2. buyer \in [Orders -> BuyerSteps] BY DEF IInv, TypeOK, BuyerSteps
<1>3. buyer' \in [Orders -> BuyerSteps] /\ \A p \in Orders : p # o => buyer'[p] = buyer[p]
  BY <1>2
<1>4. \A p \in Orders : p # o => (Exists(p)' <=> Exists(p))
  BY DEF Exists
<1>5. Grows
  BY <1>4 DEF Grows
<1>6. ASSUME NEW p \in Orders PROVE MoneyOK(p)'
  <2>1. CASE p = o BY <2>1
  <2>2. CASE p # o
    <3>1. MoneyOK(p) BY <1>1 DEF BooksOK
    <3>2. money'[p] = money[p] /\ buyer'[p] = buyer[p] /\ (Exists(p)' <=> Exists(p))
      BY <1>3, <1>4, <2>2
    <3> QED BY <3>1, <3>2 DEF MoneyOK
  <2> QED BY <2>1, <2>2
<1>7. RefundedIsPaidBack'
  BY <1>1, <1>4 DEF BooksOK, RefundedIsPaidBack
<1>8. CashbackOnce'
  <2>1. MoneyOK(o) BY <1>1 DEF BooksOK
  <2>2. ASSUME NEW p \in Orders, money'[p].cash > 0
        PROVE  money'[p].cash = 1 /\ row'[p].code # NoCode
    <3>1. CASE p = o
      <4>1. money[o] \in MoneyRecord BY <1>1 DEF BooksOK
      <4>2. money[o].cash > 0 BY <2>2, <3>1
      <4>3. Exists(o) BY <2>1, <4>1, <4>2 DEF MoneyOK, MoneyRecord
      <4> QED BY <1>1, <3>1, <4>2, <4>3 DEF BooksOK, CashbackOnce
    <3>2. CASE p # o
      BY <1>1, <2>2, <3>2 DEF BooksOK, CashbackOnce
    <3> QED BY <3>1, <3>2
  <2> QED BY <2>2 DEF CashbackOnce
<1> QED BY <1>3, <1>5, <1>6, <1>7, <1>8 DEF BooksOK

LEMMA BuyStep ==
  ASSUME IInv, NEW o \in Orders, Buy(o)
  PROVE  IInv'
<1>1. BooksOK /\ MoneyOK(o) /\ money[o] \in MoneyRecord
  BY Books DEF BooksOK
<1>2. buyer \in [Orders -> BuyerSteps] /\ shown \in [Orders -> {"none", "actions", "code"}]
  BY DEF IInv, TypeOK, BuyerSteps
<1>3. ASSUME Grows, BooksOK', buyer' \in [Orders -> BuyerSteps],
             UNCHANGED <<sms, passed, handler, monitor, crashed>>,
             shown' \in [Orders -> {"none", "actions", "code"}]
      PROVE  IInv'
  <2>1. /\ sms' \in [Orders -> 0 .. MaxSms] /\ passed' \in [Orders -> 0 .. MaxExp]
        /\ crashed' \in BOOLEAN
    BY <1>3 DEF IInv, TypeOK
  <2> QED BY <1>3, <2>1, OtherStep DEF BuyerSteps
<1>4. CASE BuyCheck(o)
  <2>1. buyer'[o] = "checked" /\ buyer' = [buyer EXCEPT ![o] = "checked"]
        /\ buyer[o] = "idle" /\ UNCHANGED <<row, money>>
    BY <1>2, <1>4 DEF BuyCheck, Buying
  <2>2. MoneyOK(o)' BY <1>1, <2>1 DEF MoneyOK, Exists
  <2>3. Grows /\ BooksOK' /\ buyer' \in [Orders -> BuyerSteps]
    BY <1>1, <2>1, <2>2, Bought DEF BooksOK, BuyerSteps, Exists
  <2> QED BY <1>2, <1>3, <1>4, <2>3 DEF BuyCheck
<1>5. CASE BuyDeduct(o)
  <2>1. PICK to \in {"paid", "over"} :
          /\ buyer' = [buyer EXCEPT ![o] = to]
          /\ buyer[o] = "checked" /\ UNCHANGED row
          /\ \/ to = "paid" /\ money' = [money EXCEPT ![o].paid = money[o].paid + 1]
             \/ to = "over" /\ money' = money
    BY <1>5 DEF BuyDeduct, Buying
  <2>2. buyer'[o] = to BY <1>2, <2>1
  <2>3. CASE to = "over"
    <3>1. MoneyOK(o)' BY <1>1, <2>1, <2>2, <2>3 DEF MoneyOK, Exists
    <3>2. Grows /\ BooksOK' /\ buyer' \in [Orders -> BuyerSteps]
      BY <1>1, <2>1, <2>3, <3>1, Bought DEF BooksOK, BuyerSteps, Exists
    <3> QED BY <1>2, <1>3, <1>5, <3>2 DEF BuyDeduct
  <2>4. CASE to = "paid"
    <3>1. money[o].paid = 0 BY <1>1, <2>1 DEF MoneyOK
    <3>2. money' = [money EXCEPT ![o] = [money[o] EXCEPT !.paid = 1]]
      BY <2>1, <2>4, <3>1
    <3>3. [money[o] EXCEPT !.paid = 1] \in MoneyRecord
      BY <1>1 DEF MoneyRecord
    <3>4. /\ money' \in [Orders -> MoneyRecord]
          /\ money'[o] = [money[o] EXCEPT !.paid = 1]
          /\ \A p \in Orders : p # o => money'[p] = money[p]
      BY <1>1, <3>2, <3>3 DEF BooksOK
    <3>5. /\ money'[o].linked = money[o].linked /\ money'[o].paid = 1
          /\ money'[o].plain = money[o].plain /\ money'[o].cash = money[o].cash
      BY <1>1, <3>4 DEF MoneyRecord
    <3>6. MoneyOK(o)'
      BY <1>1, <2>1, <2>2, <2>4, <3>5 DEF MoneyOK, Exists
    <3>7. Grows /\ BooksOK' /\ buyer' \in [Orders -> BuyerSteps]
      BY <1>1, <2>1, <2>4, <3>4, <3>5, <3>6, Bought DEF BooksOK, BuyerSteps, Exists
    <3> QED BY <1>2, <1>3, <1>5, <3>7 DEF BuyDeduct
  <2> QED BY <2>3, <2>4
<1>6. CASE BuyNumber(o)
  <2>1. PICK to \in {"bought", "over"} :
          /\ buyer' = [buyer EXCEPT ![o] = to]
          /\ buyer[o] = "paid" /\ UNCHANGED row
          /\ \/ to = "over" /\ money' = [money EXCEPT ![o].plain = money[o].plain + 1]
             \/ to = "bought" /\ money' = money
    BY <1>6 DEF BuyNumber, Buying
  <2>2. buyer'[o] = to BY <1>2, <2>1
  <2>3. CASE to = "bought"
    <3>1. MoneyOK(o)' BY <1>1, <2>1, <2>2, <2>3 DEF MoneyOK, Exists
    <3>2. Grows /\ BooksOK' /\ buyer' \in [Orders -> BuyerSteps]
      BY <1>1, <2>1, <2>3, <3>1, Bought DEF BooksOK, BuyerSteps, Exists
    <3> QED BY <1>2, <1>3, <1>6, <3>2 DEF BuyNumber
  <2>4. CASE to = "over"
    <3>1. money[o].plain = 0 /\ money[o].paid = 1 /\ ~Exists(o)
      BY <1>1, <2>1 DEF MoneyOK
    <3>2. money' = [money EXCEPT ![o] = [money[o] EXCEPT !.plain = 1]]
      BY <2>1, <2>4, <3>1
    <3>3. [money[o] EXCEPT !.plain = 1] \in MoneyRecord
      BY <1>1 DEF MoneyRecord
    <3>4. /\ money' \in [Orders -> MoneyRecord]
          /\ money'[o] = [money[o] EXCEPT !.plain = 1]
          /\ \A p \in Orders : p # o => money'[p] = money[p]
      BY <1>1, <3>2, <3>3 DEF BooksOK
    <3>5. /\ money'[o].linked = money[o].linked /\ money'[o].paid = 1
          /\ money'[o].plain = 1 /\ money'[o].cash = money[o].cash
      BY <1>1, <3>1, <3>4 DEF MoneyRecord
    <3>6. MoneyOK(o)'
      BY <1>1, <2>1, <2>2, <2>4, <3>1, <3>5 DEF MoneyOK, Exists
    <3>7. Grows /\ BooksOK' /\ buyer' \in [Orders -> BuyerSteps]
      BY <1>1, <2>1, <2>4, <3>4, <3>5, <3>6, Bought DEF BooksOK, BuyerSteps, Exists
    <3> QED BY <1>2, <1>3, <1>6, <3>7 DEF BuyNumber
  <2> QED BY <2>3, <2>4
<1>7. CASE BuySave(o)
  <2> DEFINE s == [status |-> "pending", code |-> NoCode, extra |-> {},
                   awaiting |-> FALSE, exp |-> 1, msg |-> FALSE]
  <2>1. /\ buyer' = [buyer EXCEPT ![o] = "saved"] /\ buyer[o] = "bought"
        /\ UNCHANGED money /\ row' = [row EXCEPT ![o] = s]
    BY <1>7 DEF BuySave, Buying
  <2>2. buyer'[o] = "saved" BY <1>2, <2>1
  <2>3. s \in OrderRow
    BY NumberOrdersAssumption DEF OrderRow, Status
  <2>4. /\ row' \in [Orders -> Copies] /\ row'[o] = s
        /\ \A p \in Orders : p # o => row'[p] = row[p]
    BY <1>1, <2>1, <2>3 DEF BooksOK, Copies
  <2>5. Exists(o)' BY <2>3, <2>4, NoRowAssumption DEF Exists
  <2>6. ~Exists(o) BY <1>1, <2>1 DEF MoneyOK
  <2>7. MoneyOK(o)' BY <1>1, <2>1, <2>2, <2>5 DEF MoneyOK
  <2>8. row'[o].status = "pending" BY <2>4
  <2>9. Grows /\ BooksOK' /\ buyer' \in [Orders -> BuyerSteps]
    BY <1>1, <2>1, <2>4, <2>6, <2>7, <2>8, Bought DEF BooksOK, BuyerSteps
  <2> QED BY <1>2, <1>3, <1>7, <2>9 DEF BuySave
<1>8. CASE BuySend(o)
  <2>1. PICK to \in {"sent", "over"} :
          /\ buyer' = [buyer EXCEPT ![o] = to] /\ buyer[o] = "saved"
          /\ UNCHANGED <<row, money>>
    BY <1>8 DEF BuySend, Buying
  <2>2. buyer'[o] = to BY <1>2, <2>1
  <2>3. MoneyOK(o)' BY <1>1, <2>1, <2>2 DEF MoneyOK, Exists
  <2>4. Grows /\ BooksOK' /\ buyer' \in [Orders -> BuyerSteps]
    BY <1>1, <2>1, <2>3, Bought DEF BooksOK, BuyerSteps, Exists
  <2>5. shown' \in [Orders -> {"none", "actions", "code"}]
    BY <1>2, <1>8 DEF BuySend
  <2> QED BY <1>3, <1>8, <2>4, <2>5 DEF BuySend
<1>9. CASE BuyMessage(o)
  <2>1. /\ buyer' = [buyer EXCEPT ![o] = "over"] /\ buyer[o] = "sent"
        /\ UNCHANGED money /\ row' = [row EXCEPT ![o].msg = TRUE]
    BY <1>9 DEF BuyMessage, Buying
  <2>2. buyer'[o] = "over" BY <1>2, <2>1
  <2>3. Exists(o) BY <1>1, <2>1 DEF MoneyOK
  <2>4. row[o] \in OrderRow BY <1>1, <2>3 DEF BooksOK, Exists, Copies
  <2>5. [row[o] EXCEPT !.msg = TRUE] \in OrderRow
    BY <2>4 DEF OrderRow
  <2>6. /\ row' \in [Orders -> Copies]
        /\ row'[o] = [row[o] EXCEPT !.msg = TRUE]
        /\ \A p \in Orders : p # o => row'[p] = row[p]
    BY <1>1, <2>1, <2>5 DEF BooksOK, Copies
  <2>7. Exists(o)' BY <2>5, <2>6, NoRowAssumption DEF Exists
  <2>8. row'[o].status = row[o].status /\ row'[o].code = row[o].code
    BY <2>4, <2>6 DEF OrderRow
  <2>9. MoneyOK(o)' BY <1>1, <2>1, <2>2, <2>3, <2>7 DEF MoneyOK
  <2>10. Grows /\ BooksOK' /\ buyer' \in [Orders -> BuyerSteps]
    BY <1>1, <2>1, <2>3, <2>6, <2>7, <2>8, <2>9, Bought DEF BooksOK, BuyerSteps
  <2> QED BY <1>2, <1>3, <1>9, <2>10 DEF BuyMessage
<1> QED BY <1>4, <1>5, <1>6, <1>7, <1>8, <1>9 DEF Buy

-----------------------------------------------------------------------------
(* The updates.                                                            *)

LEMMA PressStep ==
  ASSUME IInv, NEW h \in Handlers, Press(h)
  PROVE  IInv'
<1>1. PICK o \in Orders, op \in Actions[h] :
        /\ Exists(o)
        /\ handler' = [handler EXCEPT ![h] =
             [at |-> "read", op |-> op, order |-> o,
              copy |-> [status |-> row[o].status, awaiting |-> row[o].awaiting]]]
  BY DEF Press
<1>2. row[o] \in OrderRow
  BY <1>1, Books DEF BooksOK, Exists, Copies
<1>3. op \in Buttons
  BY NumberOrdersAssumption
<1>4. PICK c \in Seen : c = [status |-> row[o].status, awaiting |-> row[o].awaiting]
  BY <1>2 DEF Seen, OrderRow
<1>5. PICK r \in HandlerRecord : r = [at |-> "read", op |-> op, order |-> o, copy |-> c]
  BY <1>3, <1>4 DEF HandlerRecord
<1>6. UNCHANGED <<row, money, sms, passed, shown, buyer, monitor, crashed>>
  BY DEF Press
<1>7. Exists(r.order)' /\ r.at # "credited"
  BY <1>1, <1>5, <1>6 DEF Exists
<1>8. handler' = [handler EXCEPT ![h] = r]
  BY <1>1, <1>4, <1>5
<1> QED BY <1>4, <1>5, <1>6, <1>7, <1>8, NothingBooked, HandlerStep

\* What is known of an update in progress.
LEMMA InProgress ==
  ASSUME IInv, NEW h \in Handlers, handler[h].at # "idle"
  PROVE  /\ handler[h] \in HandlerRecord
         /\ handler[h].order \in Orders /\ handler[h].copy \in Seen
         /\ Exists(handler[h].order) /\ row[handler[h].order] \in OrderRow
         /\ handler[h].at = "credited" => money[handler[h].order].linked = 1
BY DEF IInv, TypeOK, HandlerRecord, HandlerOK, Exists, Copies

\* An update is over.
LEMMA Over ==
  ASSUME IInv, Grows, BooksOK', NEW h \in Handlers,
         handler' = [handler EXCEPT ![h] = NoTask],
         UNCHANGED <<sms, passed, shown, buyer, monitor, crashed>>
  PROVE  IInv'
<1>1. NoTask \in HandlerRecord /\ NoTask.at = "idle"
  BY DEF NoTask, HandlerRecord
<1>2. PICK r \in HandlerRecord : r = NoTask
  BY <1>1
<1> QED BY <1>1, <1>2, HandlerStep

\* cancel_order_manual commits CANCELLED.
LEMMA CancelStep ==
  ASSUME IInv, NEW h \in Handlers, CancelOrder(h)
  PROVE  IInv'
<1>1. handler[h].at = "read" /\ UNCHANGED <<money, sms, passed, shown, buyer, monitor, crashed>>
  BY DEF CancelOrder, Doing
<1>2. PICK o \in Orders : o = handler[h].order
  BY <1>1, InProgress
<1>3. PICK copy \in Seen : copy = handler[h].copy
  BY <1>1, InProgress
<1>4. PICK new \in Seen : new = [copy EXCEPT !.status = "cancelled"]
  BY DEF Seen, Status
<1>5. PICK s \in OrderRow : s = Saved(o, copy, new)
  BY <1>1, <1>2, InProgress, SavedByHandler
<1>6. row' = [row EXCEPT ![o] = s]
  BY <1>2, <1>3, <1>4, <1>5 DEF CancelOrder, Update, Save
<1>7. /\ s.status = "refunded" => row[o].status = "refunded"
      /\ s.code = row[o].code
  BY <1>1, <1>2, <1>4, <1>5, InProgress, SavedByHandler DEF Seen
<1>8. Grows /\ BooksOK'
  BY <1>1, <1>2, <1>6, <1>7, InProgress, RowWritten
<1>9. PICK r \in HandlerRecord : r = [handler[h] EXCEPT !.at = "cancelled", !.copy = new]
  BY <1>1, InProgress DEF HandlerRecord
<1>10. handler' = [handler EXCEPT ![h] = r]
  BY <1>2, <1>3, <1>4, <1>9 DEF CancelOrder, Update
<1>11. r.at = "cancelled" /\ r.order = o /\ r.copy = new
  BY <1>1, <1>2, <1>9, InProgress DEF HandlerRecord
<1>12. Exists(o)'
  BY <1>1, <1>2, <1>8, InProgress DEF Grows
<1> QED BY <1>1, <1>8, <1>10, <1>11, <1>12, HandlerStep

\* The credit of a cancellation by the user or of a refund by an administrator.
LEMMA CreditStep ==
  ASSUME IInv, NEW h \in Handlers, CancelCredit(h) \/ RefundCredit(h)
  PROVE  IInv'
<1>1. /\ handler[h].at # "idle" /\ Refund(handler[h].order)
      /\ UNCHANGED <<row, sms, passed, shown, buyer, monitor, crashed>>
      /\ handler' = [handler EXCEPT ![h].at = "credited"]
  BY DEF CancelCredit, RefundCredit, Doing, Move
<1>2. PICK o \in Orders : o = handler[h].order
  BY <1>1, InProgress
<1>3. Grows /\ BooksOK' /\ money'[o].linked = 1
  BY <1>1, <1>2, InProgress, Refunded
<1>4. PICK r \in HandlerRecord : r = [handler[h] EXCEPT !.at = "credited"]
  BY <1>1, InProgress DEF HandlerRecord
<1>5. r.at = "credited" /\ r.order = o /\ r.copy \in Seen
  BY <1>1, <1>2, <1>4, InProgress DEF HandlerRecord
<1>6. Exists(o)'
  BY <1>1, <1>2, InProgress DEF Exists
<1>7. handler' = [handler EXCEPT ![h] = r]
  BY <1>1, <1>4
<1> QED BY <1>1, <1>3, <1>5, <1>6, <1>7, HandlerStep

\* A commit that ends an update: what it writes is what it read, REFUNDED
\* after a credit, or another status.
LEMMA FinishedStep ==
  ASSUME IInv, NEW h \in Handlers, handler[h].at # "idle",
         NEW new \in Seen, Finished(h, new),
         \/ new.status = handler[h].copy.status
         \/ new.status # "refunded"
         \/ handler[h].at = "credited",
         UNCHANGED <<money, sms, passed, shown, buyer, monitor, crashed>>
  PROVE  IInv'
<1>1. PICK o \in Orders : o = handler[h].order
  BY InProgress
<1>2. PICK copy \in Seen : copy = handler[h].copy
  BY InProgress
<1>3. PICK s \in OrderRow : s = Saved(o, copy, new)
  BY <1>1, InProgress, SavedByHandler
<1>4. row' = [row EXCEPT ![o] = s] /\ handler' = [handler EXCEPT ![h] = NoTask]
  BY <1>1, <1>2, <1>3 DEF Finished, Save
<1>5. /\ s.status = "refunded" => row[o].status = "refunded" \/ money[o].linked = 1
      /\ s.code = row[o].code
  BY <1>1, <1>2, <1>3, InProgress, SavedByHandler
<1>6. Grows /\ BooksOK'
  BY <1>1, <1>4, <1>5, InProgress, RowWritten
<1> QED BY <1>4, <1>6, Over

LEMMA EndStep ==
  ASSUME IInv, NEW h \in Handlers, MarkRefunded(h) \/ FinishOrder(h)
  PROVE  IInv'
<1>1. /\ handler[h].at # "idle"
      /\ UNCHANGED <<money, sms, passed, shown, buyer, monitor, crashed>>
  BY DEF MarkRefunded, FinishOrder, Doing
<1>2. PICK copy \in Seen : copy = handler[h].copy
  BY <1>1, InProgress
<1>3. CASE MarkRefunded(h)
  <2>1. PICK new \in Seen : new = [copy EXCEPT !.status = "refunded"]
    BY DEF Seen, Status
  <2>2. handler[h].at = "credited" /\ Finished(h, new)
    BY <1>2, <1>3, <2>1 DEF MarkRefunded
  <2> QED BY <1>1, <2>2, FinishedStep
<1>4. CASE FinishOrder(h)
  <2>1. PICK new \in Seen : new = [copy EXCEPT !.awaiting = FALSE,
          !.status = IF copy.status = "pending" THEN "completed" ELSE copy.status]
    BY DEF Seen, Status
  <2>2. Finished(h, new)
    BY <1>2, <1>4, <2>1 DEF FinishOrder
  <2>3. new.status = copy.status \/ new.status = "completed"
    BY <2>1 DEF Seen
  <2> QED BY <1>1, <1>2, <2>2, <2>3, FinishedStep
<1> QED BY <1>3, <1>4

\* wait_extra_code reopens the order with a new deadline.
LEMMA ExtraStep ==
  ASSUME IInv, NEW h \in Handlers, ExtraCode(h)
  PROVE  IInv'
<1>1. /\ handler[h].at # "idle"
      /\ UNCHANGED <<money, sms, passed, shown, buyer, monitor, crashed>>
      /\ handler' = [handler EXCEPT ![h] = NoTask]
  BY DEF ExtraCode, Doing
<1>2. PICK o \in Orders : o = handler[h].order
  BY <1>1, InProgress
<1>3. PICK copy \in Seen : copy = handler[h].copy
  BY <1>1, InProgress
<1>4. PICK new \in Seen : new = [status |-> "pending", awaiting |-> TRUE]
  BY DEF Seen, Status
<1>5. PICK q \in OrderRow : q = Saved(o, copy, new)
  BY <1>1, <1>2, InProgress, SavedByHandler
<1>6. passed[o] + 1 \in 1 .. MaxExp
  <2>1. passed[o] < MaxExp BY <1>2 DEF ExtraCode
  <2>2. passed[o] \in 0 .. MaxExp BY DEF IInv, TypeOK
  <2> QED BY <2>1, <2>2, NumberOrdersAssumption
<1>7. PICK s \in OrderRow : s = [q EXCEPT !.exp = passed[o] + 1]
  BY <1>6 DEF OrderRow
<1>8. row' = [row EXCEPT ![o] = s]
  BY <1>2, <1>3, <1>4, <1>5, <1>7 DEF ExtraCode
<1>9. /\ q.status = "refunded" => row[o].status = "refunded"
      /\ q.code = row[o].code
  BY <1>1, <1>2, <1>4, <1>5, InProgress, SavedByHandler
<1>10. s.status = q.status /\ s.code = q.code
  BY <1>7 DEF OrderRow
<1>11. Grows /\ BooksOK'
  BY <1>1, <1>2, <1>8, <1>9, <1>10, InProgress, RowWritten
<1> QED BY <1>1, <1>11, Over

-----------------------------------------------------------------------------
(* The monitor.                                                            *)

LEMMA MonitorTyped ==
  ASSUME IInv
  PROVE  /\ monitor \in MonitorRecord
         /\ shown \in [Orders -> {"none", "actions", "code"}]
BY DEF IInv, TypeOK, MonitorRecord

LEMMA Visiting ==
  ASSUME IInv, NEW o \in monitor.todo
  PROVE  /\ o \in Orders /\ Exists(o) /\ row[o] \in OrderRow
         /\ monitor.copy[o] \in OrderRow
<1>1. o \in Orders BY MonitorTyped DEF MonitorRecord
<1>2. Exists(o) /\ monitor.copy[o] # NoRow BY <1>1 DEF IInv, MonitorOK
<1>3. row[o] \in Copies /\ monitor.copy[o] \in Copies
  BY <1>1, MonitorTyped DEF IInv, TypeOK, MonitorRecord
<1> QED BY <1>1, <1>2, <1>3 DEF Exists, Copies

LEMMA Working ==
  ASSUME IInv, monitor.at \notin {"idle", "loop"}
  PROVE  /\ monitor.cur \in Orders /\ Exists(monitor.cur)
         /\ row[monitor.cur] \in OrderRow
         /\ monitor.copy[monitor.cur] \in OrderRow
         /\ monitor.at = "refunded" => money[monitor.cur].linked = 1
         /\ monitor.at \in {"delivered", "messaged"} =>
              row[monitor.cur].code # NoCode
<1>1. /\ monitor.cur \in Orders /\ Exists(monitor.cur)
      /\ monitor.copy[monitor.cur] # NoRow
  BY DEF IInv, MonitorOK
<1>2. row[monitor.cur] \in Copies /\ monitor.copy[monitor.cur] \in Copies
  BY <1>1, MonitorTyped DEF IInv, TypeOK, MonitorRecord
<1> QED BY <1>1, <1>2 DEF IInv, MonitorOK, Exists, Copies

\* The monitor is done with an order.
LEMMA TurnOver ==
  ASSUME IInv, Grows, BooksOK', NEW o \in Orders, monitor' = DoneWith(o),
         UNCHANGED <<sms, passed, buyer, handler, crashed>>,
         shown' \in [Orders -> {"none", "actions", "code"}]
  PROVE  IInv'
<1>1. monitor \in MonitorRecord BY MonitorTyped
<1>2. monitor' \in MonitorRecord
  <2>1. [monitor.copy EXCEPT ![o] = NoRow] \in [Orders -> Copies]
    BY <1>1 DEF MonitorRecord, Copies
  <2>2. monitor' = [monitor EXCEPT !.at = "loop", !.todo = monitor.todo \ {o},
          !.cur = NoRow, !.got = NoCode,
          !.copy = [monitor.copy EXCEPT ![o] = NoRow]]
    BY DEF DoneWith
  <2> QED BY <1>1, <2>1, <2>2 DEF MonitorRecord
<1>3. /\ monitor'.at = "loop" /\ monitor'.todo = monitor.todo \ {o}
      /\ \A p \in Orders : p # o => monitor'.copy[p] = monitor.copy[p]
      /\ monitor'.copy[o] = NoRow
  BY <1>1 DEF DoneWith, MonitorRecord
<1>4. ASSUME NEW p \in monitor'.todo PROVE monitor'.copy[p] # NoRow
  <2>1. p \in monitor.todo /\ p # o BY <1>3
  <2>2. p \in Orders /\ monitor.copy[p] # NoRow
    BY <2>1, <1>1 DEF IInv, MonitorOK, MonitorRecord
  <2> QED BY <1>3, <2>1, <2>2
<1>5. ASSUME NEW p \in Orders, monitor'.copy[p] # NoRow
      PROVE  /\ Exists(p)'
             /\ monitor'.copy[p].code # NoCode => row'[p].code # NoCode
  BY <1>3, <1>5 DEF IInv, MonitorOK, Grows
<1>6. MonitorOK'
  BY <1>3, <1>4, <1>5 DEF MonitorOK
<1> QED BY <1>2, <1>6, MonitorStep

\* The monitor goes on with an order.
LEMMA GoesOn ==
  ASSUME IInv, Grows, BooksOK', NEW o \in Orders, NEW copy \in OrderRow,
         NEW at \in {"checked", "expired", "refunded", "delivered", "messaged"},
         NEW got \in Codes \cup {NoCode},
         monitor' = [monitor EXCEPT !.at = at, !.cur = o, !.got = got,
                                    !.copy = [monitor.copy EXCEPT ![o] = copy]],
         Exists(o), copy.code # NoCode => row'[o].code # NoCode,
         at = "refunded" => money'[o].linked = 1,
         at \in {"delivered", "messaged"} => row'[o].code # NoCode,
         UNCHANGED <<sms, passed, buyer, handler, crashed>>,
         shown' \in [Orders -> {"none", "actions", "code"}]
  PROVE  IInv'
<1>1. monitor \in MonitorRecord BY MonitorTyped
<1>2. [monitor.copy EXCEPT ![o] = copy] \in [Orders -> Copies]
  BY <1>1 DEF MonitorRecord, Copies
<1>3. monitor' \in MonitorRecord
  BY <1>1, <1>2 DEF MonitorRecord
<1>4. /\ monitor'.at = at /\ monitor'.todo = monitor.todo /\ monitor'.cur = o
      /\ monitor'.copy[o] = copy
      /\ \A p \in Orders : p # o => monitor'.copy[p] = monitor.copy[p]
  BY <1>1 DEF MonitorRecord
<1>5. copy # NoRow BY NoRowAssumption
<1>6. ASSUME NEW p \in monitor'.todo PROVE monitor'.copy[p] # NoRow
  <2>1. p \in Orders /\ monitor.copy[p] # NoRow
    BY <1>1, <1>4 DEF IInv, MonitorOK, MonitorRecord
  <2> QED BY <1>4, <1>5, <2>1
<1>7. ASSUME NEW p \in Orders, monitor'.copy[p] # NoRow
      PROVE  /\ Exists(p)'
             /\ monitor'.copy[p].code # NoCode => row'[p].code # NoCode
  BY <1>4, <1>7 DEF IInv, MonitorOK, Grows
<1>8. MonitorOK'
  BY <1>4, <1>5, <1>6, <1>7 DEF MonitorOK, Grows
<1> QED BY <1>3, <1>8, MonitorStep

LEMMA PassStep ==
  ASSUME IInv, Snapshot \/ PassEnds
  PROVE  IInv'
<1>1. UNCHANGED <<row, money, sms, passed, shown, buyer, handler, crashed>>
  BY DEF Snapshot, PassEnds
<1>2. Grows /\ BooksOK' BY <1>1, NothingBooked
<1>3. monitor \in MonitorRecord BY MonitorTyped
<1>4. monitor' \in MonitorRecord /\ MonitorOK'
  <2>1. CASE Snapshot
    <3> DEFINE taken == [o \in Orders |-> IF Pending(o) THEN row[o] ELSE NoRow]
               left == {o \in Orders : Pending(o)}
    <3>1. monitor' = [monitor EXCEPT !.at = "loop", !.todo = left, !.copy = taken]
      BY <2>1 DEF Snapshot
    <3>2. taken \in [Orders -> Copies]
      BY Books DEF BooksOK, Copies
    <3>3. monitor' \in MonitorRecord
      BY <1>3, <3>1, <3>2 DEF MonitorRecord
    <3>4. monitor'.at = "loop" /\ monitor'.todo = left /\ monitor'.copy = taken
      BY <1>3, <3>1 DEF MonitorRecord
    <3>5. \A o \in left : Exists(o) /\ taken[o] # NoRow
      BY DEF Pending, Exists
    <3>6. ASSUME NEW o \in Orders, taken[o] # NoRow
          PROVE  /\ Exists(o)'
                 /\ taken[o].code # NoCode => row'[o].code # NoCode
      BY <1>1, <3>6 DEF Pending, Exists
    <3>7. MonitorOK'
      BY <3>4, <3>5, <3>6 DEF MonitorOK
    <3> QED BY <3>3, <3>7
  <2>2. CASE PassEnds
    <3>1. monitor' = Resting BY <2>2 DEF PassEnds
    <3>2. monitor' \in MonitorRecord
      BY <3>1 DEF Resting, MonitorRecord, Copies
    <3>3. /\ monitor'.todo = {} /\ monitor'.at = "idle"
          /\ \A o \in Orders : monitor'.copy[o] = NoRow
      BY <3>1 DEF Resting
    <3> QED BY <3>2, <3>3 DEF MonitorOK
  <2> QED BY <2>1, <2>2
<1> QED BY <1>1, <1>2, <1>4, MonitorTyped, MonitorStep

\* A commit of the monitor: REFUNDED only after the credit, no code lost.
LEMMA WriteStep ==
  ASSUME IInv, NEW o \in Orders, Exists(o), monitor.copy[o] \in OrderRow,
         NEW new \in OrderRow, NEW at \in {"loop", "expired", "delivered"},
         Write(o, at, new),
         new.status = "refunded" => money[o].linked = 1,
         \/ new.code = monitor.copy[o].code /\ at # "delivered"
         \/ new.code # NoCode,
         UNCHANGED <<money, sms, passed, shown, buyer, handler, crashed>>
  PROVE  IInv'
<1>1. row[o] \in OrderRow
  BY Books DEF BooksOK, Exists, Copies
<1>2. PICK copy \in OrderRow : copy = monitor.copy[o]
  OBVIOUS
<1>3. PICK s \in OrderRow : s = Saved(o, copy, new)
  BY <1>1, SavedByMonitor
<1>4. row' = [row EXCEPT ![o] = s]
  BY <1>2, <1>3 DEF Write, Save
<1>5. copy.code # NoCode => row[o].code # NoCode
  BY <1>2, NoRowAssumption DEF IInv, MonitorOK
<1>6. /\ s.status = "refunded" => row[o].status = "refunded" \/ money[o].linked = 1
      /\ s.code = IF new.code # copy.code THEN new.code ELSE row[o].code
  BY <1>1, <1>3, SavedByMonitor
<1>7. /\ row[o].code # NoCode => s.code # NoCode
      /\ new.code # NoCode => s.code # NoCode
  BY <1>2, <1>5, <1>6
<1>8. Grows /\ BooksOK'
  BY <1>4, <1>6, <1>7, RowWritten
<1>9. shown' \in [Orders -> {"none", "actions", "code"}]
  BY MonitorTyped
<1>10. CASE at = "loop"
  <2>1. monitor' = DoneWith(o) BY <1>10 DEF Write
  <2> QED BY <1>8, <1>9, <2>1, TurnOver
<1>11. CASE at # "loop"
  <2>1. monitor \in MonitorRecord BY MonitorTyped
  <2>2. PICK got \in Codes \cup {NoCode} : got = monitor.got
    BY <2>1 DEF MonitorRecord
  <2>3. monitor' = [monitor EXCEPT !.at = at, !.cur = o, !.copy[o] = new]
    BY <1>11 DEF Write
  <2>4. monitor' = [monitor EXCEPT !.at = at, !.cur = o, !.got = got,
                      !.copy = [monitor.copy EXCEPT ![o] = new]]
    BY <2>1, <2>2, <2>3 DEF MonitorRecord
  <2>5. row'[o] = s BY <1>4, Books DEF BooksOK
  <2> QED BY <1>7, <1>8, <1>9, <1>11, <2>4, <2>5, GoesOn
<1> QED BY <1>10, <1>11

LEMMA ExpireStep ==
  ASSUME IInv, NEW o \in Orders, Exists(o), monitor.copy[o] \in OrderRow, Expire(o)
  PROVE  IInv'
<1>1. PICK copy \in OrderRow : copy = monitor.copy[o]
  OBVIOUS
<1>2. PICK new \in OrderRow : new = [copy EXCEPT !.status = "expired"]
  BY DEF OrderRow, Status
<1>3. new.status = "expired" /\ new.code = copy.code
  BY <1>2 DEF OrderRow
<1>4. Write(o, "expired", new)
  BY <1>1, <1>2 DEF Expire
<1> QED BY <1>1, <1>3, <1>4, WriteStep DEF Expire

LEMMA StopWaitingStep ==
  ASSUME IInv, NEW o \in Orders, StopWaiting(o)
  PROVE  IInv'
<1>1. Exists(o) /\ monitor.copy[o] \in OrderRow
  BY Visiting DEF StopWaiting
<1>2. PICK copy \in OrderRow : copy = monitor.copy[o]
  BY <1>1
<1>3. PICK new \in OrderRow :
        new = [copy EXCEPT !.status = "completed", !.awaiting = FALSE]
  BY DEF OrderRow, Status
<1>4. new.status = "completed" /\ new.code = copy.code
  BY <1>3 DEF OrderRow
<1>5. Write(o, "loop", new)
  BY <1>2, <1>3 DEF StopWaiting
<1> QED BY <1>1, <1>2, <1>4, <1>5, WriteStep DEF StopWaiting

\* The monitor is at a call about the order it works on.
LEMMA SameOrder ==
  ASSUME IInv, NEW o \in Orders, NEW at, NEW got,
         monitor' = [monitor EXCEPT !.at = at, !.cur = o, !.got = got]
  PROVE  monitor' = [monitor EXCEPT !.at = at, !.cur = o, !.got = got,
                       !.copy = [monitor.copy EXCEPT ![o] = monitor.copy[o]]]
<1>1. monitor \in MonitorRecord BY MonitorTyped
<1>2. [monitor.copy EXCEPT ![o] = monitor.copy[o]] = monitor.copy
  BY <1>1 DEF MonitorRecord
<1> QED BY <1>1, <1>2 DEF MonitorRecord

LEMMA CheckStep ==
  ASSUME IInv, NEW o \in Orders, CheckStatus(o)
  PROVE  IInv'
<1>1. Exists(o) /\ monitor.copy[o] \in OrderRow
  BY Visiting DEF CheckStatus
<1>2. UNCHANGED <<row, money, sms, passed, shown, buyer, handler, crashed>>
  BY DEF CheckStatus
<1>3. Grows /\ BooksOK' /\ shown' \in [Orders -> {"none", "actions", "code"}]
  BY <1>2, NothingBooked, MonitorTyped
<1>4. CASE monitor' = DoneWith(o)
  BY <1>2, <1>3, <1>4, TurnOver
<1>5. CASE \E got \in Codes \cup {NoCode} :
             monitor' = [monitor EXCEPT !.at = "checked", !.cur = o, !.got = got]
  <2>1. PICK got \in Codes \cup {NoCode} :
          monitor' = [monitor EXCEPT !.at = "checked", !.cur = o, !.got = got]
    BY <1>5
  <2>2. PICK copy \in OrderRow : copy = monitor.copy[o]
    BY <1>1
  <2>3. monitor' = [monitor EXCEPT !.at = "checked", !.cur = o, !.got = got,
                      !.copy = [monitor.copy EXCEPT ![o] = copy]]
    BY <2>1, <2>2, SameOrder
  <2>4. copy.code # NoCode => row'[o].code # NoCode
    BY <1>2, <2>2, NoRowAssumption DEF IInv, MonitorOK
  <2> QED BY <1>1, <1>2, <1>3, <2>3, <2>4, GoesOn
<1>6. sms[o] \in 0 .. MaxSms
  BY DEF IInv, TypeOK
<1>7. sms[o] > 0 => 1 \in Codes /\ sms[o] \in Codes
  BY <1>6, NumberOrdersAssumption DEF Codes
<1> QED BY <1>4, <1>5, <1>7 DEF CheckStatus

\* The order the monitor works on, as a constant of a step.
LEMMA Current ==
  ASSUME IInv, monitor.at \notin {"idle", "loop"}
  PROVE  \E o \in Orders, copy \in OrderRow, got \in Codes \cup {NoCode} :
           /\ o = monitor.cur /\ copy = monitor.copy[o] /\ got = monitor.got
           /\ Exists(o)
           /\ copy.code # NoCode => row[o].code # NoCode
<1>1. monitor \in MonitorRecord BY MonitorTyped
<1>2. monitor.got \in Codes \cup {NoCode}
  BY <1>1 DEF MonitorRecord
<1>3. monitor.copy[monitor.cur].code # NoCode => row[monitor.cur].code # NoCode
  BY Working, NoRowAssumption DEF IInv, MonitorOK
<1> QED BY <1>2, <1>3, Working

LEMMA ExpireCreditStep ==
  ASSUME IInv, ExpireCredit
  PROVE  IInv'
<1>1. monitor.at = "expired" /\ Refund(monitor.cur)
      /\ monitor' = [monitor EXCEPT !.at = "refunded"]
      /\ UNCHANGED <<row, sms, passed, shown, buyer, handler, crashed>>
  BY DEF ExpireCredit
<1>2. PICK o \in Orders, copy \in OrderRow, got \in Codes \cup {NoCode} :
        /\ o = monitor.cur /\ copy = monitor.copy[o] /\ got = monitor.got
        /\ Exists(o)
        /\ copy.code # NoCode => row[o].code # NoCode
  BY <1>1, Current
<1>3. Grows /\ BooksOK' /\ money'[o].linked = 1
  BY <1>1, <1>2, Refunded
<1>4. monitor' = [monitor EXCEPT !.at = "refunded", !.cur = o, !.got = got]
  <2>1. o = monitor.cur /\ got = monitor.got BY <1>2
  <2>2. monitor \in MonitorRecord BY MonitorTyped
  <2> QED BY <1>1, <2>1, <2>2 DEF MonitorRecord
<1>5. monitor' = [monitor EXCEPT !.at = "refunded", !.cur = o, !.got = got,
                    !.copy = [monitor.copy EXCEPT ![o] = copy]]
  BY <1>2, <1>4, SameOrder
<1> QED BY <1>1, <1>2, <1>3, <1>5, MonitorTyped, GoesOn

LEMMA ExpireMarkStep ==
  ASSUME IInv, ExpireMark
  PROVE  IInv'
<1>1. monitor.at = "refunded"
      /\ UNCHANGED <<money, sms, passed, shown, buyer, handler, crashed>>
  BY DEF ExpireMark
<1>2. PICK o \in Orders, copy \in OrderRow, got \in Codes \cup {NoCode} :
        /\ o = monitor.cur /\ copy = monitor.copy[o] /\ got = monitor.got
        /\ Exists(o)
        /\ copy.code # NoCode => row[o].code # NoCode
  BY <1>1, Current
<1>3. PICK new \in OrderRow : new = [copy EXCEPT !.status = "refunded"]
  BY DEF OrderRow, Status
<1>4. Write(o, "loop", new)
  BY <1>2, <1>3 DEF ExpireMark
<1>5. money[o].linked = 1 BY <1>1, <1>2, Working
<1>6. new.code = copy.code BY <1>3 DEF OrderRow
<1> QED BY <1>1, <1>2, <1>4, <1>5, <1>6, WriteStep

LEMMA CodeStep ==
  ASSUME IInv, NEW o \in Orders, FurtherCode(o) \/ FirstCode(o)
  PROVE  IInv'
<1>1. monitor.at = "checked" /\ monitor.cur = o /\ monitor.got # NoCode
      /\ UNCHANGED <<money, sms, passed, shown, buyer, handler, crashed>>
  BY DEF FurtherCode, FirstCode
<1>2. PICK copy \in OrderRow, got \in Codes \cup {NoCode} :
        /\ copy = monitor.copy[o] /\ got = monitor.got /\ Exists(o)
  BY <1>1, Current
<1>3. got \in Codes
  BY <1>1, <1>2
<1>4. CASE FirstCode(o)
  <2>1. PICK new \in OrderRow : new = [copy EXCEPT !.status = "completed", !.code = got]
    BY DEF OrderRow, Status
  <2>2. Write(o, "delivered", new)
    BY <1>2, <1>4, <2>1 DEF FirstCode
  <2>3. new.status = "completed" /\ new.code = got
    BY <2>1 DEF OrderRow
  <2> QED BY <1>1, <1>2, <2>2, <2>3, WriteStep
<1>5. CASE FurtherCode(o) /\ monitor.got \notin copy.extra
  <2>1. PICK new \in OrderRow :
          new = [copy EXCEPT !.extra = copy.extra \cup {got},
                             !.awaiting = FALSE, !.status = "completed"]
    BY <1>3 DEF OrderRow, Status
  <2>2. Write(o, "loop", new)
    BY <1>2, <1>5, <2>1 DEF FurtherCode
  <2>3. new.status = "completed" /\ new.code = copy.code
    BY <2>1 DEF OrderRow
  <2> QED BY <1>1, <1>2, <2>2, <2>3, WriteStep
<1>6. CASE FurtherCode(o) /\ monitor.got \in copy.extra
  <2>1. monitor' = DoneWith(o) /\ UNCHANGED row
    BY <1>2, <1>6 DEF FurtherCode
  <2>2. Grows /\ BooksOK' BY <1>1, <2>1, NothingBooked
  <2> QED BY <1>1, <2>1, <2>2, MonitorTyped, TurnOver
<1> QED BY <1>4, <1>5, <1>6

LEMMA DeliverStep ==
  ASSUME IInv, Deliver
  PROVE  IInv'
<1>1. monitor.at = "delivered"
      /\ UNCHANGED <<row, money, sms, passed, buyer, handler, crashed>>
  BY DEF Deliver
<1>2. PICK o \in Orders, copy \in OrderRow, got \in Codes \cup {NoCode} :
        /\ o = monitor.cur /\ copy = monitor.copy[o] /\ got = monitor.got
        /\ Exists(o)
        /\ copy.code # NoCode => row[o].code # NoCode
  BY <1>1, Current
<1>3. row[o].code # NoCode BY <1>1, <1>2, Working
<1>4. Grows /\ BooksOK' BY <1>1, NothingBooked
<1>5. shown' \in [Orders -> {"none", "actions", "code"}]
  BY MonitorTyped DEF Deliver
<1>6. CASE monitor' = DoneWith(monitor.cur)
  BY <1>1, <1>2, <1>4, <1>5, <1>6, TurnOver
<1>7. CASE monitor' = [monitor EXCEPT !.at = "messaged"]
  <2>1. monitor' = [monitor EXCEPT !.at = "messaged", !.cur = o, !.got = got]
    <3>1. o = monitor.cur /\ got = monitor.got BY <1>2
    <3>2. monitor \in MonitorRecord BY MonitorTyped
    <3> QED BY <1>7, <3>1, <3>2 DEF MonitorRecord
  <2>2. monitor' = [monitor EXCEPT !.at = "messaged", !.cur = o, !.got = got,
                      !.copy = [monitor.copy EXCEPT ![o] = copy]]
    BY <1>2, <2>1, SameOrder
  <2> QED BY <1>1, <1>2, <1>3, <1>4, <1>5, <2>2, GoesOn
<1> QED BY <1>6, <1>7 DEF Deliver

LEMMA RewardStep ==
  ASSUME IInv, Reward
  PROVE  IInv'
<1>1. monitor.at = "messaged" /\ Cashback(monitor.cur)
      /\ monitor' = DoneWith(monitor.cur)
      /\ UNCHANGED <<row, sms, passed, shown, buyer, handler, crashed>>
  BY DEF Reward
<1>2. PICK o \in Orders : o = monitor.cur /\ Exists(o) /\ row[o].code # NoCode
  BY <1>1, Working
<1>3. CASE UNCHANGED money
  <2>1. Grows /\ BooksOK' BY <1>1, <1>3, NothingBooked
  <2> QED BY <1>1, <1>2, <2>1, MonitorTyped, TurnOver
<1>4. CASE money[o].cash = 0 /\ money' = [money EXCEPT ![o].cash = 1]
  <2>1. BooksOK /\ money[o] \in MoneyRecord /\ MoneyOK(o)
    BY Books DEF BooksOK
  <2>2. [money[o] EXCEPT !.cash = 1] \in MoneyRecord
    BY <2>1 DEF MoneyRecord
  <2>3. /\ money' \in [Orders -> MoneyRecord]
        /\ money'[o] = [money[o] EXCEPT !.cash = 1]
        /\ \A p \in Orders : p # o => money'[p] = money[p]
    BY <1>4, <2>1, <2>2 DEF BooksOK
  <2>4. /\ money'[o].linked = money[o].linked /\ money'[o].paid = money[o].paid
        /\ money'[o].plain = money[o].plain /\ money'[o].cash = 1
    BY <2>1, <2>3 DEF MoneyRecord
  <2>5. \A p \in Orders : Exists(p)' <=> Exists(p)
    BY <1>1 DEF Exists
  <2>6. Grows
    BY <1>1, <2>3, <2>4, <2>5 DEF Grows
  <2>7. ASSUME NEW p \in Orders PROVE MoneyOK(p)'
    <3>1. MoneyOK(p) /\ (Exists(p)' <=> Exists(p)) BY <2>1, <2>5 DEF BooksOK
    <3>2. CASE p # o
      <4>1. money'[p] = money[p] BY <2>3, <3>2
      <4> QED BY <1>1, <3>1, <4>1 DEF MoneyOK
    <3>3. CASE p = o
      BY <1>1, <1>2, <2>4, <3>1, <3>3 DEF MoneyOK
    <3> QED BY <3>2, <3>3
  <2>8. RefundedIsPaidBack'
    BY <1>1, <2>1, <2>3, <2>4, <2>5 DEF BooksOK, RefundedIsPaidBack
  <2>9. CashbackOnce'
    BY <1>1, <1>2, <2>1, <2>3, <2>4 DEF BooksOK, CashbackOnce
  <2>10. BooksOK'
    BY <1>1, <2>1, <2>3, <2>7, <2>8, <2>9 DEF BooksOK
  <2> QED BY <1>1, <1>2, <2>6, <2>10, MonitorTyped, TurnOver
<1> QED BY <1>1, <1>2, <1>3, <1>4 DEF Cashback

LEMMA PollStep ==
  ASSUME IInv, Poll
  PROVE  IInv'
<1>1. ASSUME NEW o \in Orders, ExpireLate(o) \/ ProviderCancelled(o)
      PROVE  IInv'
  <2>1. Exists(o) /\ monitor.copy[o] \in OrderRow
    <3>1. CASE ExpireLate(o) BY <3>1, Visiting DEF ExpireLate
    <3>2. CASE ProviderCancelled(o) BY <3>2, Working DEF ProviderCancelled
    <3> QED BY <1>1, <3>1, <3>2
  <2> QED BY <1>1, <2>1, ExpireStep DEF ExpireLate, ProviderCancelled
<1> QED BY <1>1, PassStep, ExpireCreditStep, ExpireMarkStep, DeliverStep,
        RewardStep, StopWaitingStep, CheckStep, CodeStep DEF Poll

-----------------------------------------------------------------------------
(* The environment, and the theorems.                                      *)

LEMMA EnvironmentStep ==
  ASSUME IInv, NEW o \in Orders, SmsArrives(o) \/ DeadlinePasses(o)
  PROVE  IInv'
<1>1. UNCHANGED <<row, money, shown, buyer, handler, monitor, crashed>>
  BY DEF SmsArrives, DeadlinePasses
<1>2. Grows /\ BooksOK' BY <1>1, NothingBooked
<1>3. sms \in [Orders -> 0 .. MaxSms] /\ passed \in [Orders -> 0 .. MaxExp]
  BY DEF IInv, TypeOK
<1>4. sms' \in [Orders -> 0 .. MaxSms]
  BY <1>3, NumberOrdersAssumption DEF SmsArrives, DeadlinePasses
<1>5. passed' \in [Orders -> 0 .. MaxExp]
  <2>1. CASE SmsArrives(o) BY <1>3, <2>1 DEF SmsArrives
  <2>2. CASE DeadlinePasses(o)
    <3>1. row[o] \in OrderRow
      BY <2>2, Books DEF DeadlinePasses, BooksOK, Exists, Copies
    <3>2. row[o].exp \in 1 .. MaxExp BY <3>1 DEF OrderRow
    <3>3. passed[o] + 1 \in 0 .. MaxExp
      BY <1>3, <2>2, <3>2, NumberOrdersAssumption DEF DeadlinePasses
    <3> QED BY <1>3, <2>2, <3>3 DEF DeadlinePasses
  <2> QED BY <2>1, <2>2
<1>6. /\ shown' \in [Orders -> {"none", "actions", "code"}]
      /\ buyer' \in [Orders -> BuyerSteps] /\ crashed' \in BOOLEAN
  BY <1>1 DEF IInv, TypeOK, BuyerSteps
<1> QED BY <1>1, <1>2, <1>4, <1>5, <1>6, OtherStep DEF BuyerSteps

LEMMA CrashStep ==
  ASSUME IInv, Crash
  PROVE  IInv'
<1>1. UNCHANGED <<row, money, sms, passed, shown>> /\ crashed' = TRUE
      /\ monitor' = Resting /\ handler' = [h \in Handlers |-> NoTask]
      /\ buyer' = [o \in Orders |-> IF buyer[o] = "idle" THEN "idle" ELSE "over"]
  BY DEF Crash
<1>2. BooksOK BY Books
<1>3. buyer' \in [Orders -> BuyerSteps] BY <1>1 DEF BuyerSteps
<1>4. \A o \in Orders : MoneyOK(o)'
  BY <1>1, <1>2 DEF BooksOK, MoneyOK, Exists
<1>5. BooksOK'
  BY <1>1, <1>2, <1>4 DEF BooksOK, RefundedIsPaidBack, CashbackOnce, Exists
<1>6. monitor' \in MonitorRecord /\ MonitorOK'
  BY <1>1 DEF Resting, MonitorRecord, MonitorOK, Copies
<1>7. \A h \in Handlers : handler'[h] \in HandlerRecord /\ handler'[h].at = "idle"
  BY <1>1 DEF NoTask, HandlerRecord
<1>8. handler' \in [Handlers -> HandlerRecord] /\ \A h \in Handlers : HandlerOK(h)'
  BY <1>1, <1>7 DEF HandlerOK
<1>9. TypeOK'
  BY <1>1, <1>3, <1>5, <1>6, <1>7, <1>8
     DEF IInv, TypeOK, BooksOK, MonitorRecord, HandlerRecord, MoneyRecord, BuyerSteps
<1> QED BY <1>5, <1>6, <1>8, <1>9 DEF IInv, BooksOK

\* The strengthened invariant of every execution.
THEOREM Inductive == Spec => []IInv
<1>1. Init => IInv
  <2> SUFFICES ASSUME Init PROVE IInv
    OBVIOUS
  <2>1. /\ \A o \in Orders : ~Exists(o)
        /\ \A o \in Orders : money[o] = [paid |-> 0, plain |-> 0, linked |-> 0, cash |-> 0]
    BY DEF Init, Exists
  <2>2. \A o \in Orders : MoneyOK(o)
    BY <2>1 DEF Init, MoneyOK
  <2>3. monitor \in MonitorRecord /\ MonitorOK
    BY DEF Init, Resting, MonitorRecord, MonitorOK, Copies
  <2>4. \A h \in Handlers : handler[h] \in HandlerRecord /\ handler[h].at = "idle"
    BY DEF Init, NoTask, HandlerRecord
  <2>5. handler \in [Handlers -> HandlerRecord] /\ \A h \in Handlers : HandlerOK(h)
    BY <2>4 DEF Init, HandlerOK
  <2>6. /\ row \in [Orders -> Copies] /\ money \in [Orders -> MoneyRecord]
        /\ sms \in [Orders -> 0 .. MaxSms] /\ passed \in [Orders -> 0 .. MaxExp]
    BY NumberOrdersAssumption DEF Init, Copies, MoneyRecord
  <2>7. TypeOK
    BY <2>3, <2>4, <2>5, <2>6
       DEF Init, TypeOK, MonitorRecord, HandlerRecord, MoneyRecord
  <2>8. RefundedIsPaidBack /\ CashbackOnce
    BY <2>1 DEF RefundedIsPaidBack, CashbackOnce
  <2> QED BY <2>2, <2>3, <2>5, <2>7, <2>8 DEF IInv
<1>2. IInv /\ [Next]_vars => IInv'
  <2> SUFFICES ASSUME IInv, [Next]_vars PROVE IInv'
    OBVIOUS
  <2>1. CASE UNCHANGED vars
    <3>1. Grows /\ BooksOK' BY <2>1, NothingBooked DEF vars
    <3>2. /\ sms' \in [Orders -> 0 .. MaxSms] /\ passed' \in [Orders -> 0 .. MaxExp]
          /\ shown' \in [Orders -> {"none", "actions", "code"}]
          /\ buyer' \in [Orders -> BuyerSteps] /\ crashed' \in BOOLEAN
      BY <2>1 DEF vars, IInv, TypeOK, BuyerSteps
    <3> QED BY <2>1, <3>1, <3>2, OtherStep DEF vars, BuyerSteps
  <2>2. ASSUME NEW h \in Handlers, Handle(h) PROVE IInv'
    BY <2>2, CancelStep, CreditStep, EndStep, ExtraStep DEF Handle
  <2> QED BY <2>1, <2>2, BuyStep, PressStep, PollStep, EnvironmentStep, CrashStep
          DEF Next
<1> QED BY <1>1, <1>2, PTL DEF Spec

\* Every execution is type correct.
THEOREM TypeCorrect == Spec => []TypeOK
BY Inductive, PTL DEF IInv

\* Nobody gets more back than was paid for an order, whoever refunds it and
\* however often it is reopened.
THEOREM NobodyIsOverRefunded == Spec => []NeverOverRefunded
<1>1. IInv => NeverOverRefunded
  <2> SUFFICES ASSUME IInv, NEW o \in Orders
               PROVE  money[o].plain + money[o].linked <= money[o].paid
    BY DEF NeverOverRefunded
  <2>1. MoneyOK(o) /\ money[o] \in MoneyRecord
    BY Books DEF BooksOK
  <2> QED BY <2>1 DEF MoneyOK, MoneyRecord
<1> QED BY <1>1, Inductive, PTL

\* An order shown as refunded has been paid back, even if another task wrote
\* its status meanwhile or the process was restarted.
THEOREM RefundsArePaid == Spec => []RefundedIsPaidBack
BY Inductive, PTL DEF IInv

\* Cashback is given at most once per order, and for a code that stays.
THEOREM CashbackAtMostOnce == Spec => []CashbackOnce
BY Inductive, PTL DEF IInv

-----------------------------------------------------------------------------
(* Nobody is forgotten.                                                    *)

\* Whatever may end an order without a refund is about one with a code: the
\* buttons that are offered with a code, and a row that waits for a further
\* one, as the database or the monitor's copy has it.
NeedsCode(h, o) ==
  /\ handler[h].at # "idle" /\ handler[h].order = o
  /\ handler[h].op \in {"extra", "finish"}

CodesOK ==
  /\ \A o \in Orders :
       /\ shown[o] = "code" => HasCode(o)
       /\ Exists(o) /\ row[o].awaiting => HasCode(o)
       /\ monitor.copy[o] # NoRow /\ monitor.copy[o].awaiting => HasCode(o)
  /\ \A h \in Handlers, o \in Orders : NeedsCode(h, o) => HasCode(o)

\* Codes stay, and only an order with a code begins to wait for another.
CodesStay ==
  \A o \in Orders :
    /\ HasCode(o) => HasCode(o)'
    /\ Exists(o)' /\ row'[o].awaiting => HasCode(o)' \/ (Exists(o) /\ row[o].awaiting)

Served(o) == ~crashed /\ Owed(o) /\ ~HasCode(o) => CaredFor(o)

CareOK == CodesOK /\ \A o \in Orders : Served(o)

\* A step about one order leaves those who care for the others alone.
Elsewhere(o) ==
  /\ crashed' = crashed
  /\ \A p \in Orders \ {o} :
       /\ row'[p] = row[p] /\ money'[p] = money[p] /\ buyer'[p] = buyer[p]
       /\ monitor.at = "expired" /\ monitor.cur = p =>
            monitor'.at = "expired" /\ monitor'.cur = p
  /\ \A h \in Handlers :
       handler[h].at = "cancelled" /\ handler[h].order # o =>
         handler'[h].at = "cancelled" /\ handler'[h].order = handler[h].order

LEMMA CodesKept ==
  ASSUME CodesOK, CodesStay,
         \A o \in Orders : shown'[o] = "code" => shown[o] = "code" \/ HasCode(o)',
         \A o \in Orders : monitor'.copy[o] # NoRow /\ monitor'.copy[o].awaiting =>
           HasCode(o)' \/ (monitor.copy[o] # NoRow /\ monitor.copy[o].awaiting),
         \A h \in Handlers, o \in Orders :
           NeedsCode(h, o)' => HasCode(o)' \/ NeedsCode(h, o)
  PROVE  CodesOK'
BY DEF CodesOK, CodesStay

LEMMA OthersServed ==
  ASSUME CareOK, NEW o \in Orders, Elsewhere(o), Served(o)', CodesOK'
  PROVE  CareOK'
<1> SUFFICES ASSUME NEW p \in Orders, p # o PROVE Served(p)'
  BY DEF CareOK
<1>1. /\ crashed' = crashed
      /\ row'[p] = row[p] /\ money'[p] = money[p] /\ buyer'[p] = buyer[p]
      /\ monitor.at = "expired" /\ monitor.cur = p =>
           monitor'.at = "expired" /\ monitor'.cur = p
  BY DEF Elsewhere
<1>2. /\ Owed(p)' <=> Owed(p)
      /\ HasCode(p)' <=> HasCode(p)
      /\ Pending(p)' <=> Pending(p)
  BY <1>1 DEF Owed, HasCode, Pending, Exists
<1>3. CaredFor(p) => CaredFor(p)'
  BY <1>1, <1>2 DEF CaredFor, Elsewhere
<1> QED BY <1>1, <1>2, <1>3 DEF Served, CareOK

\* An order that is paid back is not owed.
LEMMA PaidBack ==
  ASSUME BooksOK, NEW o \in Orders, Exists(o), money[o].linked = 1
  PROVE  ~Owed(o)
BY DEF BooksOK, MoneyOK, Owed, MoneyRecord

\* A credit pays the order back.
LEMMA CreditedBack ==
  ASSUME IInv, NEW o \in Orders, Exists(o), Refund(o), UNCHANGED <<row, buyer>>
  PROVE  ~Owed(o)' /\ \A p \in Orders \ {o} : money'[p] = money[p]
<1>1. BooksOK' /\ money'[o].linked = 1 BY Refunded
<1>2. Exists(o)' BY DEF Exists
<1>3. MoneyOK(o)' /\ money'[o] \in MoneyRecord
  BY <1>1 DEF BooksOK
<1>4. ~Owed(o)'
  BY <1>1, <1>2, <1>3 DEF MoneyOK, Owed, MoneyRecord
<1>5. money \in [Orders -> MoneyRecord] BY Books DEF BooksOK
<1> QED BY <1>4, <1>5 DEF Refund

\* A commit about one order.
RowWrite(o, s) ==
  /\ s \in OrderRow /\ row' = [row EXCEPT ![o] = s]
  /\ row[o].code # NoCode => s.code # NoCode
  /\ s.awaiting => row[o].awaiting \/ s.code # NoCode

LEMMA AfterWrite ==
  ASSUME IInv, NEW o \in Orders, Exists(o), NEW s, RowWrite(o, s)
  PROVE  /\ CodesStay /\ Exists(o)' /\ row'[o] = s
         /\ HasCode(o)' <=> s.code # NoCode
         /\ Pending(o)' <=> s.status = "pending"
         /\ \A p \in Orders \ {o} : row'[p] = row[p]
<1>1. row \in [Orders -> Copies] BY DEF IInv, TypeOK
<1>2. row'[o] = s /\ s # NoRow /\ \A p \in Orders : p # o => row'[p] = row[p]
  BY <1>1, NoRowAssumption DEF RowWrite
<1>3. Exists(o)' /\ \A p \in Orders \ {o} : Exists(p)' <=> Exists(p)
  BY <1>2 DEF Exists
<1>4. CodesStay
  BY <1>2, <1>3 DEF CodesStay, HasCode, RowWrite
<1> QED BY <1>2, <1>3, <1>4 DEF HasCode, Pending

LEMMA NothingWritten ==
  ASSUME UNCHANGED row
  PROVE  /\ CodesStay
         /\ \A o \in Orders : /\ HasCode(o)' <=> HasCode(o)
                              /\ Pending(o)' <=> Pending(o)
                              /\ Exists(o)' <=> Exists(o)
BY DEF CodesStay, HasCode, Pending, Exists

\* The commit of an update.
LEMMA HandlerWrites ==
  ASSUME IInv, CodesOK, NEW h \in Handlers, handler[h].at # "idle",
         NEW o \in Orders, o = handler[h].order,
         NEW new \in Seen, NEW s, s = Saved(o, handler[h].copy, new),
         new.awaiting => handler[h].copy.awaiting \/ HasCode(o)
  PROVE  /\ s \in OrderRow /\ s.code = row[o].code
         /\ s.awaiting => row[o].awaiting \/ s.code # NoCode
         /\ s.status = IF new.status # handler[h].copy.status
                         THEN new.status ELSE row[o].status
<1>1. row[o] \in OrderRow /\ handler[h].copy \in Seen
  BY InProgress
<1>2. PICK copy \in Seen : copy = handler[h].copy BY <1>1
<1>3. /\ s \in OrderRow /\ s.code = row[o].code
      /\ s.status = IF new.status # copy.status THEN new.status ELSE row[o].status
      /\ s.awaiting = IF new.awaiting # copy.awaiting THEN new.awaiting
                                                      ELSE row[o].awaiting
  BY <1>1, <1>2, SavedByHandler
<1>4. s.awaiting => row[o].awaiting \/ s.code # NoCode
  BY <1>2, <1>3 DEF HasCode, Seen
<1> QED BY <1>2, <1>3, <1>4

\* The commit of the monitor.
LEMMA MonitorWrites ==
  ASSUME IInv, NEW o \in Orders, Exists(o), monitor.copy[o] \in OrderRow,
         NEW new \in OrderRow, NEW at, Write(o, at, new),
         new.awaiting => monitor.copy[o].awaiting,
         monitor.copy[o].code # NoCode => new.code # NoCode
  PROVE  \E s : /\ RowWrite(o, s)
                /\ s.status = IF new.status # monitor.copy[o].status
                                THEN new.status ELSE row[o].status
                /\ new.code # NoCode => s.code # NoCode
<1>1. PICK copy \in OrderRow : copy = monitor.copy[o] OBVIOUS
<1>2. row[o] \in OrderRow
  BY Books DEF BooksOK, Exists, Copies
<1>3. PICK s : s = Saved(o, copy, new) OBVIOUS
<1>4. /\ s \in OrderRow
      /\ s.status = IF new.status # copy.status THEN new.status ELSE row[o].status
      /\ s.code = IF new.code # copy.code THEN new.code ELSE row[o].code
      /\ s.awaiting = IF new.awaiting # copy.awaiting THEN new.awaiting
                                                      ELSE row[o].awaiting
  BY <1>2, <1>3, SavedByMonitor
<1>5. copy.code # NoCode => row[o].code # NoCode
  BY <1>1, NoRowAssumption DEF IInv, MonitorOK
<1>6. row' = [row EXCEPT ![o] = s]
  BY <1>1, <1>3 DEF Write, Save
<1>7. new.code # NoCode => s.code # NoCode
  BY <1>4, <1>5
<1>8. row[o].code # NoCode => s.code # NoCode
  BY <1>1, <1>4, <1>5
<1>9. s.awaiting => row[o].awaiting \/ s.code # NoCode
  BY <1>1, <1>4 DEF OrderRow
<1>10. RowWrite(o, s)
  BY <1>4, <1>6, <1>8, <1>9 DEF RowWrite
<1> QED BY <1>1, <1>4, <1>7, <1>10

\* The monitor commits: the order has a code, or is credited, or the monitor
\* is about to credit it.
LEMMA MonitorCommits ==
  ASSUME IInv, CareOK, NEW o \in Orders, Exists(o), monitor.copy[o] \in OrderRow,
         NEW new \in OrderRow, NEW at, Write(o, at, new),
         monitor.at # "expired",
         new.awaiting => monitor.copy[o].awaiting,
         monitor.copy[o].code # NoCode => new.code # NoCode,
         HasCode(o) \/ new.code # NoCode \/ money[o].linked = 1 \/ at = "expired",
         UNCHANGED <<money, shown, buyer, handler, crashed>>
  PROVE  CareOK'
<1>1. PICK s : RowWrite(o, s) /\ (new.code # NoCode => s.code # NoCode)
  BY MonitorWrites
<1>2. /\ CodesStay /\ Exists(o)' /\ row'[o] = s
      /\ HasCode(o)' <=> s.code # NoCode
      /\ \A p \in Orders \ {o} : row'[p] = row[p]
  BY <1>1, AfterWrite
<1>3. monitor \in MonitorRecord BY MonitorTyped
<1>4. /\ at = "expired" => monitor'.at = "expired" /\ monitor'.cur = o
      /\ \A p \in Orders \ {o} : monitor'.copy[p] = monitor.copy[p]
      /\ monitor'.copy[o] \in {new, NoRow}
  <2>1. CASE at = "loop"
    BY <1>3, <2>1 DEF Write, DoneWith, MonitorRecord
  <2>2. CASE at # "loop"
    BY <1>3, <2>2 DEF Write, MonitorRecord
  <2> QED BY <2>1, <2>2
<1>5. CodesOK'
  <2>1. \A p \in Orders : monitor'.copy[p] # NoRow /\ monitor'.copy[p].awaiting =>
          HasCode(p)' \/ (monitor.copy[p] # NoRow /\ monitor.copy[p].awaiting)
    BY <1>4, NoRowAssumption
  <2>2. \A h \in Handlers, p \in Orders : NeedsCode(h, p)' => NeedsCode(h, p)
    BY DEF NeedsCode
  <2> QED BY <1>2, <2>1, <2>2, CodesKept DEF CareOK
<1>6. Elsewhere(o)
  BY <1>2 DEF Elsewhere
<1>7. Served(o)'
  <2>1. CASE HasCode(o) \/ new.code # NoCode
    <3>1. HasCode(o)' BY <1>1, <1>2, <2>1 DEF CodesStay
    <3> QED BY <3>1 DEF Served
  <2>2. CASE at = "expired"
    <3>1. CaredFor(o)' BY <1>4, <2>2 DEF CaredFor
    <3> QED BY <3>1 DEF Served
  <2>3. CASE money[o].linked = 1
    <3>1. ~Owed(o) BY <2>3, Books, PaidBack
    <3>2. ~Owed(o)' BY <3>1 DEF Owed
    <3> QED BY <3>2 DEF Served
  <2> QED BY <2>1, <2>2, <2>3
<1> QED BY <1>5, <1>6, <1>7, OthersServed

\* The monitor moves without a commit and without a credit.
LEMMA MonitorMoves ==
  ASSUME IInv, CareOK, UNCHANGED <<row, money, buyer, handler, crashed>>,
         monitor.at # "expired",
         \A p \in Orders : shown'[p] = "code" => shown[p] = "code" \/ HasCode(p),
         \A p \in Orders : monitor'.copy[p] # NoRow /\ monitor'.copy[p].awaiting =>
           HasCode(p) \/ (monitor.copy[p] # NoRow /\ monitor.copy[p].awaiting)
  PROVE  CareOK'
<1>1. /\ CodesStay
      /\ \A o \in Orders : /\ HasCode(o)' <=> HasCode(o)
                           /\ Pending(o)' <=> Pending(o)
  BY NothingWritten
<1>2. \A h \in Handlers, p \in Orders : NeedsCode(h, p)' => NeedsCode(h, p)
  BY DEF NeedsCode
<1>3. CodesOK'
  BY <1>1, <1>2, CodesKept DEF CareOK
<1>4. ASSUME NEW p \in Orders PROVE Served(p)'
  <2>1. CaredFor(p) => CaredFor(p)' BY <1>1 DEF CaredFor
  <2>2. Owed(p)' <=> Owed(p) BY DEF Owed
  <2> QED BY <1>1, <2>1, <2>2 DEF CareOK, Served
<1> QED BY <1>3, <1>4 DEF CareOK

\* The order whose turn is over has no copy any more.
LEMMA CopiesAfter ==
  ASSUME IInv, NEW o \in Orders, monitor' = DoneWith(o)
  PROVE  /\ monitor'.copy[o] = NoRow
         /\ \A p \in Orders \ {o} : monitor'.copy[p] = monitor.copy[p]
<1>1. monitor \in MonitorRecord BY MonitorTyped
<1> QED BY <1>1 DEF DoneWith, MonitorRecord

\* An update commits or is credited: its order has a code, or is credited, or
\* the update is about to credit it.
LEMMA HandlerCommits ==
  ASSUME IInv, CareOK, NEW h \in Handlers, handler[h].at # "idle",
         NEW o \in Orders, o = handler[h].order,
         NEW r, handler' = [handler EXCEPT ![h] = r],
         r.at # "idle" => r.order = o /\ r.op = handler[h].op,
         CodesStay, \A p \in Orders \ {o} : row'[p] = row[p] /\ money'[p] = money[p],
         UNCHANGED <<shown, buyer, monitor, crashed>>,
         HasCode(o)' \/ ~Owed(o)' \/ r.at = "cancelled"
  PROVE  CareOK'
<1>1. handler \in [Handlers -> HandlerRecord] BY DEF IInv, TypeOK, HandlerRecord
<1>2. handler'[h] = r /\ \A g \in Handlers : g # h => handler'[g] = handler[g]
  BY <1>1
<1>3. \A g \in Handlers, p \in Orders : NeedsCode(g, p)' => NeedsCode(g, p)
  BY <1>2 DEF NeedsCode
<1>4. CodesOK'
  BY <1>3, CodesKept DEF CareOK
<1>5. Elsewhere(o)
  BY <1>2 DEF Elsewhere
<1>6. Served(o)'
  <2>1. CASE r.at = "cancelled"
    <3>1. CaredFor(o)' BY <1>2, <2>1 DEF CaredFor
    <3> QED BY <3>1 DEF Served
  <2>2. CASE HasCode(o)' \/ ~Owed(o)'
    BY <2>2 DEF Served
  <2> QED BY <2>1, <2>2
<1> QED BY <1>4, <1>5, <1>6, OthersServed

LEMMA PressCares ==
  ASSUME IInv, CareOK, NEW h \in Handlers, Press(h)
  PROVE  CareOK'
<1>0. PICK o \in Orders : \E r :
        /\ r.at = "read" /\ r.order = o
        /\ r.op \in {"extra", "finish"} => shown[o] = "code"
        /\ handler[h].at = "idle" /\ handler' = [handler EXCEPT ![h] = r]
  BY DEF Press, Offered
<1>1. PICK r :
        /\ r.at = "read" /\ r.order = o
        /\ r.op \in {"extra", "finish"} => shown[o] = "code"
        /\ handler[h].at = "idle" /\ handler' = [handler EXCEPT ![h] = r]
  BY <1>0
<1>2. UNCHANGED <<row, money, shown, buyer, monitor, crashed>>
  BY DEF Press
<1>3. /\ CodesStay
      /\ \A p \in Orders : /\ HasCode(p)' <=> HasCode(p)
                           /\ Pending(p)' <=> Pending(p)
  BY <1>2, NothingWritten
<1>4. handler \in [Handlers -> HandlerRecord] BY DEF IInv, TypeOK, HandlerRecord
<1>5. handler'[h] = r /\ \A g \in Handlers : g # h => handler'[g] = handler[g]
  BY <1>1, <1>4
<1>6. \A g \in Handlers, p \in Orders :
        NeedsCode(g, p)' => HasCode(p)' \/ NeedsCode(g, p)
  BY <1>1, <1>3, <1>5 DEF NeedsCode, CareOK, CodesOK
<1>7. CodesOK'
  BY <1>2, <1>3, <1>6, CodesKept DEF CareOK
<1>8. ASSUME NEW p \in Orders PROVE Served(p)'
  <2>1. CaredFor(p) => CaredFor(p)' BY <1>1, <1>2, <1>3, <1>5 DEF CaredFor
  <2>2. Owed(p)' <=> Owed(p) BY <1>2 DEF Owed
  <2> QED BY <1>2, <1>3, <2>1, <2>2 DEF CareOK, Served
<1> QED BY <1>7, <1>8 DEF CareOK

LEMMA CancelCares ==
  ASSUME IInv, CareOK, NEW h \in Handlers, CancelOrder(h)
  PROVE  CareOK'
<1>1. handler[h].at = "read" /\ UNCHANGED <<money, sms, passed, shown, buyer, monitor, crashed>>
  BY DEF CancelOrder, Doing
<1>2. PICK o \in Orders : o = handler[h].order /\ Exists(o)
  BY <1>1, InProgress
<1>3. PICK new \in Seen : new = [handler[h].copy EXCEPT !.status = "cancelled"]
  BY <1>1, InProgress DEF Seen, Status
<1>4. PICK s : s = Saved(o, handler[h].copy, new) OBVIOUS
<1>5. new.awaiting = handler[h].copy.awaiting
  BY <1>1, <1>3, InProgress DEF Seen
<1>6. RowWrite(o, s)
  <2>1. row' = [row EXCEPT ![o] = s]
    BY <1>2, <1>3, <1>4 DEF CancelOrder, Update, Save
  <2> QED BY <1>1, <1>2, <1>4, <1>5, <2>1, HandlerWrites DEF CareOK, RowWrite
<1>7. PICK r : /\ r.at = "cancelled" /\ r.order = o /\ r.op = handler[h].op
               /\ handler' = [handler EXCEPT ![h] = r]
  <2>1. PICK r : r = [handler[h] EXCEPT !.at = "cancelled", !.copy = new] OBVIOUS
  <2>2. handler' = [handler EXCEPT ![h] = r]
    BY <1>3, <2>1 DEF CancelOrder, Update
  <2>3. r.at = "cancelled" /\ r.order = o /\ r.op = handler[h].op
    BY <1>1, <1>2, <2>1, InProgress DEF HandlerRecord
  <2> QED BY <2>2, <2>3
<1>8. CodesStay /\ \A p \in Orders \ {o} : row'[p] = row[p]
  BY <1>2, <1>6, AfterWrite
<1> QED BY <1>1, <1>2, <1>7, <1>8, HandlerCommits

LEMMA CreditCares ==
  ASSUME IInv, CareOK, NEW h \in Handlers, CancelCredit(h) \/ RefundCredit(h)
  PROVE  CareOK'
<1>1. /\ handler[h].at # "idle" /\ Refund(handler[h].order)
      /\ UNCHANGED <<row, sms, passed, shown, buyer, monitor, crashed>>
      /\ handler' = [handler EXCEPT ![h].at = "credited"]
  BY DEF CancelCredit, RefundCredit, Doing, Move
<1>2. PICK o \in Orders : o = handler[h].order /\ Exists(o)
  BY <1>1, InProgress
<1>3. ~Owed(o)' /\ \A p \in Orders \ {o} : money'[p] = money[p]
  BY <1>1, <1>2, CreditedBack
<1>4. PICK r : r = [handler[h] EXCEPT !.at = "credited"] OBVIOUS
<1>5. r.order = o /\ r.op = handler[h].op
  BY <1>1, <1>2, <1>4, InProgress DEF HandlerRecord
<1>6. handler' = [handler EXCEPT ![h] = r]
  BY <1>1, <1>4
<1>7. CodesStay BY <1>1, NothingWritten
<1>8. \A p \in Orders \ {o} : row'[p] = row[p] /\ money'[p] = money[p]
  BY <1>1, <1>3
<1>9. handler[h].at # "idle" /\ UNCHANGED <<shown, buyer, monitor, crashed>>
  BY <1>1
<1> QED BY <1>2, <1>3, <1>5, <1>6, <1>7, <1>8, <1>9, HandlerCommits

\* An update that ends.
LEMMA EndCares ==
  ASSUME IInv, CareOK, NEW h \in Handlers,
         MarkRefunded(h) \/ FinishOrder(h) \/ ExtraCode(h)
  PROVE  CareOK'
<1>1. /\ handler[h].at # "idle" /\ handler' = [handler EXCEPT ![h] = NoTask]
      /\ UNCHANGED <<money, shown, buyer, monitor, crashed>>
  BY DEF MarkRefunded, FinishOrder, ExtraCode, Finished, Doing
<1>2. PICK o \in Orders : o = handler[h].order /\ Exists(o)
  BY <1>1, InProgress
<1>3. PICK copy \in Seen : copy = handler[h].copy
  BY <1>1, InProgress
<1>4. CASE MarkRefunded(h)
  <2>1. PICK new \in Seen : new = [copy EXCEPT !.status = "refunded"]
    BY DEF Seen, Status
  <2>2. PICK s : s = Saved(o, copy, new) OBVIOUS
  <2>3. new.awaiting = copy.awaiting BY <2>1 DEF Seen
  <2>4. row' = [row EXCEPT ![o] = s]
    BY <1>2, <1>3, <1>4, <2>1, <2>2 DEF MarkRefunded, Finished, Save
  <2>5. RowWrite(o, s)
    BY <1>1, <1>2, <1>3, <2>2, <2>3, <2>4, HandlerWrites DEF CareOK, RowWrite
  <2>6. CodesStay /\ \A p \in Orders \ {o} : row'[p] = row[p]
    BY <1>2, <2>5, AfterWrite
  <2>7. ~Owed(o)
    BY <1>2, <1>4, InProgress, Books, PaidBack DEF MarkRefunded
  <2>8. ~Owed(o)' BY <1>1, <2>7 DEF Owed
  <2> QED BY <1>1, <1>2, <2>6, <2>8, HandlerCommits DEF NoTask
<1>5. ASSUME FinishOrder(h) \/ ExtraCode(h)
      PROVE  HasCode(o)
  BY <1>2, <1>5 DEF FinishOrder, ExtraCode, Doing, CareOK, CodesOK, NeedsCode
<1>6. CASE FinishOrder(h)
  <2>1. PICK new \in Seen : new = [copy EXCEPT !.awaiting = FALSE,
          !.status = IF copy.status = "pending" THEN "completed" ELSE copy.status]
    BY DEF Seen, Status
  <2>2. PICK s : s = Saved(o, copy, new) OBVIOUS
  <2>3. row' = [row EXCEPT ![o] = s]
    BY <1>2, <1>3, <1>6, <2>1, <2>2 DEF FinishOrder, Finished, Save
  <2>4. RowWrite(o, s)
    BY <1>1, <1>2, <1>3, <1>5, <1>6, <2>2, <2>3, HandlerWrites DEF CareOK, RowWrite
  <2>5. CodesStay /\ \A p \in Orders \ {o} : row'[p] = row[p]
    BY <1>2, <2>4, AfterWrite
  <2>6. HasCode(o)' BY <1>5, <1>6, <2>5 DEF CodesStay
  <2> QED BY <1>1, <1>2, <2>5, <2>6, HandlerCommits DEF NoTask
<1>7. CASE ExtraCode(h)
  <2>1. PICK new \in Seen : new = [status |-> "pending", awaiting |-> TRUE]
    BY DEF Seen, Status
  <2>2. PICK q : q = Saved(o, copy, new) OBVIOUS
  <2>3. q \in OrderRow /\ q.code = row[o].code
    BY <1>1, <1>2, <1>3, <1>5, <1>7, <2>2, HandlerWrites DEF CareOK
  <2>4. passed[o] + 1 \in 1 .. MaxExp
    <3>1. passed[o] < MaxExp BY <1>2, <1>7 DEF ExtraCode
    <3>2. passed[o] \in 0 .. MaxExp BY DEF IInv, TypeOK
    <3> QED BY <3>1, <3>2, NumberOrdersAssumption
  <2>5. PICK s : s = [q EXCEPT !.exp = passed[o] + 1] OBVIOUS
  <2>6. s \in OrderRow /\ s.code = row[o].code
    BY <2>3, <2>4, <2>5 DEF OrderRow
  <2>7. row' = [row EXCEPT ![o] = s]
    BY <1>2, <1>3, <1>7, <2>1, <2>2, <2>5 DEF ExtraCode
  <2>8. RowWrite(o, s)
    BY <1>5, <1>7, <2>6, <2>7 DEF RowWrite, HasCode
  <2>9. CodesStay /\ \A p \in Orders \ {o} : row'[p] = row[p]
    BY <1>2, <2>8, AfterWrite
  <2>10. HasCode(o)' BY <1>5, <1>7, <2>9 DEF CodesStay
  <2> QED BY <1>1, <1>2, <2>9, <2>10, HandlerCommits DEF NoTask
<1> QED BY <1>4, <1>6, <1>7

LEMMA PassCares ==
  ASSUME IInv, CareOK, Snapshot \/ PassEnds
  PROVE  CareOK'
<1>1. UNCHANGED <<row, money, shown, buyer, handler, crashed>> /\ monitor.at # "expired"
  BY DEF Snapshot, PassEnds
<1>2. ASSUME NEW p \in Orders, monitor'.copy[p] # NoRow /\ monitor'.copy[p].awaiting
      PROVE  HasCode(p)
  <2>1. CASE Snapshot
    <3>1. monitor \in MonitorRecord BY MonitorTyped
    <3>2. monitor'.copy = [o \in Orders |-> IF Pending(o) THEN row[o] ELSE NoRow]
      BY <2>1, <3>1 DEF Snapshot, MonitorRecord
    <3>3. Exists(p) /\ row[p].awaiting
      BY <1>2, <3>2 DEF Pending
    <3> QED BY <3>3 DEF CareOK, CodesOK
  <2>2. CASE PassEnds
    BY <1>2, <2>2 DEF PassEnds, Resting
  <2> QED BY <2>1, <2>2
<1> QED BY <1>1, <1>2, MonitorMoves

LEMMA LateCares ==
  ASSUME IInv, CareOK, NEW o \in Orders,
         StopWaiting(o) \/ ExpireLate(o) \/ ProviderCancelled(o)
  PROVE  CareOK'
<1>1. Exists(o) /\ monitor.copy[o] \in OrderRow
  BY Visiting, Working DEF StopWaiting, ExpireLate, ProviderCancelled
<1>2. monitor.at # "expired" /\ UNCHANGED <<money, shown, buyer, handler, crashed>>
  BY DEF StopWaiting, ExpireLate, ProviderCancelled, Expire
<1>3. PICK copy \in OrderRow : copy = monitor.copy[o] BY <1>1
<1>4. CASE StopWaiting(o)
  <2>1. PICK new \in OrderRow :
          new = [copy EXCEPT !.status = "completed", !.awaiting = FALSE]
    BY DEF OrderRow, Status
  <2>2. Write(o, "loop", new) /\ copy.awaiting
    BY <1>3, <1>4, <2>1 DEF StopWaiting
  <2>3. HasCode(o)
    BY <1>3, <2>2, NoRowAssumption DEF CareOK, CodesOK
  <2>4. ~new.awaiting /\ new.code = copy.code
    BY <2>1 DEF OrderRow
  <2> QED BY <1>1, <1>2, <1>3, <2>2, <2>3, <2>4, MonitorCommits
<1>5. CASE ExpireLate(o) \/ ProviderCancelled(o)
  <2>1. PICK new \in OrderRow : new = [copy EXCEPT !.status = "expired"]
    BY DEF OrderRow, Status
  <2>2. Write(o, "expired", new)
    BY <1>3, <1>5, <2>1 DEF ExpireLate, ProviderCancelled, Expire
  <2>3. new.awaiting = copy.awaiting /\ new.code = copy.code
    BY <2>1 DEF OrderRow
  <2> QED BY <1>1, <1>2, <1>3, <2>2, <2>3, MonitorCommits
<1> QED BY <1>4, <1>5

\* The monitor waits for a provider or ends an order's turn.
LEMMA TurnCares ==
  ASSUME IInv, CareOK, NEW o \in Orders, monitor.at # "expired",
         UNCHANGED <<row, money, shown, buyer, handler, crashed>>,
         \/ monitor' = DoneWith(o)
         \/ monitor'.copy = monitor.copy
  PROVE  CareOK'
<1>1. \A p \in Orders : monitor'.copy[p] # NoRow => monitor'.copy[p] = monitor.copy[p]
  BY CopiesAfter
<1>2. \A p \in Orders : monitor'.copy[p] # NoRow /\ monitor'.copy[p].awaiting =>
        monitor.copy[p] # NoRow /\ monitor.copy[p].awaiting
  BY <1>1
<1> QED BY <1>2, MonitorMoves

LEMMA CheckCares ==
  ASSUME IInv, CareOK, NEW o \in Orders, CheckStatus(o)
  PROVE  CareOK'
<1>1. /\ monitor.at # "expired"
      /\ UNCHANGED <<row, money, shown, buyer, handler, crashed>>
  BY DEF CheckStatus
<1>2. CASE monitor' = DoneWith(o)
  BY <1>1, <1>2, TurnCares
<1>3. CASE \E got : monitor' = [monitor EXCEPT !.at = "checked", !.cur = o, !.got = got]
  <2>1. monitor'.copy = monitor.copy
    BY <1>3, MonitorTyped DEF MonitorRecord
  <2> QED BY <1>1, <2>1, TurnCares
<1> QED BY <1>2, <1>3 DEF CheckStatus

LEMMA ExpiredCares ==
  ASSUME IInv, CareOK, ExpireCredit
  PROVE  CareOK'
<1>1. monitor.at = "expired" /\ Refund(monitor.cur)
      /\ monitor' = [monitor EXCEPT !.at = "refunded"]
      /\ UNCHANGED <<row, shown, buyer, handler, crashed>>
  BY DEF ExpireCredit
<1>2. PICK o \in Orders : o = monitor.cur /\ Exists(o)
  BY <1>1, Working
<1>3. ~Owed(o)' /\ \A p \in Orders \ {o} : money'[p] = money[p]
  BY <1>1, <1>2, CreditedBack
<1>4. monitor'.copy = monitor.copy
  BY <1>1, MonitorTyped DEF MonitorRecord
<1>5. CodesOK'
  <2>1. \A h \in Handlers, p \in Orders : NeedsCode(h, p)' => NeedsCode(h, p)
    BY <1>1 DEF NeedsCode
  <2> QED BY <1>1, <1>4, <2>1, NothingWritten, CodesKept DEF CareOK
<1>6. Elsewhere(o)
  BY <1>1, <1>2, <1>3 DEF Elsewhere
<1>7. Served(o)' BY <1>3 DEF Served
<1> QED BY <1>5, <1>6, <1>7, OthersServed

LEMMA MarkCares ==
  ASSUME IInv, CareOK, ExpireMark
  PROVE  CareOK'
<1>1. monitor.at = "refunded" /\ UNCHANGED <<money, shown, buyer, handler, crashed>>
  BY DEF ExpireMark
<1>2. PICK o \in Orders : /\ o = monitor.cur /\ Exists(o)
                          /\ monitor.copy[o] \in OrderRow /\ money[o].linked = 1
  BY <1>1, Working
<1>3. PICK new \in OrderRow : new = [monitor.copy[o] EXCEPT !.status = "refunded"]
  BY <1>2 DEF OrderRow, Status
<1>4. Write(o, "loop", new)
  BY <1>2, <1>3 DEF ExpireMark
<1>5. new.awaiting = monitor.copy[o].awaiting /\ new.code = monitor.copy[o].code
  BY <1>2, <1>3 DEF OrderRow
<1> QED BY <1>1, <1>2, <1>4, <1>5, MonitorCommits

LEMMA CodeCares ==
  ASSUME IInv, CareOK, NEW o \in Orders, FurtherCode(o) \/ FirstCode(o)
  PROVE  CareOK'
<1>1. monitor.at = "checked" /\ monitor.cur = o /\ monitor.got # NoCode
      /\ UNCHANGED <<money, shown, buyer, handler, crashed>>
  BY DEF FurtherCode, FirstCode
<1>2. PICK copy \in OrderRow, got \in Codes \cup {NoCode} :
        /\ copy = monitor.copy[o] /\ got = monitor.got /\ Exists(o)
  BY <1>1, Current
<1>3. got \in Codes
  BY <1>1, <1>2
<1>4. CASE FirstCode(o)
  <2>1. PICK new \in OrderRow : new = [copy EXCEPT !.status = "completed", !.code = got]
    BY DEF OrderRow, Status
  <2>2. Write(o, "delivered", new)
    BY <1>2, <1>4, <2>1 DEF FirstCode
  <2>3. new.awaiting = copy.awaiting /\ new.code = got
    BY <2>1 DEF OrderRow
  <2> QED BY <1>1, <1>2, <2>2, <2>3, MonitorCommits
<1>5. CASE FurtherCode(o) /\ monitor.got \notin copy.extra
  <2>1. PICK new \in OrderRow :
          new = [copy EXCEPT !.extra = copy.extra \cup {got},
                             !.awaiting = FALSE, !.status = "completed"]
    BY <1>3 DEF OrderRow, Status
  <2>2. Write(o, "loop", new) /\ copy.code # NoCode
    BY <1>2, <1>5, <2>1 DEF FurtherCode, Awaited
  <2>3. ~new.awaiting /\ new.code = copy.code
    BY <2>1 DEF OrderRow
  <2> QED BY <1>1, <1>2, <2>2, <2>3, MonitorCommits
<1>6. CASE FurtherCode(o) /\ monitor.got \in copy.extra
  <2>1. monitor' = DoneWith(o) /\ UNCHANGED row
    BY <1>2, <1>6 DEF FurtherCode
  <2> QED BY <1>1, <2>1, TurnCares
<1> QED BY <1>4, <1>5, <1>6

LEMMA DeliverCares ==
  ASSUME IInv, CareOK, Deliver
  PROVE  CareOK'
<1>1. monitor.at = "delivered" /\ UNCHANGED <<row, money, buyer, handler, crashed>>
  BY DEF Deliver
<1>2. PICK o \in Orders : o = monitor.cur /\ HasCode(o)
  BY <1>1, Working DEF HasCode
<1>3. \A p \in Orders : shown'[p] = "code" => shown[p] = "code" \/ HasCode(p)
  BY <1>2, MonitorTyped DEF Deliver
<1>4. monitor' = DoneWith(o) \/ monitor'.copy = monitor.copy
  BY <1>2, MonitorTyped DEF Deliver, MonitorRecord
<1>5. \A p \in Orders : monitor'.copy[p] # NoRow => monitor'.copy[p] = monitor.copy[p]
  BY <1>4, CopiesAfter
<1>6. \A p \in Orders : monitor'.copy[p] # NoRow /\ monitor'.copy[p].awaiting =>
        monitor.copy[p] # NoRow /\ monitor.copy[p].awaiting
  BY <1>5
<1> QED BY <1>1, <1>3, <1>6, MonitorMoves

LEMMA RewardCares ==
  ASSUME IInv, CareOK, Reward
  PROVE  CareOK'
<1>1. monitor.at = "messaged" /\ Cashback(monitor.cur)
      /\ monitor' = DoneWith(monitor.cur)
      /\ UNCHANGED <<row, shown, buyer, handler, crashed>>
  BY DEF Reward
<1>2. PICK o \in Orders : o = monitor.cur /\ HasCode(o)
  BY <1>1, Working DEF HasCode
<1>3. money \in [Orders -> MoneyRecord] BY Books DEF BooksOK
<1>4. \A p \in Orders \ {o} : money'[p] = money[p]
  BY <1>1, <1>2, <1>3 DEF Cashback
<1>5. /\ CodesStay /\ HasCode(o)'
  BY <1>1, <1>2, NothingWritten
<1>6. CodesOK'
  <2>1. \A p \in Orders : monitor'.copy[p] # NoRow => monitor'.copy[p] = monitor.copy[p]
    BY <1>1, <1>2, CopiesAfter
  <2>2. \A p \in Orders : monitor'.copy[p] # NoRow /\ monitor'.copy[p].awaiting =>
          monitor.copy[p] # NoRow /\ monitor.copy[p].awaiting
    BY <2>1
  <2>3. \A h \in Handlers, p \in Orders : NeedsCode(h, p)' => NeedsCode(h, p)
    BY <1>1 DEF NeedsCode
  <2> QED BY <1>1, <1>5, <2>2, <2>3, CodesKept DEF CareOK
<1>7. Elsewhere(o)
  BY <1>1, <1>4 DEF Elsewhere
<1>8. Served(o)' BY <1>5 DEF Served
<1> QED BY <1>6, <1>7, <1>8, OthersServed

LEMMA BuyCares ==
  ASSUME IInv, CareOK, NEW o \in Orders, Buy(o)
  PROVE  CareOK'
<1>1. BooksOK /\ MoneyOK(o) /\ money[o] \in MoneyRecord
  BY Books DEF BooksOK
<1>2. /\ buyer \in [Orders -> BuyerSteps]
      /\ shown \in [Orders -> {"none", "actions", "code"}]
  BY DEF IInv, TypeOK, BuyerSteps
<1>3. UNCHANGED <<handler, monitor, crashed>>
  BY DEF Buy, BuyCheck, BuyDeduct, BuyNumber, BuySave, BuySend, BuyMessage
<1>4. \A p \in Orders \ {o} :
        row'[p] = row[p] /\ money'[p] = money[p] /\ buyer'[p] = buyer[p]
  BY <1>1, <1>2 DEF Buy, BuyCheck, BuyDeduct, BuyNumber, BuySave, BuySend,
                    BuyMessage, Buying, BooksOK
<1>5. Elsewhere(o)
  BY <1>3, <1>4 DEF Elsewhere
<1>6. \A p \in Orders : shown'[p] = "code" => shown[p] = "code"
  BY <1>2 DEF Buy, BuyCheck, BuyDeduct, BuyNumber, BuySave, BuySend, BuyMessage
<1>7. ASSUME CodesStay, Served(o)'
      PROVE  CareOK'
  <2>1. \A h \in Handlers, p \in Orders : NeedsCode(h, p)' => NeedsCode(h, p)
    BY <1>3 DEF NeedsCode
  <2>2. CodesOK'
    BY <1>3, <1>6, <1>7, <2>1, CodesKept DEF CareOK
  <2> QED BY <1>5, <1>7, <2>2, OthersServed
<1>8. CASE BuyCheck(o)
  <2>1. buyer[o] = "idle" /\ UNCHANGED <<row, money>>
    BY <1>8 DEF BuyCheck, Buying
  <2>2. ~Owed(o)'
    BY <1>1, <2>1 DEF MoneyOK, Owed, MoneyRecord
  <2> QED BY <1>7, <2>1, <2>2, NothingWritten DEF Served
<1>9. CASE BuyDeduct(o)
  <2>1. UNCHANGED row BY <1>9 DEF BuyDeduct
  <2>2. CASE buyer'[o] = "paid"
    <3>1. CaredFor(o)' BY <2>2 DEF CaredFor
    <3> QED BY <1>7, <2>1, <3>1, NothingWritten DEF Served
  <2>3. CASE UNCHANGED money
    <3>1. ~Owed(o)'
      BY <1>1, <1>9, <2>3 DEF BuyDeduct, Buying, MoneyOK, Owed, MoneyRecord
    <3> QED BY <1>7, <2>1, <3>1, NothingWritten DEF Served
  <2> QED BY <1>2, <1>9, <2>2, <2>3 DEF BuyDeduct, Buying
<1>10. CASE BuyNumber(o)
  <2>1. UNCHANGED row BY <1>10 DEF BuyNumber
  <2>2. CASE buyer'[o] = "bought"
    <3>1. CaredFor(o)' BY <2>2 DEF CaredFor
    <3> QED BY <1>7, <2>1, <3>1, NothingWritten DEF Served
  <2>3. CASE buyer[o] = "paid" /\ money' = [money EXCEPT ![o].plain = money[o].plain + 1]
    <3>1. money[o].paid = 1 /\ money[o].plain = 0
      BY <1>1, <2>3 DEF MoneyOK
    <3>2. /\ money'[o].paid = 1 /\ money'[o].plain = 1
          /\ money'[o].linked = money[o].linked
      BY <1>1, <2>3, <3>1 DEF BooksOK, MoneyRecord
    <3>3. ~Owed(o)'
      BY <1>1, <3>2 DEF Owed, MoneyRecord
    <3> QED BY <1>7, <2>1, <3>3, NothingWritten DEF Served
  <2> QED BY <1>2, <1>10, <2>2, <2>3 DEF BuyNumber, Buying
<1>11. CASE BuySave(o)
  <2>1. ~Exists(o)
    BY <1>1, <1>11 DEF BuySave, Buying, MoneyOK
  <2>2. PICK s : s = [status |-> "pending", code |-> NoCode, extra |-> {},
                      awaiting |-> FALSE, exp |-> 1, msg |-> FALSE]
    OBVIOUS
  <2>3. row'[o] = s
    BY <1>1, <1>11, <2>2 DEF BuySave, BooksOK
  <2>4. s \in OrderRow
    BY <2>2, NumberOrdersAssumption DEF OrderRow, Status
  <2>5. Pending(o)'
    <3>1. s # NoRow /\ s.status = "pending"
      BY <2>2, <2>4, NoRowAssumption
    <3> QED BY <2>3, <3>1 DEF Pending, Exists
  <2>6. \A p \in Orders \ {o} : Exists(p)' <=> Exists(p)
    BY <1>4 DEF Exists
  <2>7. CodesStay
    BY <1>4, <2>1, <2>2, <2>3, <2>6 DEF CodesStay, HasCode
  <2> QED BY <1>7, <2>5, <2>7 DEF Served, CaredFor
<1>12. CASE BuySend(o)
  <2>1. /\ buyer[o] \notin {"paid", "bought"} /\ UNCHANGED <<row, money>>
    BY <1>12 DEF BuySend, Buying
  <2>2. CaredFor(o) => CaredFor(o)'
    BY <1>3, <2>1, NothingWritten DEF CaredFor
  <2>3. Owed(o)' <=> Owed(o) BY <2>1 DEF Owed
  <2>4. Served(o)'
    BY <1>3, <2>1, <2>2, <2>3, NothingWritten DEF Served, CareOK
  <2> QED BY <1>7, <2>1, <2>4, NothingWritten
<1>13. CASE BuyMessage(o)
  <2>1. /\ buyer[o] = "sent" /\ row' = [row EXCEPT ![o].msg = TRUE]
        /\ UNCHANGED money
    BY <1>13 DEF BuyMessage, Buying
  <2>2. Exists(o) BY <1>1, <2>1 DEF MoneyOK
  <2>3. row[o] \in OrderRow BY <1>1, <2>2 DEF BooksOK, Exists, Copies
  <2>4. PICK s : s = [row[o] EXCEPT !.msg = TRUE] OBVIOUS
  <2>5. s \in OrderRow /\ s.status = row[o].status /\ s.code = row[o].code
        /\ s.awaiting = row[o].awaiting
    BY <2>3, <2>4 DEF OrderRow
  <2>6. RowWrite(o, s)
    BY <2>1, <2>4, <2>5 DEF RowWrite
  <2>7. /\ CodesStay
        /\ HasCode(o)' <=> HasCode(o)
        /\ Pending(o)' <=> Pending(o)
    BY <2>2, <2>5, <2>6, AfterWrite DEF HasCode, Pending
  <2>8. CaredFor(o) => CaredFor(o)'
    BY <1>3, <2>1, <2>7 DEF CaredFor
  <2>9. Owed(o)' <=> Owed(o) BY <2>1 DEF Owed
  <2>10. Served(o)'
    BY <1>3, <2>7, <2>8, <2>9 DEF Served, CareOK
  <2> QED BY <1>7, <2>7, <2>10
<1> QED BY <1>8, <1>9, <1>10, <1>11, <1>12, <1>13 DEF Buy

LEMMA CrashCares ==
  ASSUME IInv, CareOK, Crash
  PROVE  CareOK'
<1>1. /\ crashed' = TRUE /\ monitor' = Resting /\ UNCHANGED <<row, shown>>
      /\ \A h \in Handlers : handler'[h].at = "idle"
  BY DEF Crash, NoTask
<1>2. CodesOK'
  BY <1>1, NothingWritten, CodesKept DEF CareOK, NeedsCode, Resting
<1> QED BY <1>1, <1>2 DEF CareOK, Served

LEMMA NothingCares ==
  ASSUME CareOK, UNCHANGED <<row, money, shown, buyer, handler, monitor, crashed>>
  PROVE  CareOK'
BY DEF CareOK, CodesOK, NeedsCode, Served, Owed, HasCode, CaredFor, Pending, Exists

\* Nobody who has paid is forgotten while the process runs, whichever of the
\* tasks that write the order's status, from copies read earlier, comes last.
THEOREM PaidOrdersAreCaredFor == Spec => []NobodyIsForgotten
<1>1. Init => CareOK
  BY DEF Init, CareOK, CodesOK, NeedsCode, Served, Owed, Exists, HasCode, NoTask,
         Resting
<1>2. IInv /\ CareOK /\ [Next]_vars => CareOK'
  <2> SUFFICES ASSUME IInv, CareOK, [Next]_vars PROVE CareOK'
    OBVIOUS
  <2>1. CASE UNCHANGED vars
    BY <2>1, NothingCares DEF vars
  <2>2. ASSUME NEW h \in Handlers, Handle(h) PROVE CareOK'
    BY <2>2, CancelCares, CreditCares, EndCares DEF Handle
  <2>3. CASE Poll
    BY <2>3, PassCares, LateCares, CheckCares, ExpiredCares, MarkCares, CodeCares,
       DeliverCares, RewardCares DEF Poll
  <2>4. ASSUME NEW o \in Orders, SmsArrives(o) \/ DeadlinePasses(o) PROVE CareOK'
    BY <2>4, NothingCares DEF SmsArrives, DeadlinePasses
  <2> QED BY <2>1, <2>2, <2>3, <2>4, BuyCares, PressCares, CrashCares DEF Next
<1>3. CareOK => NobodyIsForgotten
  BY DEF CareOK, Served, NobodyIsForgotten
<1> QED BY <1>1, <1>2, <1>3, Inductive, PTL DEF Spec

-----------------------------------------------------------------------------
(* One escrow.                                                             *)

\* What is given back for an order.
Back(o) == money[o].plain + money[o].linked

\* A step that moves money for one order only.
LEMMA OneMovement ==
  ASSUME NEW o \in Orders, \A p \in Orders \ {o} : money'[p] = money[p],
         \/ money[o].paid = 0 /\ money'[o].paid = 1 /\ Back(o)' = Back(o)
         \/ /\ money[o].paid = 1 /\ money'[o].paid = 1
            /\ Back(o) = 0 /\ Back(o)' = 1
         \/ money'[o].paid = money[o].paid /\ Back(o)' = Back(o)
  PROVE  [Account!Next]_(Account!vars)
<1> DEFINE P == [p \in Orders |-> money[p].paid]
           B == [p \in Orders |-> money[p].plain + money[p].linked]
<1>1. /\ P' = [P EXCEPT ![o] = money'[o].paid]
      /\ B' = [B EXCEPT ![o] = money'[o].plain + money'[o].linked]
  OBVIOUS
<1>2. /\ P[o] = money[o].paid /\ B[o] = Back(o)
      /\ P' = [P EXCEPT ![o] = money'[o].paid] /\ B' = [B EXCEPT ![o] = Back(o)']
  BY <1>1 DEF Back
<1>3. (P' = P <=> money'[o].paid = money[o].paid) /\ (B' = B <=> Back(o)' = Back(o))
  BY <1>2 DEF Back
<1>4. CASE money[o].paid = 0 /\ money'[o].paid = 1 /\ Back(o)' = Back(o)
  <2>1. Account!Pay(o) BY <1>2, <1>3, <1>4 DEF Account!Pay
  <2> QED BY <2>1 DEF Account!Next
<1>5. CASE /\ money[o].paid = 1 /\ money'[o].paid = 1
           /\ Back(o) = 0 /\ Back(o)' = 1
  <2>1. Account!Return(o, 1) BY <1>2, <1>3, <1>5 DEF Account!Return
  <2>2. 1 \in 1 .. 1 OBVIOUS
  <2> QED BY <2>1, <2>2 DEF Account!Next
<1>6. CASE money'[o].paid = money[o].paid /\ Back(o)' = Back(o)
  <2>1. UNCHANGED Account!vars BY <1>3, <1>6 DEF Account!vars
  <2> QED BY <2>1
<1> QED BY <1>4, <1>5, <1>6

LEMMA NoMovement ==
  ASSUME UNCHANGED money PROVE [Account!Next]_(Account!vars)
<1>1. UNCHANGED Account!vars BY DEF Account!vars
<1> QED BY <1>1

LEMMA RefundMovement ==
  ASSUME IInv, NEW o \in Orders, Exists(o), Refund(o)
  PROVE  [Account!Next]_(Account!vars)
<1>1. BooksOK /\ MoneyOK(o) /\ money[o] \in MoneyRecord BY Books DEF BooksOK
<1>2. /\ money[o].paid = 1 /\ money[o].plain = 0 /\ money[o].linked \in {0, 1}
  BY <1>1 DEF MoneyOK, MoneyRecord
<1>3. (IF money[o].linked > 0 THEN money[o].linked ELSE money[o].linked + 1) = 1
  BY <1>2
<1>4. money' = [money EXCEPT ![o].linked = 1]
  BY <1>3 DEF Refund
<1>5. /\ money'[o].paid = 1 /\ money'[o].plain = 0 /\ money'[o].linked = 1
      /\ \A p \in Orders \ {o} : money'[p] = money[p]
  BY <1>1, <1>2, <1>4 DEF BooksOK, MoneyRecord
<1> QED BY <1>2, <1>5, OneMovement DEF Back

LEMMA BuyMovement ==
  ASSUME IInv, NEW o \in Orders, Buy(o)
  PROVE  [Account!Next]_(Account!vars)
<1>1. BooksOK /\ MoneyOK(o) /\ money[o] \in MoneyRecord BY Books DEF BooksOK
<1>2. CASE UNCHANGED money
  BY <1>2, NoMovement
<1>3. CASE BuyDeduct(o) /\ money' = [money EXCEPT ![o].paid = money[o].paid + 1]
  <2>1. money[o].paid = 0
    BY <1>1, <1>3 DEF BuyDeduct, Buying, MoneyOK
  <2>2. /\ money'[o].paid = 1 /\ money'[o].plain = money[o].plain
        /\ money'[o].linked = money[o].linked
        /\ \A p \in Orders \ {o} : money'[p] = money[p]
    BY <1>1, <1>3, <2>1 DEF BooksOK, MoneyRecord
  <2> QED BY <2>1, <2>2, OneMovement DEF Back
<1>4. CASE BuyNumber(o) /\ money' = [money EXCEPT ![o].plain = money[o].plain + 1]
  <2>1. buyer[o] = "paid"
    BY <1>4 DEF BuyNumber, Buying
  <2>2. money[o].paid = 1 /\ money[o].plain = 0 /\ money[o].linked = 0
    BY <1>1, <2>1 DEF MoneyOK
  <2>3. /\ money'[o].paid = 1 /\ money'[o].plain = 1 /\ money'[o].linked = 0
        /\ \A p \in Orders \ {o} : money'[p] = money[p]
    BY <1>1, <1>4, <2>2 DEF BooksOK, MoneyRecord
  <2> QED BY <2>2, <2>3, OneMovement DEF Back
<1> QED BY <1>2, <1>3, <1>4
        DEF Buy, BuyCheck, BuyDeduct, BuyNumber, BuySave, BuySend, BuyMessage

LEMMA HandlerMovement ==
  ASSUME IInv, NEW h \in Handlers, Handle(h)
  PROVE  [Account!Next]_(Account!vars)
<1>1. CASE UNCHANGED money
  BY <1>1, NoMovement
<1>2. CASE CancelCredit(h) \/ RefundCredit(h)
  <2>1. PICK o \in Orders : o = handler[h].order /\ Exists(o)
    BY <1>2, InProgress DEF CancelCredit, RefundCredit, Doing
  <2> QED BY <1>2, <2>1, RefundMovement DEF CancelCredit, RefundCredit
<1> QED BY <1>1, <1>2 DEF Handle, CancelOrder, MarkRefunded, ExtraCode, FinishOrder

LEMMA PollMovement ==
  ASSUME IInv, Poll
  PROVE  [Account!Next]_(Account!vars)
<1>1. CASE UNCHANGED money
  BY <1>1, NoMovement
<1>2. CASE ExpireCredit
  <2>1. PICK o \in Orders : o = monitor.cur /\ Exists(o)
    BY <1>2, Working DEF ExpireCredit
  <2> QED BY <1>2, <2>1, RefundMovement DEF ExpireCredit
<1>3. CASE Reward
  <2>1. PICK o \in Orders : o = monitor.cur
    BY <1>3, Working DEF Reward
  <2>2. Cashback(o) BY <1>3, <2>1 DEF Reward
  <2>3. CASE money' = [money EXCEPT ![o].cash = 1]
    <3>1. BooksOK /\ money[o] \in MoneyRecord BY Books DEF BooksOK
    <3>2. /\ money'[o].paid = money[o].paid /\ money'[o].plain = money[o].plain
          /\ money'[o].linked = money[o].linked
          /\ \A p \in Orders \ {o} : money'[p] = money[p]
      BY <2>3, <3>1 DEF BooksOK, MoneyRecord
    <3> QED BY <3>2, OneMovement DEF Back
  <2> QED BY <1>1, <2>2, <2>3 DEF Cashback
<1> QED BY <1>1, <1>2, <1>3
        DEF Poll, Snapshot, PassEnds, ExpireMark, Deliver, StopWaiting,
            ExpireLate, CheckStatus, ProviderCancelled, Expire, FurtherCode, FirstCode

\* To the buyer every purchase of a number is one escrow: paid once, given back
\* at most once, whoever refunds it and however often.
THEOREM OneEscrow == Spec => ImplementsEscrow
<1>1. Init => Account!Init
  BY DEF Init, Account!Init
<1>2. IInv /\ [Next]_vars => [Account!Next]_(Account!vars)
  <2> SUFFICES ASSUME IInv, [Next]_vars PROVE [Account!Next]_(Account!vars)
    OBVIOUS
  <2>1. CASE UNCHANGED money
    BY <2>1, NoMovement
  <2> QED BY <2>1, BuyMovement, HandlerMovement, PollMovement
          DEF Next, vars, Press, SmsArrives, DeadlinePasses, Crash
<1> QED BY <1>1, <1>2, Inductive, PTL DEF Spec, ImplementsEscrow, Account!Spec
=============================================================================
