--------------------------- MODULE MCProductOrders ---------------------------
(* Instances of ProductOrders for TLC.                                      *)
EXTENDS ProductOrders

CONSTANTS o1, o2, u1, u2, a1, a2

Case(k1, v1, k2, v2, d1, d2, uses, sale) ==
  [asks |-> [o \in Orders |-> IF o = o1 THEN [kind |-> k1, owner |-> v1]
                                        ELSE [kind |-> k2, owner |-> v2]],
   desk |-> [a \in Admins |-> IF a = a1 THEN d1 ELSE d2],
   uses |-> uses, sale |-> sale]

OneUser == {Case("bot", u1, "bot", u1, {}, {}, 2, FALSE)}

\* One order that the monitor and two administrators decide about; a coupon
\* wanted twice by one user and by two; a refund among two orders of one pass
\* of the monitor; two buyers of the inventory, a void and a refund.
Races ==
  {Case("bot", u1, "none", u1, {"complete", "refund"}, {"complete", "refund"},
        1, TRUE),
   Case("bot", u1, "bot", u2, {}, {}, 1, FALSE),
   Case("http", u1, "http", u2, {"refund"}, {}, 0, FALSE),
   Case("item", u1, "item", u2, {"void"}, {"refund"}, 0, TRUE)}
  \cup OneUser
==================================================
