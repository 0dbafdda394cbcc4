--------------------------- MODULE MCNumberOrders ---------------------------
(* Instances of NumberOrders for TLC.                                      *)
EXTENDS NumberOrders

CONSTANTS user, admin   \* handlers

\* The user presses any button of the order; a second update finishes it or
\* is the administrator's refund.
UserAndAdmin == [h \in Handlers |-> IF h = user THEN {"cancel", "extra", "finish"}
                                                ELSE {"refund", "finish"}]
=============================================================================
