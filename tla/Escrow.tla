------------------------------- MODULE Escrow -------------------------------
(***************************************************************************)
(* What a purchase promises to the account of its buyer, whoever takes     *)
(* part in it: the price is taken once, and given back at most once, in    *)
(* full or in part, after it was taken.  NumberOrders and ProductOrders    *)
(* implement it, with the credits of their handlers, of their monitors and *)
(* of administrators, all of which may happen at the same time.            *)
(***************************************************************************)
EXTENDS Integers

CONSTANTS Orders, Price

VARIABLES paid,  \* order -> what was taken for it
          back   \* order -> what was given back

vars == <<paid, back>>

Init == paid = [o \in Orders |-> 0] /\ back = [o \in Orders |-> 0]

Pay(o) ==
  /\ paid[o] = 0
  /\ paid' = [paid EXCEPT ![o] = Price]
  /\ UNCHANGED back

Return(o, amount) ==
  /\ paid[o] = Price /\ back[o] = 0
  /\ back' = [back EXCEPT ![o] = amount]
  /\ UNCHANGED paid

Next == \E o \in Orders : Pay(o) \/ \E amount \in 1 .. Price : Return(o, amount)

Spec == Init /\ [][Next]_vars
=============================================================================
