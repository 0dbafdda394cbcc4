----------------------------- MODULE MCServices -----------------------------
(* The services that share no rows, each in an instance for TLC: a         *)
(* behaviour is one of the part that its initial state names.              *)
EXTENDS Catalogue, Watches, GiftCodes, Loyalty, Referrals

VARIABLE part

Call(u, c, n) == [by |-> u, code |-> c, process |-> n]
TwoUsersTwoProcesses ==
  {Call("u1", "c1", 1), Call("u1", "c1", 2), Call("u2", "c1", 1),
   Call("u2", "c1", 2), Call("u1", "c2", 1)}

vars ==
  <<part, catalogueVars, watchVars, giftVars, loyaltyVars, referralVars>>

Init ==
  /\ part \in {"two passes", "two products", "watches", "gift codes", "loyalty",
               "referrals"}
  /\ CatalogueInit /\ WatchesInit /\ GiftInit /\ LoyaltyInit /\ ReferralInit
  /\ part # "watches" => item = CHOOSE i \in Item : i.active

\* One product and two synchronisations, or two products and one.
CatalogueStep ==
  /\ CatalogueNext
  /\ \/ part = "two passes" /\ product'["p2"] = None
     \/ part = "two products" /\ Free(syncs', "s2")
  /\ UNCHANGED <<part, watchVars, giftVars, loyaltyVars, referralVars>>
OnlyWatches ==
  /\ part = "watches"
  /\ UNCHANGED <<part, catalogueVars, giftVars, loyaltyVars, referralVars>>
WatchesStep == WatchesNext /\ OnlyWatches
GiftStep ==
  /\ part = "gift codes" /\ GiftNext
  /\ UNCHANGED <<part, catalogueVars, watchVars, loyaltyVars, referralVars>>
LoyaltyStep ==
  /\ part = "loyalty" /\ LoyaltyNext
  /\ UNCHANGED <<part, catalogueVars, watchVars, giftVars, referralVars>>
ReferralStep ==
  /\ part = "referrals" /\ ReferralNext
  /\ UNCHANGED <<part, catalogueVars, watchVars, giftVars, loyaltyVars>>

Next ==
  CatalogueStep \/ WatchesStep \/ GiftStep \/ LoyaltyStep \/ ReferralStep

Fairness == WF_vars(Pass /\ OnlyWatches)

Spec == Init /\ [][Next]_vars /\ Fairness

\* Every row, copy and history of the five parts has its type.
ServicesTypeOK ==
  /\ CatalogueTypeOK /\ WatchesTypeOK /\ GiftTypeOK
  /\ LoyaltyTypeOK /\ ReferralTypeOK
=============================================================================
