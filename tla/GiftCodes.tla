----------------------------- MODULE GiftCodes -----------------------------
(***************************************************************************)
(* Gift codes (services/gift_service.py): an administrator issues a code   *)
(* for a number of uses, users redeem it in the bot and over HTTP, two     *)
(* processes with one database, while it expires or is revoked.            *)
(*                                                                         *)
(* The user's lock is left out.  It keeps apart calls of one process only, *)
(* and not all of them (UserLocks), so nothing here relies on it.          *)
(***************************************************************************)
EXTENDS Naturals, FiniteSets

CONSTANTS Codes, Redeemers,
          Attempts,   \* calls of redeem: [by, code, in the process]
          MaxUses     \* a bound

ASSUME GiftAssumption ==
  /\ MaxUses \in Nat /\ IsFiniteSet(Redeemers)
  /\ \A t \in Attempts : t.by \in Redeemers /\ t.code \in Codes

NotIssued == [max |-> 0, used |-> 0, active |-> FALSE, expired |-> FALSE]
GiftCode ==
  [max : 0 .. MaxUses, used : Nat, active : BOOLEAN, expired : BOOLEAN]

VARIABLES gift,        \* the rows of gift_codes
          redemption,  \* gift_redemptions: its rows, by code and user
          credited,    \* the credits of the ledger, by code and user
          attempt      \* how far each call is

giftVars == <<gift, redemption, credited, attempt>>

GiftTypeOK ==
  /\ gift \in [Codes -> GiftCode]
  /\ redemption \in [Codes -> [Redeemers -> Nat]]
  /\ credited \in [Codes -> [Redeemers -> Nat]]
  /\ attempt \in [Attempts -> {"new", "loaded", "checked", "done"}]

GiftInit ==
  /\ gift = [c \in Codes |-> NotIssued]
  /\ redemption = [c \in Codes |-> [u \in Redeemers |-> 0]]
  /\ credited = [c \in Codes |-> [u \in Redeemers |-> 0]]
  /\ attempt = [t \in Attempts |-> "new"]

\* GiftService.create
GiftCreate(c) ==
  /\ gift[c] = NotIssued
  /\ \E n \in 1 .. MaxUses :
       gift' = [gift EXCEPT ![c] =
         [max |-> n, used |-> 0, active |-> TRUE, expired |-> FALSE]]
  /\ UNCHANGED <<redemption, credited, attempt>>

\* gift_revoke
GiftRevoke(c) ==
  /\ gift[c] # NotIssued /\ gift[c].active
  /\ gift' = [gift EXCEPT ![c].active = FALSE]
  /\ UNCHANGED <<redemption, credited, attempt>>

\* expires_at passes.
GiftExpire(c) ==
  /\ gift[c] # NotIssued /\ ~gift[c].expired
  /\ gift' = [gift EXCEPT ![c].expired = TRUE]
  /\ UNCHANGED <<redemption, credited, attempt>>

-----------------------------------------------------------------------------
\* GiftService.redeem, by calls that may all be inside at the same time.
To(t, at) == attempt' = [attempt EXCEPT ![t] = at]

RedeemLoad(t) ==
  /\ attempt[t] = "new"
  /\ IF gift[t.code].active /\ ~gift[t.code].expired THEN To(t, "loaded")
     ELSE To(t, "done")
  /\ UNCHANGED <<gift, redemption, credited>>

RedeemCheck(t) ==
  /\ attempt[t] = "loaded"
  /\ IF redemption[t.code][t.by] = 0 THEN To(t, "checked") ELSE To(t, "done")
  /\ UNCHANGED <<gift, redemption, credited>>

\* The conditions of the UPDATE that counts the use.  Mutant: the code is
\* trusted as it was loaded.
CountedAsLoaded(c) == TRUE
Counted(c) == gift[c].active /\ gift[c].used < gift[c].max

\* From the UPDATE on the transaction holds the database's write lock: count,
\* redemption (uq_gift_code_user), balance and ledger row are committed
\* together, or nothing is.
RedeemCommit(t) ==
  LET c == t.code
      u == t.by
  IN /\ attempt[t] = "checked"
     /\ IF Counted(c) /\ redemption[c][u] = 0
          THEN /\ gift' = [gift EXCEPT ![c].used = @ + 1]
               /\ redemption' = [redemption EXCEPT ![c][u] = @ + 1]
               /\ credited' = [credited EXCEPT ![c][u] = @ + 1]
          ELSE UNCHANGED <<gift, redemption, credited>>
     /\ To(t, "done")

\* The process dies before the commit, or the database refuses.
RedeemFails(t) ==
  /\ attempt[t] \in {"loaded", "checked"} /\ To(t, "done")
  /\ UNCHANGED <<gift, redemption, credited>>

GiftNext ==
  \/ \E c \in Codes : GiftCreate(c) \/ GiftRevoke(c) \/ GiftExpire(c)
  \/ \E t \in Attempts :
       RedeemLoad(t) \/ RedeemCheck(t) \/ RedeemCommit(t) \/ RedeemFails(t)

GiftSpec == GiftInit /\ [][GiftNext]_giftVars

-----------------------------------------------------------------------------
Uses(c) == {u \in Redeemers : redemption[c][u] > 0}

\* A code pays each user once and no more users than it was issued for, and
\* its counter is their number, with any calls that check at the same
\* time, the last use contended, and the code revoked in between
\* (services/gift_service.py:77-132).
GiftHonoured ==
  \A c \in Codes :
    /\ \A u \in Redeemers :
         redemption[c][u] <= 1 /\ credited[c][u] = redemption[c][u]
    /\ gift[c].used = Cardinality(Uses(c)) /\ gift[c].used <= gift[c].max
=============================================================================
