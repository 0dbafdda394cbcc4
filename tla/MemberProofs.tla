---------------------------- MODULE MemberProofs ----------------------------
(***************************************************************************)
(* Gift codes, the daily reward and the referrer's bonus, for any users,   *)
(* codes, calls and days.  At the end, the specification that TLC checks   *)
(* implements each of its parts, so that what is proved of the parts holds *)
(* in it.                                                                  *)
(***************************************************************************)
EXTENDS MCServices, CatalogueProofs

-----------------------------------------------------------------------------
(* Gift codes                                                              *)

LEMMA GiftTypeInit == GiftInit => GiftTypeOK
  BY GiftAssumption DEF GiftInit, GiftTypeOK, NotIssued, GiftCode

LEMMA GiftTypeCode ==
  ASSUME GiftTypeOK, NEW c \in Codes,
         GiftCreate(c) \/ GiftRevoke(c) \/ GiftExpire(c)
  PROVE  GiftTypeOK'
<1>1. gift[c] \in GiftCode
  BY DEF GiftTypeOK
<1>2. CASE GiftCreate(c)
  BY <1>2, GiftAssumption DEF GiftTypeOK, GiftCreate, GiftCode
<1>3. CASE GiftRevoke(c)
  BY <1>1, <1>3 DEF GiftTypeOK, GiftRevoke, GiftCode
<1>4. CASE GiftExpire(c)
  BY <1>1, <1>4 DEF GiftTypeOK, GiftExpire, GiftCode
<1>5. QED
  BY <1>2, <1>3, <1>4

LEMMA GiftTypeCall ==
  ASSUME GiftTypeOK, NEW t \in Attempts,
         \/ RedeemLoad(t) \/ RedeemCheck(t) \/ RedeemCommit(t) \/ RedeemFails(t)
  PROVE  GiftTypeOK'
<1>1. CASE RedeemLoad(t) \/ RedeemCheck(t) \/ RedeemFails(t)
  BY <1>1 DEF GiftTypeOK, RedeemLoad, RedeemCheck, RedeemFails, To
<1>2. CASE RedeemCommit(t)
  <2> DEFINE c == t.code
             u == t.by
  <2>1. c \in Codes /\ u \in Redeemers
    BY GiftAssumption
  <2>2. attempt' \in [Attempts -> {"new", "loaded", "checked", "done"}]
    BY <1>2 DEF GiftTypeOK, RedeemCommit, To
  <2>3. CASE UNCHANGED <<gift, redemption, credited>>
    BY <2>2, <2>3 DEF GiftTypeOK
  <2>4. CASE /\ gift' = [gift EXCEPT ![c].used = @ + 1]
             /\ redemption' = [redemption EXCEPT ![c][u] = @ + 1]
             /\ credited' = [credited EXCEPT ![c][u] = @ + 1]
    <3>1. /\ gift[c] \in GiftCode /\ redemption[c][u] \in Nat
          /\ credited[c][u] \in Nat
      BY <2>1 DEF GiftTypeOK
    <3>2. [gift[c] EXCEPT !.used = @ + 1] \in GiftCode
      BY <3>1 DEF GiftCode
    <3>3. gift' \in [Codes -> GiftCode]
      BY <2>1, <2>4, <3>2 DEF GiftTypeOK
    <3>4. /\ redemption' \in [Codes -> [Redeemers -> Nat]]
          /\ credited' \in [Codes -> [Redeemers -> Nat]]
      BY <2>1, <2>4, <3>1 DEF GiftTypeOK
    <3>5. QED
      BY <2>2, <3>3, <3>4 DEF GiftTypeOK
  <2>5. QED
    BY <1>2, <2>3, <2>4 DEF RedeemCommit
<1>3. QED
  BY <1>1, <1>2

\* Rows and calls have their types.
THEOREM GiftTypeCorrect == GiftSpec => []GiftTypeOK
<1>1. GiftTypeOK /\ [GiftNext]_giftVars => GiftTypeOK'
  <2>1. ASSUME GiftTypeOK, GiftNext
        PROVE  GiftTypeOK'
    BY <2>1, GiftTypeCode, GiftTypeCall DEF GiftNext
  <2>2. ASSUME GiftTypeOK, UNCHANGED giftVars
        PROVE  GiftTypeOK'
    BY <2>2 DEF GiftTypeOK, giftVars
  <2>3. QED
    BY <2>1, <2>2
<1>2. QED
  BY <1>1, GiftTypeInit, PTL DEF GiftSpec

LEMMA UsesFinite == \A c \in Codes : IsFiniteSet(Uses(c))
<1>1. \A c \in Codes : Uses(c) \subseteq Redeemers
  BY DEF Uses
<1>2. QED
  BY <1>1, GiftAssumption, FS_Subset

LEMMA HonouredInit == GiftInit => GiftHonoured
<1>1. ASSUME GiftInit, NEW c \in Codes
      PROVE  Uses(c) = {}
  BY <1>1 DEF GiftInit, Uses
<1>2. QED
  BY <1>1, FS_EmptySet DEF GiftInit, GiftHonoured, NotIssued

LEMMA HonouredCode ==
  ASSUME GiftTypeOK, GiftHonoured, NEW c \in Codes,
         GiftCreate(c) \/ GiftRevoke(c) \/ GiftExpire(c)
  PROVE  GiftHonoured'
<1>1. redemption' = redemption /\ credited' = credited
  BY DEF GiftCreate, GiftRevoke, GiftExpire
<1>2. gift'[c].used = gift[c].used /\ gift[c].max <= gift'[c].max
  <2>1. gift[c] \in GiftCode
    BY DEF GiftTypeOK
  <2>2. CASE GiftCreate(c)
    BY <2>2, GiftAssumption DEF GiftTypeOK, GiftCreate, NotIssued
  <2>3. CASE GiftRevoke(c)
    BY <2>1, <2>3 DEF GiftTypeOK, GiftRevoke, GiftCode
  <2>4. CASE GiftExpire(c)
    BY <2>1, <2>4 DEF GiftTypeOK, GiftExpire, GiftCode
  <2>5. QED
    BY <2>2, <2>3, <2>4
<1>3. \A d \in Codes \ {c} : gift'[d] = gift[d]
  BY DEF GiftTypeOK, GiftCreate, GiftRevoke, GiftExpire
<1>4. \A d \in Codes : Uses(d)' = Uses(d)
  BY <1>1 DEF Uses
<1>5. GiftTypeOK'
  BY GiftTypeCode
<1>6. ASSUME NEW d \in Codes
      PROVE  gift'[d].used = gift[d].used /\ gift'[d].used <= gift'[d].max
  <2>1. /\ gift[d].used \in Nat /\ gift[d].max \in Nat /\ gift'[d].max \in Nat
        /\ gift[d].used <= gift[d].max
    BY <1>5, GiftAssumption DEF GiftTypeOK, GiftCode, GiftHonoured
  <2>2. QED
    BY <1>2, <1>3, <2>1
<1>7. QED
  BY <1>1, <1>4, <1>6 DEF GiftHonoured

LEMMA HonouredCommit ==
  ASSUME GiftTypeOK, GiftHonoured, NEW t \in Attempts, RedeemCommit(t)
  PROVE  GiftHonoured'
<1> DEFINE c == t.code
           u == t.by
<1>1. c \in Codes /\ u \in Redeemers
  BY GiftAssumption
<1>2. CASE UNCHANGED <<gift, redemption, credited>>
  BY <1>2 DEF GiftHonoured, Uses
<1>3. CASE /\ Counted(c) /\ redemption[c][u] = 0
           /\ gift' = [gift EXCEPT ![c].used = @ + 1]
           /\ redemption' = [redemption EXCEPT ![c][u] = @ + 1]
           /\ credited' = [credited EXCEPT ![c][u] = @ + 1]
  <2>1. /\ gift[c] \in GiftCode /\ credited[c][u] = 0
        /\ gift[c].used = Cardinality(Uses(c))
    BY <1>1, <1>3 DEF GiftTypeOK, GiftHonoured
  <2>2. /\ gift'[c].used = gift[c].used + 1 /\ gift'[c].max = gift[c].max
        /\ \A d \in Codes \ {c} : gift'[d] = gift[d]
    BY <1>1, <1>3, <2>1 DEF GiftTypeOK, GiftCode
  <2>3. /\ redemption'[c][u] = 1 /\ credited'[c][u] = 1
        /\ \A v \in Redeemers \ {u} :
             /\ redemption'[c][v] = redemption[c][v]
             /\ credited'[c][v] = credited[c][v]
        /\ \A d \in Codes \ {c} :
             redemption'[d] = redemption[d] /\ credited'[d] = credited[d]
    BY <1>1, <1>3, <2>1 DEF GiftTypeOK
  <2>4. Uses(c)' = Uses(c) \cup {u} /\ u \notin Uses(c)
    BY <1>1, <1>3, <2>3 DEF Uses
  <2>5. Cardinality(Uses(c)') = Cardinality(Uses(c)) + 1
    BY <1>1, <2>4, UsesFinite, FS_AddElement
  <2>6. \A d \in Codes \ {c} : Uses(d)' = Uses(d)
    BY <2>3 DEF Uses
  <2>7. gift[c].used + 1 <= gift[c].max
    BY <1>3, <2>1, GiftAssumption DEF Counted, GiftCode
  <2>8. ASSUME NEW d \in Codes
        PROVE  /\ \A v \in Redeemers :
                    /\ redemption'[d][v] <= 1
                    /\ credited'[d][v] = redemption'[d][v]
               /\ gift'[d].used = Cardinality(Uses(d)')
               /\ gift'[d].used <= gift'[d].max
    <3>1. CASE d = c
      <4>1. \A v \in Redeemers :
              /\ redemption'[c][v] <= 1 /\ credited'[c][v] = redemption'[c][v]
        BY <1>1, <2>3 DEF GiftHonoured
      <4>2. /\ gift'[c].used = Cardinality(Uses(c)')
            /\ gift'[c].used <= gift'[c].max
        BY <2>1, <2>2, <2>5, <2>7
      <4>3. QED
        BY <3>1, <4>1, <4>2
    <3>2. CASE d # c
      BY <2>2, <2>3, <2>6, <3>2 DEF GiftHonoured
    <3>3. QED
      BY <3>1, <3>2
  <2>9. QED
    BY <2>8 DEF GiftHonoured
<1>4. QED
  BY <1>2, <1>3 DEF RedeemCommit

\* A code pays each user once and no more users than it was issued for.
THEOREM CodesAreHonoured == GiftSpec => []GiftHonoured
<1>1. GiftTypeOK /\ GiftHonoured /\ [GiftNext]_giftVars => GiftHonoured'
  <2>1. ASSUME GiftHonoured, UNCHANGED <<gift, redemption, credited>>
        PROVE  GiftHonoured'
    BY <2>1 DEF GiftHonoured, Uses
  <2>2. ASSUME GiftTypeOK, GiftHonoured, NEW t \in Attempts,
               RedeemLoad(t) \/ RedeemCheck(t) \/ RedeemFails(t)
        PROVE  GiftHonoured'
    BY <2>1, <2>2 DEF RedeemLoad, RedeemCheck, RedeemFails
  <2>3. ASSUME GiftTypeOK, GiftHonoured, GiftNext
        PROVE  GiftHonoured'
    BY <2>2, <2>3, HonouredCode, HonouredCommit DEF GiftNext
  <2>4. QED
    BY <2>1, <2>3 DEF giftVars
<1>2. QED
  BY <1>1, HonouredInit, GiftTypeCorrect, PTL DEF GiftSpec

-----------------------------------------------------------------------------
(* Referrals                                                               *)

Holding == {"loaded", "paying", "marking"}
Holdings == [at : Holding, of : Newcomers, copy : Account]

LEMMA Held ==
  ASSUME ReferralTypeOK, NEW t \in Updates, update[t].at \in Holding
  PROVE  /\ update[t] \in Holdings
         /\ update[t] = [at |-> update[t].at, of |-> update[t].of,
                         copy |-> update[t].copy]
  BY DEF ReferralTypeOK, Holding, Holdings, Ready

LEMMA Creating ==
  ASSUME ReferralTypeOK, NEW t \in Updates, update[t].at = "creating"
  PROVE  update[t].of \in Newcomers /\ update[t].link \in BOOLEAN
  BY DEF ReferralTypeOK, Ready

LEMMA MoveOn ==
  ASSUME ReferralTypeOK, NEW t \in Updates, update[t].at \in Holding,
         NEW at \in Holding
  PROVE  [update[t] EXCEPT !.at = at] =
           [at |-> at, of |-> update[t].of, copy |-> update[t].copy]
<1>1. update[t] \in Holdings
  BY Held
<1>2. ASSUME NEW r \in Holdings
      PROVE  [r EXCEPT !.at = at] = [at |-> at, of |-> r.of, copy |-> r.copy]
  BY <1>2 DEF Holdings
<1>3. QED
  BY <1>1, <1>2

\* What an update in progress knows of its user's row.
Known(t) ==
  LET u == update[t].of
      copy == update[t].copy
  IN update[t].at \in Holding =>
       /\ account[u] # NoRow
       /\ account[u].referred = copy.referred
       /\ copy.activated => account[u].activated
       /\ update[t].at # "loaded" =>
            account[u].activated /\ copy.referred /\ ~copy.activated
       /\ update[t].at = "marking" => bonus[u] > 0

\* An update that was not activated when loaded, if it overlaps no other one.
Alone(t) ==
  LET u == update[t].of
  IN update[t].at \in Holding /\ ~update[t].copy.activated
       /\ u \notin overlapped =>
       /\ ~Unactivated(t, u)
       /\ update[t].at = "loaded" => ~account[u].activated
       /\ update[t].at = "paying" => bonus[u] = 0

ReferralInv ==
  /\ ReferralTypeOK /\ ReferralIsEarned
  /\ \A t \in Updates : Known(t) /\ Alone(t)

LEMMA ReferralInvInit == ReferralInit => ReferralInv
  BY DEF ReferralInit, ReferralInv, ReferralTypeOK, ReferralIsEarned, Known,
    Alone, Ready, Holding

\* The row and the progress of an update that is at work.
LEMMA Handled ==
  ASSUME ReferralInv, NEW t \in Updates, update[t].at \in Holding
  PROVE  /\ update[t].of \in Newcomers /\ update[t].copy \in Account
         /\ account[update[t].of] \in Account
<1>1. update[t].of \in Newcomers /\ update[t].copy \in Account
  BY Held DEF Holdings, ReferralInv
<1>2. account[update[t].of] # NoRow
  BY DEF ReferralInv, Known
<1>3. QED
  BY <1>1, <1>2 DEF ReferralInv, ReferralTypeOK

\* One column of one row.
Changed(u, column) ==
  /\ account'[u] \in Account
  /\ \A c \in {"referred", "activated", "paid"} \ {column} :
       account'[u][c] = account[u][c]
  /\ account'[u][column]
  /\ \A v \in Newcomers \ {u} : account'[v] = account[v]
  /\ account' \in [Newcomers -> Account \cup {NoRow}]

LEMMA ActivatesRow ==
  ASSUME ReferralInv, NEW t \in Updates, Activate(t)
  PROVE  Changed(update[t].of, "activated")
<1>1. /\ update[t].of \in Newcomers /\ account[update[t].of] \in Account
  BY Handled DEF Activate, Holding
<1>2. [account[update[t].of] EXCEPT !.activated = TRUE] \in Account
  BY <1>1 DEF Account
<1>3. QED
  BY <1>1, <1>2 DEF Activate, Changed, ReferralInv, ReferralTypeOK, Account

LEMMA MarksRow ==
  ASSUME ReferralInv, NEW t \in Updates, MarkPaid(t)
  PROVE  Changed(update[t].of, "paid")
<1>1. /\ update[t].of \in Newcomers /\ account[update[t].of] \in Account
  BY Handled DEF MarkPaid, Holding
<1>2. [account[update[t].of] EXCEPT !.paid = TRUE] \in Account
  BY <1>1 DEF Account
<1>3. QED
  BY <1>1, <1>2 DEF MarkPaid, Changed, ReferralInv, ReferralTypeOK, Account

\* An update that ends, or goes on with what it loaded, overlaps no more.
GoesOn(t) ==
  /\ update[t].at \in Holding
  /\ \/ update'[t] = Ready
     \/ /\ update'[t].at \in Holding \ {"loaded"}
        /\ update'[t].of = update[t].of /\ update'[t].copy = update[t].copy
  /\ \A s \in Updates \ {t} : update'[s] = update[s]

LEMMA GoingOn ==
  ASSUME NEW t \in Updates, GoesOn(t), NEW s \in Updates, NEW v
  PROVE  Unactivated(s, v)' => Unactivated(s, v)
  BY DEF GoesOn, Unactivated, Holding, Ready

\* Another update that is alone excludes one of the same user.
LEMMA Excluded ==
  ASSUME NEW t \in Updates, NEW s \in Updates \ {t}, Alone(s),
         update[t].at \in Holding, ~update[t].copy.activated,
         update[s].at \in Holding, ~update[s].copy.activated,
         update[s].of = update[t].of
  PROVE  update[t].of \in overlapped
  BY DEF Alone, Unactivated, Holding

LEMMA ReadStep ==
  ASSUME ReferralInv, NEW t \in Updates, NEW u \in Newcomers, UserRead(t, u)
  PROVE  ReferralInv'
<1>1. /\ update[t] = Ready /\ account' = account /\ bonus' = bonus
      /\ \A s \in Updates \ {t} : update'[s] = update[s]
      /\ overlapped \subseteq overlapped'
  BY DEF UserRead, ReferralInv, ReferralTypeOK
<1>2. ReferralIsEarned'
  BY <1>1 DEF ReferralInv, ReferralIsEarned
<1>3. \A s \in Updates \ {t} : Known(s)'
  BY <1>1 DEF ReferralInv, Known
<1>4. CASE account[u] = NoRow
  <2>1. PICK link \in BOOLEAN : update' = [update EXCEPT ![t] =
          [at |-> "creating", of |-> u, link |-> link]]
    BY <1>4 DEF UserRead
  <2>2. update'[t] = [at |-> "creating", of |-> u, link |-> link]
    BY <2>1 DEF ReferralInv, ReferralTypeOK
  <2>3. overlapped' = overlapped
    BY <1>4 DEF UserRead
  <2>4. ReferralTypeOK'
    BY <1>1, <2>1, <2>3 DEF ReferralInv, ReferralTypeOK
  <2>5. Known(t)' /\ Alone(t)'
    BY <2>2 DEF Known, Alone, Holding
  <2>6. \A s \in Updates \ {t}, v \in Newcomers :
          Unactivated(s, v)' => Unactivated(s, v)
    BY <1>1, <2>2 DEF Unactivated
  <2>7. \A s \in Updates \ {t} :
          update[s].at \in Holding => update[s].of \in Newcomers
    BY Handled
  <2>8. \A s \in Updates \ {t} : Alone(s)'
    BY <1>1, <2>3, <2>6, <2>7 DEF ReferralInv, Alone
  <2>9. QED
    BY <1>2, <1>3, <2>4, <2>5, <2>8 DEF ReferralInv
<1>5. CASE account[u] # NoRow
  <2>1. update' = [update EXCEPT ![t] =
                    [at |-> "loaded", of |-> u, copy |-> account[u]]]
    BY <1>5 DEF UserRead, Handling
  <2>2. update'[t] = [at |-> "loaded", of |-> u, copy |-> account[u]]
    BY <2>1 DEF ReferralInv, ReferralTypeOK
  <2>3. overlapped' = IF ~account[u].activated /\ Unactivated(t, u)
                        THEN overlapped \cup {u} ELSE overlapped
    BY <1>5 DEF UserRead
  <2>4. account[u] \in Account
    BY <1>5 DEF ReferralInv, ReferralTypeOK
  <2>5. ReferralTypeOK'
    <3>1. [at |-> "loaded", of |-> u, copy |-> account[u]] \in
            [at : {"loaded", "paying", "marking"}, of : Newcomers,
             copy : Account]
      BY <2>4
    <3>2. QED
      BY <1>1, <2>1, <2>3, <3>1 DEF ReferralInv, ReferralTypeOK
  <2>6. Known(t)'
    BY <1>1, <1>5, <2>2 DEF Known
  <2>7. Alone(t)'
    <3>1. Unactivated(t, u)' => Unactivated(t, u)
      BY <1>1 DEF Unactivated
    <3>2. QED
      BY <1>1, <2>2, <2>3, <3>1 DEF Alone
  <2>8. ASSUME NEW s \in Updates \ {t}
        PROVE  Alone(s)'
    <3> DEFINE v == update[s].of
    <3>1. SUFFICES ASSUME update[s].at \in Holding, ~update[s].copy.activated,
                          v \notin overlapped'
                   PROVE  /\ ~Unactivated(s, v)'
                          /\ update[s].at = "loaded" => ~account[v].activated
                          /\ update[s].at = "paying" => bonus[v] = 0
      BY <1>1 DEF Alone
    <3>2. ~(v = u /\ ~account[u].activated)
      BY <2>3, <3>1 DEF Unactivated, Holding
    <3>3. Unactivated(s, v)' => Unactivated(s, v)
      BY <1>1, <2>2, <3>2 DEF Unactivated
    <3>4. Alone(s) /\ v \notin overlapped
      BY <1>1, <3>1 DEF ReferralInv
    <3>5. QED
      BY <3>1, <3>3, <3>4 DEF Alone
  <2>9. QED
    BY <1>2, <1>3, <2>5, <2>6, <2>7, <2>8 DEF ReferralInv
<1>6. QED
  BY <1>4, <1>5

LEMMA CreateStep ==
  ASSUME ReferralInv, NEW t \in Updates, UserCreate(t)
  PROVE  ReferralInv'
<1> DEFINE u == update[t].of
           new == [referred |-> update[t].link, activated |-> FALSE,
                   paid |-> FALSE]
<1>1. u \in Newcomers /\ new \in Account
  BY Creating DEF UserCreate, Account, ReferralInv
<1>2. /\ bonus' = bonus /\ overlapped' = overlapped
      /\ update[t].at = "creating"
      /\ \A s \in Updates \ {t} : update'[s] = update[s]
  BY DEF UserCreate, ReferralInv, ReferralTypeOK
<1>3. CASE account[u] # NoRow
  <2>1. account' = account /\ update' = [update EXCEPT ![t] = Ready]
    BY <1>3 DEF UserCreate
  <2>2. update'[t] = Ready
    BY <2>1 DEF ReferralInv, ReferralTypeOK
  <2>3. ReferralTypeOK' /\ ReferralIsEarned'
    BY <1>2, <2>1 DEF ReferralInv, ReferralTypeOK, ReferralIsEarned
  <2>4. \A s \in Updates : Known(s)'
    BY <1>2, <2>1, <2>2 DEF ReferralInv, Known, Ready, Holding
  <2>5. ASSUME NEW s \in Updates
        PROVE  Alone(s)'
    <3>1. CASE s = t
      BY <2>2, <3>1 DEF Alone, Ready, Holding
    <3>2. CASE s # t
      <4>1. Unactivated(s, update[s].of)' => Unactivated(s, update[s].of)
        BY <1>2, <2>2, <3>2 DEF Unactivated, Ready
      <4>2. QED
        BY <1>2, <2>1, <3>2, <4>1 DEF ReferralInv, Alone
    <3>3. QED
      BY <3>1, <3>2
  <2>6. QED
    BY <2>3, <2>4, <2>5 DEF ReferralInv
<1>4. CASE account[u] = NoRow
  <2>1. /\ account' = [account EXCEPT ![u] = new]
        /\ update' = [update EXCEPT ![t] =
                      [at |-> "loaded", of |-> u, copy |-> new]]
    BY <1>4 DEF UserCreate, Handling
  <2>2. /\ update'[t] = [at |-> "loaded", of |-> u, copy |-> new]
        /\ account'[u] = new
        /\ \A v \in Newcomers \ {u} : account'[v] = account[v]
    BY <1>1, <2>1 DEF ReferralInv, ReferralTypeOK
  <2>3. ReferralTypeOK'
    <3>1. [at |-> "loaded", of |-> u, copy |-> new] \in
            [at : {"loaded", "paying", "marking"}, of : Newcomers,
             copy : Account]
      BY <1>1
    <3>2. QED
      BY <1>1, <1>2, <2>1, <3>1 DEF ReferralInv, ReferralTypeOK
  <2>4. bonus[u] = 0
    BY <1>1, <1>4 DEF ReferralInv, ReferralTypeOK, ReferralIsEarned
  <2>5. ReferralIsEarned'
    BY <1>2, <2>2, <2>4 DEF ReferralInv, ReferralIsEarned
  <2>6. \A s \in Updates \ {t} :
          update[s].at \in Holding => update[s].of \in Newcomers \ {u}
    BY <1>4, Handled DEF ReferralInv, Known
  <2>7. ReferralAssumption
    BY ReferralAssumption
  <2>8. Known(t)' /\ \A s \in Updates \ {t} : Known(s)'
    BY <1>1, <1>2, <2>2, <2>6, <2>7 DEF ReferralInv, Known, ReferralAssumption
  <2>9. Alone(t)'
    <3>1. ~Unactivated(t, u)'
      BY <1>2, <2>2, <2>6 DEF Unactivated, Holding
    <3>2. QED
      BY <2>2, <3>1 DEF Alone
  <2>10. ASSUME NEW s \in Updates \ {t}
         PROVE  Alone(s)'
    <3>1. update[s].at \in Holding =>
            (Unactivated(s, update[s].of)' => Unactivated(s, update[s].of))
      BY <1>2, <2>2, <2>6 DEF Unactivated
    <3>2. QED
      BY <1>2, <2>2, <2>6, <3>1 DEF ReferralInv, Alone
  <2>11. QED
    BY <2>3, <2>5, <2>8, <2>9, <2>10 DEF ReferralInv
<1>5. QED
  BY <1>3, <1>4

\* A step on the row of an update at work, seen by the others.
LEMMA WorkStep ==
  ASSUME ReferralInv, NEW t \in Updates, GoesOn(t), overlapped' = overlapped,
         ReferralTypeOK', ReferralIsEarned', Known(t)', Alone(t)',
         LET u == update[t].of
         IN /\ \A v \in Newcomers \ {u} :
                 account'[v] = account[v] /\ bonus'[v] = bonus[v]
            /\ account'[u] # NoRow /\ account'[u].referred = account[u].referred
            /\ account[u].activated => account'[u].activated
            /\ bonus[u] > 0 => bonus'[u] > 0
            /\ \/ ~update[t].copy.activated
               \/ account'[u].activated = account[u].activated /\ bonus' = bonus
  PROVE  ReferralInv'
<1> DEFINE u == update[t].of
<1>1. \A s \in Updates \ {t} : update'[s] = update[s]
  BY DEF GoesOn
<1>2. ASSUME NEW s \in Updates \ {t}
      PROVE  Known(s)'
  <2>1. CASE update[s].at \in Holding
    <3>1. Known(s) /\ update[s].of \in Newcomers
      BY <2>1, Handled DEF ReferralInv
    <3>2. CASE update[s].of = u
      BY <1>1, <2>1, <3>1, <3>2 DEF Known
    <3>3. CASE update[s].of # u
      BY <1>1, <2>1, <3>1, <3>3 DEF Known
    <3>4. QED
      BY <3>2, <3>3
  <2>2. CASE update[s].at \notin Holding
    BY <1>1, <2>2 DEF Known
  <2>3. QED
    BY <2>1, <2>2
<1>3. ASSUME NEW s \in Updates \ {t}
      PROVE  Alone(s)'
  <2> DEFINE v == update[s].of
  <2>1. SUFFICES ASSUME update[s].at \in Holding, ~update[s].copy.activated,
                        v \notin overlapped
                 PROVE  /\ ~Unactivated(s, v)'
                        /\ update[s].at = "loaded" => ~account'[v].activated
                        /\ update[s].at = "paying" => bonus'[v] = 0
    BY <1>1 DEF Alone
  <2>2. Alone(s) /\ v \in Newcomers
    BY <2>1, Handled DEF ReferralInv
  <2>3. ~Unactivated(s, v)'
    <3>1. ~Unactivated(s, v)
      BY <2>1, <2>2 DEF Alone
    <3>2. QED
      BY <1>1, <3>1, GoingOn DEF Unactivated, GoesOn, Holding, Ready
  <2>4. update[t].copy.activated \/ v # u
    BY <2>1, <2>2, Excluded DEF GoesOn
  <2>5. CASE v # u
    BY <2>1, <2>2, <2>3, <2>5 DEF Alone
  <2>6. CASE v = u /\ update[t].copy.activated
    BY <2>1, <2>2, <2>3, <2>6 DEF Alone
  <2>7. QED
    BY <2>4, <2>5, <2>6
<1>4. QED
  BY <1>2, <1>3 DEF ReferralInv

LEMMA ActivateStep ==
  ASSUME ReferralInv, NEW t \in Updates, Activate(t)
  PROVE  ReferralInv'
<1> DEFINE u == update[t].of
           copy == update[t].copy
<1>0. /\ update'[t] = IF copy.referred /\ ~copy.paid
                      THEN [update[t] EXCEPT !.at = "paying"] ELSE Ready
      /\ \A s \in Updates \ {t} : update'[s] = update[s]
      /\ update' = [update EXCEPT ![t] = update'[t]]
  <2> DEFINE next == IF copy.referred /\ ~copy.paid
                       THEN [update[t] EXCEPT !.at = "paying"] ELSE Ready
  <2>1. update' = [update EXCEPT ![t] = next]
    BY DEF Activate
  <2>2. update \in [Updates -> {update[s] : s \in Updates}]
    BY DEF ReferralInv, ReferralTypeOK
  <2>3. HIDE DEF next
  <2>4. update'[t] = next /\ \A s \in Updates \ {t} : update'[s] = update[s]
    BY <2>1, <2>2
  <2>5. QED
    BY <2>1, <2>4 DEF next
<1>1. /\ update[t].at = "loaded" /\ update[t].at \in Holding /\ ~copy.activated
      /\ bonus' = bonus /\ overlapped' = overlapped
  BY DEF Activate, Due, Holding
<1>2. /\ u \in Newcomers /\ copy \in Account /\ account[u] \in Account
      /\ Known(t) /\ Alone(t)
  BY <1>1, Handled DEF ReferralInv
<1>3. Changed(u, "activated")
  BY ActivatesRow
<1>4. /\ account'[u] # NoRow /\ account'[u].referred = account[u].referred
      /\ account'[u].activated /\ account'[u].paid = account[u].paid
      /\ \A v \in Newcomers \ {u} : account'[v] = account[v]
  BY <1>3, ReferralAssumption DEF Changed
<1>5. \/ update'[t] = Ready
      \/ /\ copy.referred
         /\ update'[t] = [at |-> "paying", of |-> u, copy |-> copy]
  <2>1. [update[t] EXCEPT !.at = "paying"] =
          [at |-> "paying", of |-> u, copy |-> copy]
    BY <1>1, MoveOn DEF ReferralInv, Holding
  <2>2. QED
    BY <1>0, <2>1
<1>6. \A s \in Updates \ {t} : update'[s] = update[s]
  BY <1>0
<1>7. GoesOn(t)
  BY <1>1, <1>5, <1>6 DEF GoesOn, Holding
<1>8. ReferralTypeOK'
  <2>1. update' = [update EXCEPT ![t] = update'[t]]
    BY <1>0
  <2>2. [at |-> "paying", of |-> u, copy |-> copy] \in
          [at : {"loaded", "paying", "marking"}, of : Newcomers, copy : Account]
    BY <1>2
  <2>3. QED
    BY <1>1, <1>3, <1>5, <2>1, <2>2 DEF Changed, ReferralInv, ReferralTypeOK
<1>9. ReferralIsEarned'
  <2>1. ASSUME NEW v \in Newcomers
        PROVE  /\ bonus'[v] > 0 =>
                    /\ account'[v] # NoRow /\ account'[v].referred
                    /\ account'[v].activated
               /\ account'[v] # NoRow /\ account'[v].paid => bonus'[v] > 0
               /\ bonus'[v] > 1 => v \in overlapped'
    <3>1. CASE v = u
      <4>1. (account'[u].paid <=> account[u].paid) /\ account[u] # NoRow
            /\ (account'[u].referred <=> account[u].referred)
        BY <1>2, <1>4, ReferralAssumption
      <4>2. QED
        BY <1>1, <1>4, <3>1, <4>1 DEF ReferralInv, ReferralIsEarned
    <3>2. CASE v # u
      BY <1>1, <1>4, <3>2 DEF ReferralInv, ReferralIsEarned
    <3>3. QED
      BY <3>1, <3>2
  <2>2. QED
    BY <2>1 DEF ReferralIsEarned
<1>10. Known(t)'
  BY <1>1, <1>2, <1>4, <1>5 DEF Known, Ready, Holding
<1>11. Alone(t)'
  <2>1. ASSUME u \notin overlapped
        PROVE  ~Unactivated(t, u) /\ bonus[u] = 0
    BY <1>1, <1>2, <2>1
    DEF Alone, ReferralInv, ReferralIsEarned, ReferralTypeOK
  <2>2. \A v \in Newcomers : Unactivated(t, v)' => Unactivated(t, v)
    BY <1>5, <1>6 DEF Unactivated, Ready
  <2>3. QED
    BY <1>1, <1>2, <1>5, <2>1, <2>2 DEF Alone, Ready, Holding
<1>12. QED
  BY <1>1, <1>4, <1>7, <1>8, <1>9, <1>10, <1>11, WorkStep

LEMMA PayStep ==
  ASSUME ReferralInv, NEW t \in Updates, PayBonus(t)
  PROVE  ReferralInv'
<1> DEFINE u == update[t].of
           copy == update[t].copy
<1>1. /\ update[t].at = "paying" /\ update[t].at \in Holding
      /\ account' = account /\ overlapped' = overlapped
      /\ bonus' = [bonus EXCEPT ![u] = @ + 1]
  BY DEF PayBonus, Holding
<1>2. /\ u \in Newcomers /\ copy \in Account /\ account[u] \in Account
      /\ Known(t) /\ Alone(t)
  BY <1>1, Handled DEF ReferralInv
<1>3. /\ account[u] # NoRow /\ account[u].referred /\ account[u].activated
      /\ copy.referred /\ ~copy.activated
      /\ account[u].referred = copy.referred
  BY <1>1, <1>2 DEF Known
<1>4. /\ bonus[u] \in Nat /\ bonus'[u] = bonus[u] + 1
      /\ \A v \in Newcomers \ {u} : bonus'[v] = bonus[v]
      /\ bonus' \in [Newcomers -> Nat]
  BY <1>1, <1>2 DEF ReferralInv, ReferralTypeOK
<1>5. update' =
        [update EXCEPT ![t] = [at |-> "marking", of |-> u, copy |-> copy]]
  <2>1. [update[t] EXCEPT !.at = "marking"] =
          [at |-> "marking", of |-> u, copy |-> copy]
    BY <1>1, MoveOn DEF ReferralInv, Holding
  <2>2. update' = [update EXCEPT ![t] = [update[t] EXCEPT !.at = "marking"]]
    BY DEF PayBonus
  <2>3. QED
    BY <2>1, <2>2
<1>6. /\ update'[t] = [at |-> "marking", of |-> u, copy |-> copy]
      /\ \A s \in Updates \ {t} : update'[s] = update[s]
  BY <1>5 DEF ReferralInv, ReferralTypeOK
<1>7. GoesOn(t)
  BY <1>1, <1>6 DEF GoesOn, Holding
<1>8. ReferralTypeOK'
  <2>1. [at |-> "marking", of |-> u, copy |-> copy] \in
          [at : {"loaded", "paying", "marking"}, of : Newcomers, copy : Account]
    BY <1>2
  <2>2. QED
    BY <1>1, <1>4, <1>5, <2>1 DEF ReferralInv, ReferralTypeOK
<1>9. ReferralIsEarned'
  <2>1. ASSUME u \notin overlapped
        PROVE  bonus'[u] <= 1
    BY <1>1, <1>2, <1>3, <1>4, <2>1 DEF Alone
  <2>2. ASSUME NEW v \in Newcomers
        PROVE  /\ bonus'[v] > 0 =>
                    /\ account[v] # NoRow /\ account[v].referred
                    /\ account[v].activated
               /\ account[v] # NoRow /\ account[v].paid => bonus'[v] > 0
               /\ bonus'[v] > 1 => v \in overlapped
    <3>1. CASE v = u
      BY <1>3, <1>4, <2>1, <3>1
    <3>2. CASE v # u
      BY <1>4, <3>2 DEF ReferralInv, ReferralIsEarned
    <3>3. QED
      BY <3>1, <3>2
  <2>3. QED
    BY <1>1, <2>2 DEF ReferralIsEarned
<1>10. Known(t)'
  <2>1. /\ update'[t].at = "marking" /\ update'[t].of = u
        /\ update'[t].copy = copy
    BY <1>6
  <2>2. bonus'[u] > 0
    BY <1>4
  <2>3. QED
    BY <1>1, <1>3, <2>1, <2>2, Zenon DEF Known
<1>11. Alone(t)'
  <2>1. ASSUME u \notin overlapped
        PROVE  ~Unactivated(t, u)
    BY <1>1, <1>2, <1>3, <2>1 DEF Alone
  <2>2. \A v \in Newcomers : Unactivated(t, v)' => Unactivated(t, v)
    BY <1>6 DEF Unactivated
  <2>3. QED
    BY <1>1, <1>2, <1>6, <2>1, <2>2 DEF Alone
<1>12. /\ \A v \in Newcomers \ {u} :
            account'[v] = account[v] /\ bonus'[v] = bonus[v]
       /\ account'[u] # NoRow /\ account'[u].referred = account[u].referred
       /\ account[u].activated => account'[u].activated
       /\ bonus[u] > 0 => bonus'[u] > 0
       /\ ~copy.activated
  BY <1>1, <1>3, <1>4
<1>13. QED
  BY <1>1, <1>7, <1>8, <1>9, <1>10, <1>11, <1>12, WorkStep

LEMMA MarkStep ==
  ASSUME ReferralInv, NEW t \in Updates, MarkPaid(t)
  PROVE  ReferralInv'
<1> DEFINE u == update[t].of
<1>1. /\ update[t].at = "marking" /\ update[t].at \in Holding
      /\ bonus' = bonus /\ overlapped' = overlapped
      /\ update' = [update EXCEPT ![t] = Ready]
  BY DEF MarkPaid, Holding
<1>2. /\ u \in Newcomers /\ account[u] \in Account /\ Known(t)
  BY <1>1, Handled DEF ReferralInv
<1>3. Changed(u, "paid")
  BY MarksRow
<1>4. /\ account'[u] # NoRow /\ account'[u].referred = account[u].referred
      /\ account'[u].activated = account[u].activated
      /\ \A v \in Newcomers \ {u} : account'[v] = account[v]
  BY <1>3, ReferralAssumption DEF Changed
<1>5. /\ update'[t] = Ready
      /\ \A s \in Updates \ {t} : update'[s] = update[s]
  BY <1>1 DEF ReferralInv, ReferralTypeOK
<1>6. GoesOn(t)
  BY <1>1, <1>5 DEF GoesOn
<1>7. ReferralTypeOK'
  BY <1>1, <1>3 DEF Changed, ReferralInv, ReferralTypeOK
<1>8. bonus[u] > 0
  BY <1>1, <1>2 DEF Known
<1>9. ReferralIsEarned'
  <2>1. ASSUME NEW v \in Newcomers
        PROVE  /\ bonus'[v] > 0 =>
                    /\ account'[v] # NoRow /\ account'[v].referred
                    /\ account'[v].activated
               /\ account'[v] # NoRow /\ account'[v].paid => bonus'[v] > 0
               /\ bonus'[v] > 1 => v \in overlapped'
    <3>1. CASE v = u
      BY <1>1, <1>4, <1>8, <3>1 DEF ReferralInv, ReferralIsEarned
    <3>2. CASE v # u
      BY <1>1, <1>4, <3>2 DEF ReferralInv, ReferralIsEarned
    <3>3. QED
      BY <3>1, <3>2
  <2>2. QED
    BY <2>1 DEF ReferralIsEarned
<1>10. Known(t)' /\ Alone(t)'
  BY <1>5 DEF Known, Alone, Ready, Holding
<1>11. QED
  BY <1>1, <1>4, <1>6, <1>7, <1>9, <1>10, WorkStep

LEMMA EndStep ==
  ASSUME ReferralInv, NEW t \in Updates, UpdateEnds(t)
  PROVE  ReferralInv'
<1>1. /\ update' = [update EXCEPT ![t] = Ready]
      /\ UNCHANGED <<account, bonus, overlapped>>
  BY DEF UpdateEnds
<1>2. /\ update'[t] = Ready
      /\ \A s \in Updates \ {t} : update'[s] = update[s]
  BY <1>1 DEF ReferralInv, ReferralTypeOK
<1>3. ReferralTypeOK' /\ ReferralIsEarned'
  BY <1>1 DEF ReferralInv, ReferralTypeOK, ReferralIsEarned
<1>4. \A s \in Updates : Known(s)'
  BY <1>1, <1>2 DEF ReferralInv, Known, Ready, Holding
<1>5. ASSUME NEW s \in Updates
      PROVE  Alone(s)'
  <2>1. CASE s = t
    BY <1>2, <2>1 DEF Alone, Ready, Holding
  <2>2. CASE s # t
    <3>1. Unactivated(s, update[s].of)' => Unactivated(s, update[s].of)
      BY <1>2, <2>2 DEF Unactivated, Ready
    <3>2. QED
      BY <1>1, <1>2, <2>2, <3>1 DEF ReferralInv, Alone
  <2>3. QED
    BY <2>1, <2>2
<1>6. QED
  BY <1>3, <1>4, <1>5 DEF ReferralInv

LEMMA ReferralInductive == ReferralSpec => []ReferralInv
<1>1. ReferralInv /\ [ReferralNext]_referralVars => ReferralInv'
  <2>1. ASSUME ReferralInv, ReferralNext
        PROVE  ReferralInv'
    BY <2>1, ReadStep, CreateStep, ActivateStep, PayStep, MarkStep, EndStep
    DEF ReferralNext
  <2>2. ASSUME ReferralInv, UNCHANGED referralVars
        PROVE  ReferralInv'
    BY <2>2 DEF ReferralInv, ReferralTypeOK, ReferralIsEarned, Known, Alone,
      Unactivated, referralVars
  <2>3. QED
    BY <2>1, <2>2
<1>2. QED
  BY <1>1, ReferralInvInit, PTL DEF ReferralSpec

\* Rows and updates have their types.
THEOREM ReferralTypeCorrect == ReferralSpec => []ReferralTypeOK
<1>1. ReferralInv => ReferralTypeOK
  BY DEF ReferralInv
<1>2. QED
  BY <1>1, ReferralInductive, PTL

\* A referrer's bonus is paid for an activated user who came by a link, is
\* marked only when paid, and paid twice only by updates that overlapped.
THEOREM BonusIsEarned == ReferralSpec => []ReferralIsEarned
<1>1. ReferralInv => ReferralIsEarned
  BY DEF ReferralInv
<1>2. QED
  BY <1>1, ReferralInductive, PTL

-----------------------------------------------------------------------------
(* The daily reward                                                        *)

Day(n) == 1 + n \div 2
\* The days on which an update can be dated.
Earliest(t) == Day(claim[t].since)
Latest(t) == Day(claim[t].since + 1)
Dates(t) ==
  IF claim[t].at = "loaded" THEN Earliest(t) .. Latest(t) ELSE {claim[t].today}

\* The days of a streak were all claimed.
Sound(r) ==
  IF r.last = Never THEN r.streak = 0
  ELSE /\ r.last \in events /\ 1 <= r.streak /\ r.streak <= r.last
       /\ \A n \in Days : r.last - r.streak < n /\ n <= r.last => n \in events

Timely(t) ==
  /\ claim[t].since <= clock /\ clock <= claim[t].since + 1
  /\ Sound(claim[t].copy) /\ claim[t].copy.last <= Earliest(t)
  /\ claim[t].at # "loaded" =>
       Earliest(t) <= claim[t].today /\ claim[t].today <= Today

\* What was written over the row that a claim loaded is of a late day.
Overtaken(mine, newer, latest) ==
  mine = newer \/ (newer.last >= latest - 1 /\ newer.last # mine.last)

\* A claim that would leave the row's streak as it is may do so.
Spares(t) ==
  claim[t].copy.streak = 1 =>
    \A d \in Dates(t) :
      claim[t].copy.last # d - 1 /\ d \notin events =>
        row.streak = 1 \/ (row.streak = 2 /\ d - 1 \in events)

LoyaltyInv ==
  /\ LoyaltyTypeOK /\ Sound(row)
  /\ \A n \in events : n <= Today
  /\ \A t \in Claims : Running(t) =>
       Timely(t) /\ Overtaken(claim[t].copy, row, Latest(t)) /\ Spares(t)
  /\ \A s, t \in Claims : Running(s) /\ Running(t) =>
       \/ Overtaken(claim[s].copy, claim[t].copy, Latest(s))
       \/ Overtaken(claim[t].copy, claim[s].copy, Latest(t))

LEMMA Div == \A n \in Nat :
  /\ Day(n) \in Nat /\ Day(n) >= 1 /\ Day(n) <= Day(n + 1)
  /\ Day(n + 1) <= Day(n) + 1 /\ Day(n + 2) = Day(n) + 1
  BY DEF Day

RunningClaims ==
  [at : {"loaded", "dated", "entered"}, since : Clock, today : Days,
   copy : Checkin]

LEMMA ClaimTypes ==
  ASSUME LoyaltyTypeOK, NEW t \in Claims, Running(t)
  PROVE  claim[t] \in RunningClaims
  BY DEF LoyaltyTypeOK, Running, RunningClaims

\* Two updates at the same time are dated on the same day or on neighbouring
\* ones.
LEMMA Neighbours ==
  ASSUME LoyaltyInv, NEW s \in Claims, NEW t \in Claims, Running(s), Running(t)
  PROVE  /\ Earliest(s) \in Nat /\ Latest(s) \in Nat
         /\ Earliest(s) <= Today /\ Today <= Latest(s)
         /\ Latest(s) <= Earliest(s) + 1
         /\ Earliest(t) >= Latest(s) - 1
<1>1. claim[s].since \in Nat /\ claim[t].since \in Nat /\ clock \in Nat
  BY ClaimTypes, LoyaltyAssumption
  DEF LoyaltyInv, LoyaltyTypeOK, RunningClaims, Clock
<1>2. /\ claim[s].since <= clock /\ clock <= claim[s].since + 1
      /\ claim[t].since <= clock /\ clock <= claim[t].since + 1
  BY DEF LoyaltyInv, Timely
<1>3. Today = Day(clock)
  BY DEF Today, Day
<1>4. clock = claim[s].since \/ clock = claim[s].since + 1
  BY <1>1, <1>2
<1>5. claim[s].since + 1 <= claim[t].since + 2
  BY <1>1, <1>2
<1>6. \A m, n \in Nat : m <= n => Day(m) <= Day(n)
  BY DEF Day
<1>7. Day(claim[s].since + 1) <= Day(claim[t].since + 2)
  BY <1>1, <1>5, <1>6
<1>8. Day(claim[t].since + 2) = Day(claim[t].since) + 1
  BY <1>1, Div
<1>9. QED
  BY <1>1, <1>3, <1>4, <1>7, <1>8, Div DEF Earliest, Latest

LEMMA LoyaltyInvInit == LoyaltyInit => LoyaltyInv
<1> SUFFICES ASSUME LoyaltyInit
             PROVE  LoyaltyInv
  OBVIOUS
<1>1. \A t \in Claims : claim[t] = Waiting /\ ~Running(t)
  BY DEF LoyaltyInit, Running
<1>2. LoyaltyTypeOK
  BY LoyaltyAssumption
  DEF LoyaltyInit, LoyaltyTypeOK, Clock, Checkin, Days, Never
<1>3. Sound(row)
  BY DEF LoyaltyInit, Sound, Never
<1>4. QED
  BY <1>1, <1>2, <1>3 DEF LoyaltyInit, LoyaltyInv, Waiting

\* What a step of an update that writes nothing has to keep.
LEMMA ClaimMoves ==
  ASSUME LoyaltyInv, NEW t \in Claims, UNCHANGED <<clock, row, events>>,
         claim' = [claim EXCEPT ![t] = claim'[t]],
         \/ claim'[t] = Waiting
         \/ /\ Running(t) /\ claim'[t] \in RunningClaims
            /\ claim'[t].since = claim[t].since
            /\ claim'[t].copy = claim[t].copy
            /\ Timely(t)' /\ Spares(t)'
  PROVE  LoyaltyInv'
<1>1. \A s \in Claims \ {t} : claim'[s] = claim[s]
  BY DEF LoyaltyInv, LoyaltyTypeOK
<1>2. LoyaltyTypeOK'
  BY DEF LoyaltyInv, LoyaltyTypeOK, RunningClaims
<1>3. Sound(row)' /\ \A n \in events' : n <= Today'
  BY DEF LoyaltyInv, Sound, Today
<1>4. ASSUME NEW s \in Claims, Running(s)'
      PROVE  /\ Running(s) /\ Timely(s)' /\ Spares(s)'
             /\ Latest(s)' = Latest(s) /\ claim'[s].copy = claim[s].copy
  <2>1. CASE s = t
    BY <1>4, <2>1 DEF Running, Latest
  <2>2. CASE s # t
    <3>1. claim'[s] = claim[s]
      BY <1>1, <2>2
    <3>2. Running(s) /\ Timely(s) /\ Spares(s)
      BY <1>4, <3>1 DEF Running, LoyaltyInv
    <3>3. Timely(s)' /\ Spares(s)' /\ Latest(s)' = Latest(s)
      BY <3>1, <3>2
      DEF Timely, Spares, Latest, Earliest, Dates, Sound, Today
    <3>4. QED
      BY <3>1, <3>2, <3>3
  <2>3. QED
    BY <2>1, <2>2
<1>5. \A s \in Claims : Running(s)' =>
        Timely(s)' /\ Overtaken(claim'[s].copy, row', Latest(s)') /\ Spares(s)'
  BY <1>4 DEF LoyaltyInv
<1>6. \A r, s \in Claims : Running(r)' /\ Running(s)' =>
        \/ Overtaken(claim'[r].copy, claim'[s].copy, Latest(r)')
        \/ Overtaken(claim'[s].copy, claim'[r].copy, Latest(s)')
  BY <1>4 DEF LoyaltyInv
<1>7. QED
  BY <1>2, <1>3, <1>5, <1>6 DEF LoyaltyInv, Overtaken

LEMMA HalfDayStep ==
  ASSUME LoyaltyInv, HalfDay
  PROVE  LoyaltyInv'
<1>1. /\ clock' = clock + 1 /\ clock' \in Clock
      /\ row' = row /\ events' = events /\ claim' = claim
  BY DEF HalfDay
<1>2. clock \in Nat
  BY LoyaltyAssumption DEF LoyaltyInv, LoyaltyTypeOK, Clock
<1>3. Today \in Nat /\ Today' \in Nat /\ Today <= Today'
  BY <1>1, <1>2 DEF Today
<1>4. LoyaltyTypeOK'
  BY <1>1 DEF LoyaltyInv, LoyaltyTypeOK
<1>5. \A n \in events' : n <= Today'
  BY <1>1, <1>3 DEF LoyaltyInv, LoyaltyTypeOK, Days
<1>6. ASSUME NEW t \in Claims, Running(t)
      PROVE  Timely(t)'
  <2>1. claim[t].since = clock
    BY <1>6 DEF HalfDay
  <2>2. claim[t] \in RunningClaims /\ claim[t].today \in Nat
    BY <1>6, ClaimTypes DEF LoyaltyInv, RunningClaims, Days
  <2>3. Timely(t)
    BY <1>6 DEF LoyaltyInv
  <2>4. claim[t].at # "loaded" => claim[t].today <= Today'
    BY <1>3, <2>2, <2>3 DEF Timely
  <2>5. claim[t].since <= clock' /\ clock' <= claim[t].since + 1
    BY <1>1, <1>2, <2>1
  <2>6. QED
    BY <1>1, <2>3, <2>4, <2>5 DEF Timely, Sound, Earliest
<1>7. QED
  BY <1>1, <1>4, <1>5, <1>6
  DEF LoyaltyInv, Running, Sound, Spares, Dates, Earliest, Latest, Overtaken

LEMMA LoadStep ==
  ASSUME LoyaltyInv, NEW t \in Claims, ClaimLoad(t)
  PROVE  LoyaltyInv'
<1> DEFINE new == [at |-> "loaded", since |-> clock, today |-> Today,
                   copy |-> row]
<1>1. /\ claim'[t] = new
      /\ \A s \in Claims \ {t} : claim'[s] = claim[s]
      /\ clock' = clock /\ row' = row /\ events' = events
      /\ claim' = [claim EXCEPT ![t] = new]
  BY DEF ClaimLoad, LoyaltyInv, LoyaltyTypeOK
<1>2. clock \in Nat /\ Today \in Days /\ Today = Day(clock) /\ row \in Checkin
  BY LoyaltyAssumption
  DEF LoyaltyInv, LoyaltyTypeOK, Clock, Today, Days, Day
<1>3. LoyaltyTypeOK'
  <2>1. new \in RunningClaims
    BY <1>2 DEF RunningClaims, LoyaltyInv, LoyaltyTypeOK
  <2>2. QED
    BY <1>1, <2>1 DEF LoyaltyInv, LoyaltyTypeOK, RunningClaims
<1>4. row.last <= Today
  BY <1>2 DEF LoyaltyInv, Sound, Checkin, Days, Never
<1>5. Timely(t)'
  <2>1. Sound(claim[t].copy)'
    BY <1>1 DEF LoyaltyInv, Sound
  <2>2. claim'[t].copy.last <= Earliest(t)'
    BY <1>1, <1>2, <1>4 DEF Earliest
  <2>3. claim'[t].since <= clock' /\ clock' <= claim'[t].since + 1
    BY <1>1, <1>2
  <2>4. QED
    BY <1>1, <2>1, <2>2, <2>3 DEF Timely
<1>6. Spares(t)' /\ Overtaken(claim'[t].copy, row', Latest(t)')
  BY <1>1 DEF Spares, Overtaken
<1>7. ASSUME NEW s \in Claims, s # t, Running(s)'
      PROVE  /\ Running(s) /\ claim'[s] = claim[s]
             /\ Timely(s)' /\ Spares(s)' /\ Latest(s)' = Latest(s)
             /\ Overtaken(claim[s].copy, row, Latest(s))
  <2>1. claim'[s] = claim[s] /\ Running(s)
    BY <1>1, <1>7 DEF Running
  <2>2. Timely(s) /\ Spares(s) /\ Overtaken(claim[s].copy, row, Latest(s))
    BY <2>1 DEF LoyaltyInv
  <2>3. QED
    BY <1>1, <2>1, <2>2
    DEF Timely, Spares, Latest, Earliest, Dates, Sound, Today
<1>8. \A s \in Claims : Running(s)' =>
        Timely(s)' /\ Overtaken(claim'[s].copy, row', Latest(s)') /\ Spares(s)'
  BY <1>1, <1>5, <1>6, <1>7
<1>9. ASSUME NEW r \in Claims, NEW s \in Claims, Running(r)', Running(s)'
      PROVE  \/ Overtaken(claim'[r].copy, claim'[s].copy, Latest(r)')
             \/ Overtaken(claim'[s].copy, claim'[r].copy, Latest(s)')
  <2>1. CASE r = t
    BY <1>1, <1>7, <1>9, <2>1 DEF Overtaken
  <2>2. CASE s = t
    BY <1>1, <1>7, <1>9, <2>2 DEF Overtaken
  <2>3. CASE r # t /\ s # t
    BY <1>7, <1>9, <2>3 DEF LoyaltyInv
  <2>4. QED
    BY <2>1, <2>2, <2>3
<1>10. Sound(row)' /\ \A n \in events' : n <= Today'
  BY <1>1 DEF LoyaltyInv, Sound, Today
<1>11. QED
  BY <1>3, <1>8, <1>9, <1>10 DEF LoyaltyInv, Overtaken

LEMMA DateStep ==
  ASSUME LoyaltyInv, NEW t \in Claims, ClaimDate(t)
  PROVE  LoyaltyInv'
<1>1. /\ claim[t].at = "loaded" /\ Running(t)
      /\ UNCHANGED <<clock, row, events>>
  BY DEF ClaimDate, Running, Waiting
<1>2. claim[t] \in RunningClaims /\ Timely(t) /\ Spares(t)
  BY <1>1, ClaimTypes DEF LoyaltyInv
<1>3. Today \in Days /\ Today \in Earliest(t) .. Latest(t)
  <2>1. Today \in Days
    BY LoyaltyAssumption DEF LoyaltyInv, LoyaltyTypeOK, Clock, Today, Days
  <2>2. QED
    BY <1>1, <2>1, Neighbours DEF Days
<1>4. /\ claim'[t] \in RunningClaims /\ claim'[t].at = "dated"
      /\ claim'[t].today = Today /\ claim'[t].since = claim[t].since
      /\ claim'[t].copy = claim[t].copy
      /\ claim' = [claim EXCEPT ![t] = claim'[t]]
  BY <1>2, <1>3 DEF ClaimDate, RunningClaims, LoyaltyInv, LoyaltyTypeOK
<1>5. Timely(t)'
  <2>1. Earliest(t) <= Today /\ Earliest(t) \in Nat /\ Today \in Nat
    BY <1>1, <1>3, Neighbours DEF Days
  <2>2. QED
    BY <1>1, <1>2, <1>4, <2>1 DEF Timely, Earliest, Sound, Today
<1>6. Spares(t)'
  BY <1>1, <1>2, <1>3, <1>4 DEF Spares, Dates
<1>7. QED
  BY <1>1, <1>4, <1>5, <1>6, ClaimMoves

LEMMA EnterStep ==
  ASSUME LoyaltyInv, NEW t \in Claims, ClaimEnter(t)
  PROVE  LoyaltyInv'
<1>1. /\ claim[t].at = "dated" /\ Running(t)
      /\ UNCHANGED <<clock, row, events>>
  BY DEF ClaimEnter, Running, Waiting
<1>2. claim[t] \in RunningClaims /\ Timely(t) /\ Spares(t)
  BY <1>1, ClaimTypes DEF LoyaltyInv
<1>3. claim' = [claim EXCEPT ![t] = claim'[t]]
  BY DEF ClaimEnter, LoyaltyInv, LoyaltyTypeOK
<1>4. CASE claim[t].today \in events
  <2>1. claim'[t] = Waiting
    BY <1>4 DEF ClaimEnter, LoyaltyInv, LoyaltyTypeOK
  <2>2. QED
    BY <1>1, <1>3, <2>1, ClaimMoves
<1>5. CASE claim[t].today \notin events
  <2>1. claim'[t] = [claim[t] EXCEPT !.at = "entered"]
    BY <1>5 DEF ClaimEnter, LoyaltyInv, LoyaltyTypeOK
  <2>2. /\ claim'[t] \in RunningClaims /\ claim'[t].at = "entered"
        /\ claim'[t].today = claim[t].today
        /\ claim'[t].since = claim[t].since /\ claim'[t].copy = claim[t].copy
    BY <1>2, <2>1 DEF RunningClaims
  <2>3. Timely(t)'
    BY <1>1, <1>2, <1>5, <2>2 DEF Timely, Earliest, Sound, Today
  <2>4. Spares(t)'
    BY <1>1, <1>2, <2>2 DEF Spares, Dates
  <2>5. QED
    BY <1>1, <1>3, <2>2, <2>3, <2>4, ClaimMoves
<1>6. QED
  BY <1>4, <1>5

LEMMA FailStep ==
  ASSUME LoyaltyInv, NEW t \in Claims, ClaimFails(t)
  PROVE  LoyaltyInv'
<1>1. /\ UNCHANGED <<clock, row, events>> /\ claim'[t] = Waiting
      /\ claim' = [claim EXCEPT ![t] = claim'[t]]
  BY DEF ClaimFails, LoyaltyInv, LoyaltyTypeOK
<1>2. QED
  BY <1>1, ClaimMoves

\* The row after the claim of day e from the copy b.
Written(b, e) ==
  /\ row'.last = e
  /\ \/ b.last = e - 1 /\ b.last # Never /\ row'.streak = b.streak + 1
     \/ row'.streak = 1
     \/ row'.streak = 2 /\ e - 1 \in events

LEMMA CommitWrites ==
  ASSUME LoyaltyInv, NEW t \in Claims, ClaimCommit(t)
  PROVE  LET b == claim[t].copy
             e == claim[t].today
         IN  /\ Running(t) /\ b \in Checkin /\ e \in Days /\ e \notin events
             /\ Earliest(t) <= e /\ e <= Today /\ Sound(b)
             /\ Written(b, e)
<1> DEFINE b == claim[t].copy
           e == claim[t].today
<1>1. claim[t].at = "entered" /\ Running(t) /\ Timely(t) /\ Spares(t)
  BY DEF ClaimCommit, Running, Waiting, LoyaltyInv
<1>2. b \in Checkin /\ e \in Days /\ row \in Checkin
  BY <1>1, ClaimTypes DEF RunningClaims, LoyaltyInv, LoyaltyTypeOK
<1>3. Earliest(t) <= e /\ e <= Today /\ Sound(b) /\ e \notin events
  BY <1>1 DEF Timely, ClaimCommit
<1>4. b.last # e
  BY <1>2, <1>3 DEF Sound, Days, Never
<1>5. /\ row'.last = e
      /\ row'.streak =
           IF Streak(b, e) = b.streak THEN row.streak ELSE Streak(b, e)
  BY <1>4 DEF ClaimCommit
<1>6. Written(b, e)
  <2>1. CASE b.last = e - 1 /\ b.last # Never
    <3>1. Streak(b, e) = b.streak + 1 /\ b.streak \in Nat
      BY <1>2, <2>1 DEF Streak, Checkin
    <3>2. QED
      BY <1>5, <2>1, <3>1 DEF Written
  <2>2. CASE ~(b.last = e - 1 /\ b.last # Never)
    <3>1. Streak(b, e) = 1
      BY <2>2 DEF Streak
    <3>2. CASE b.streak # 1
      BY <1>5, <3>1, <3>2 DEF Written
    <3>3. CASE b.streak = 1
      <4>1. b.last # Never
        BY <1>3, <3>3 DEF Sound
      <4>2. b.last # e - 1
        BY <2>2, <4>1
      <4>3. e \in Dates(t)
        BY <1>1 DEF Dates
      <4>4. row.streak = 1 \/ (row.streak = 2 /\ e - 1 \in events)
        BY <1>1, <1>3, <3>3, <4>2, <4>3 DEF Spares
      <4>5. QED
        BY <1>5, <3>1, <3>3, <4>4 DEF Written
    <3>4. QED
      BY <3>2, <3>3
  <2>3. QED
    BY <2>1, <2>2
<1>7. QED
  BY <1>1, <1>2, <1>3, <1>6

LEMMA CommitIsSound ==
  ASSUME LoyaltyInv, NEW t \in Claims, ClaimCommit(t)
  PROVE  row' \in Checkin /\ Sound(row)'
<1> DEFINE b == claim[t].copy
           e == claim[t].today
<1>1. /\ b \in Checkin /\ e \in Days /\ Sound(b) /\ Written(b, e)
      /\ events' = events \cup {e} /\ events \subseteq Days
  BY CommitWrites DEF ClaimCommit, LoyaltyInv, LoyaltyTypeOK
<1>2. b.last \in Nat /\ b.streak \in Nat /\ e \in Nat /\ e >= 1 /\ e <= MaxDay
  BY <1>1, LoyaltyAssumption DEF Checkin, Days, Never
<1>3. /\ row'.last = e /\ row'.streak \in Nat
      /\ 1 <= row'.streak /\ row'.streak <= e
  BY <1>1, <1>2 DEF Written, Sound, Days
<1>4. ASSUME NEW n \in Days, e - row'.streak < n, n <= e
      PROVE  n \in events'
  <2>1. CASE n = e
    BY <1>1, <2>1
  <2>2. CASE n # e
    <3>1. n <= e - 1 /\ n \in Nat
      BY <1>2, <1>4, <2>2 DEF Days
    <3>2. CASE b.last = e - 1 /\ b.last # Never /\ row'.streak = b.streak + 1
      BY <1>1, <1>2, <1>4, <3>1, <3>2 DEF Sound
    <3>3. CASE row'.streak = 1
      BY <1>2, <1>4, <3>1, <3>3
    <3>4. CASE row'.streak = 2 /\ e - 1 \in events
      <4>1. n = e - 1
        BY <1>2, <1>4, <3>1, <3>4
      <4>2. QED
        BY <1>1, <3>4, <4>1
    <3>5. QED
      BY <1>1, <3>2, <3>3, <3>4 DEF Written
  <2>3. QED
    BY <2>1, <2>2
<1>5. Sound(row)'
  BY <1>1, <1>2, <1>3, <1>4 DEF Sound, Never
<1>6. row' \in Checkin
  <2>1. row' = [streak |-> row'.streak, last |-> row'.last]
    BY DEF ClaimCommit
  <2>2. row'.streak \in 0 .. MaxDay /\ row'.last \in Days \cup {Never}
    BY <1>1, <1>2, <1>3, LoyaltyAssumption
  <2>3. QED
    BY <2>1, <2>2 DEF Checkin
<1>7. QED
  BY <1>5, <1>6

\* Another update's claim still finds a row that it may write over.
LEMMA CommitSpares ==
  ASSUME LoyaltyInv, NEW t \in Claims, ClaimCommit(t),
         NEW s \in Claims, s # t, Running(s)
  PROVE  Overtaken(claim[s].copy, row', Latest(s)) /\ Spares(s)'
<1> DEFINE b == claim[t].copy
           e == claim[t].today
           a == claim[s].copy
<1>1. /\ Running(t) /\ b \in Checkin /\ e \in Days /\ e \notin events
      /\ Earliest(t) <= e /\ e <= Today /\ Sound(b) /\ Written(b, e)
  BY CommitWrites
<1>2. events' = events \cup {e} /\ claim'[s] = claim[s]
  BY DEF ClaimCommit, LoyaltyInv, LoyaltyTypeOK
<1>3. /\ Timely(s) /\ Spares(s) /\ claim[s] \in RunningClaims /\ a \in Checkin
      /\ Overtaken(a, b, Latest(s)) \/ Overtaken(b, a, Latest(t))
  BY <1>1, ClaimTypes DEF LoyaltyInv, RunningClaims
<1>4. Sound(a) /\ a.last <= Earliest(s)
  BY <1>3 DEF Timely
<1>5. /\ Earliest(s) \in Nat /\ Latest(s) \in Nat /\ Latest(t) \in Nat
      /\ Earliest(t) \in Nat /\ Today \in Nat /\ e \in Nat /\ e >= 1
      /\ a.last \in Nat /\ b.last \in Nat /\ a.streak \in Nat
      /\ b.streak \in Nat
  <2>1. Today \in Nat
    BY LoyaltyAssumption DEF LoyaltyInv, LoyaltyTypeOK, Clock, Today
  <2>2. QED
    BY <1>1, <1>3, <2>1, Neighbours DEF Checkin, Days, Never
<1>6. /\ Today <= Latest(s) /\ Latest(s) <= Earliest(s) + 1
      /\ Today <= Latest(t) /\ Earliest(t) >= Latest(s) - 1
      /\ Earliest(s) <= Today
  BY <1>1, Neighbours
<1>7. Overtaken(a, row', Latest(s))
  <2>1. e >= Latest(s) - 1
    BY <1>1, <1>5, <1>6
  <2>2. a.last # e
    BY <1>1, <1>4, <1>5 DEF Sound, Never
  <2>3. QED
    BY <1>1, <2>1, <2>2 DEF Written, Overtaken
<1>8. ASSUME a.streak = 1, NEW d \in Dates(s), a.last # d - 1, d \notin events'
      PROVE  row'.streak = 1 \/ (row'.streak = 2 /\ d - 1 \in events')
  <2>1. d \in Nat /\ Earliest(s) <= d /\ d <= Latest(s)
    <3>1. CASE claim[s].at = "loaded"
      BY <1>5, <3>1 DEF Dates
    <3>2. CASE claim[s].at # "loaded"
      BY <1>3, <1>5, <1>6, <3>2 DEF Dates, Timely, RunningClaims, Days
    <3>3. QED
      BY <3>1, <3>2
  <2>2. d # e /\ d \notin events
    BY <1>2, <1>8
  <2>3. e = d - 1 \/ e = d + 1
    BY <1>1, <1>5, <1>6, <2>1, <2>2
  <2>4. CASE b.last = e - 1 /\ b.last # Never /\ row'.streak = b.streak + 1
    <3>1. e - 1 \in events
      BY <1>1, <2>4 DEF Sound
    <3>2. e = d - 1 /\ b.last = d - 2
      BY <1>5, <2>1, <2>2, <2>3, <2>4, <3>1
    <3>3. b.streak = 1
      <4>1. CASE a = b
        BY <1>8, <4>1
      <4>2. CASE b.last >= Latest(s) - 1
        BY <1>5, <2>1, <3>2, <4>2
      <4>3. CASE a.last >= Latest(t) - 1 /\ a.last # b.last
        <5>1. a.last >= d
          BY <1>1, <1>5, <1>6, <1>8, <2>1, <3>2, <4>3
        <5>2. a.last = d
          BY <1>4, <1>5, <2>1, <5>1
        <5>3. a.last \in events
          BY <1>1, <1>4, <1>5, <2>1, <3>2, <5>2 DEF Sound, Never
        <5>4. QED
          BY <2>2, <5>2, <5>3
      <4>4. QED
        BY <1>3, <4>1, <4>2, <4>3 DEF Overtaken
    <3>4. QED
      BY <1>2, <2>4, <3>2, <3>3
  <2>5. CASE row'.streak = 2 /\ e - 1 \in events
    <3>1. e = d - 1
      BY <1>5, <2>1, <2>2, <2>3, <2>5
    <3>2. QED
      BY <1>2, <2>5, <3>1
  <2>6. QED
    BY <1>1, <2>4, <2>5 DEF Written
<1>9. Spares(s)'
  BY <1>2, <1>8 DEF Spares, Dates, Earliest, Latest
<1>10. QED
  BY <1>7, <1>9

LEMMA CommitStep ==
  ASSUME LoyaltyInv, NEW t \in Claims, ClaimCommit(t)
  PROVE  LoyaltyInv'
<1> DEFINE e == claim[t].today
<1>1. /\ claim[t].at = "entered" /\ clock' = clock
      /\ events' = events \cup {e} /\ claim'[t] = Waiting
      /\ \A s \in Claims \ {t} : claim'[s] = claim[s]
      /\ claim' = [claim EXCEPT ![t] = Waiting]
  BY DEF ClaimCommit, LoyaltyInv, LoyaltyTypeOK
<1>2. row' \in Checkin /\ Sound(row)'
  BY CommitIsSound
<1>3. e \in Days /\ e <= Today
  BY CommitWrites
<1>4. LoyaltyTypeOK'
  BY <1>1, <1>2, <1>3 DEF LoyaltyInv, LoyaltyTypeOK
<1>5. \A n \in events' : n <= Today'
  BY <1>1, <1>3 DEF LoyaltyInv, Today
<1>6. ASSUME NEW s \in Claims, Running(s)'
      PROVE  /\ Running(s) /\ claim'[s] = claim[s] /\ s # t
             /\ Timely(s)' /\ Spares(s)' /\ Latest(s)' = Latest(s)
             /\ Overtaken(claim[s].copy, row', Latest(s))
  <2>1. s # t /\ claim'[s] = claim[s] /\ Running(s)
    BY <1>1, <1>6 DEF Running
  <2>2. Timely(s)'
    <3>1. Timely(s)
      BY <2>1 DEF LoyaltyInv
    <3>2. Sound(claim[s].copy)'
      BY <1>1, <2>1, <3>1 DEF Timely, Sound
    <3>3. QED
      BY <1>1, <2>1, <3>1, <3>2 DEF Timely, Earliest, Today
  <2>3. QED
    BY <2>1, <2>2, CommitSpares DEF Latest
<1>7. \A r, s \in Claims : Running(r)' /\ Running(s)' =>
        \/ Overtaken(claim'[r].copy, claim'[s].copy, Latest(r)')
        \/ Overtaken(claim'[s].copy, claim'[r].copy, Latest(s)')
  BY <1>6 DEF LoyaltyInv
<1>8. QED
  BY <1>2, <1>4, <1>5, <1>6, <1>7 DEF LoyaltyInv, Overtaken

LEMMA LoyaltyInductive == LoyaltySpec => []LoyaltyInv
<1>1. LoyaltyInv /\ [LoyaltyNext]_loyaltyVars => LoyaltyInv'
  <2>1. ASSUME LoyaltyInv, LoyaltyNext
        PROVE  LoyaltyInv'
    BY <2>1, HalfDayStep, LoadStep, DateStep, EnterStep, CommitStep, FailStep
    DEF LoyaltyNext
  <2>2. ASSUME LoyaltyInv, UNCHANGED loyaltyVars
        PROVE  LoyaltyInv'
    BY <2>2 DEF LoyaltyInv, LoyaltyTypeOK, Sound, Timely, Spares, Dates,
      Earliest, Latest, Today, Running, Overtaken, loyaltyVars
  <2>3. QED
    BY <2>1, <2>2
<1>2. QED
  BY <1>1, LoyaltyInvInit, PTL DEF LoyaltySpec

\* The clock, the row, the events and the updates have their types; a streak
\* stays within the days there have been.
THEOREM LoyaltyTypeCorrect == LoyaltySpec => []LoyaltyTypeOK
<1>1. LoyaltyInv => LoyaltyTypeOK
  BY DEF LoyaltyInv
<1>2. QED
  BY <1>1, LoyaltyInductive, PTL

\* A streak is as many claims as it says, for any number of updates of the
\* user and any number of days.
THEOREM StreaksAreEarned == LoyaltySpec => []StreakIsEarned
<1>1. LoyaltyInv => StreakIsEarned
  <2>1. ASSUME LoyaltyInv, row.last # Never
        PROVE  /\ row.streak >= 1
               /\ (row.last - row.streak + 1) .. row.last \subseteq events
    <3>1. Sound(row) /\ row.last \in Days /\ row.streak \in Nat
      BY <2>1 DEF LoyaltyInv, LoyaltyTypeOK, Checkin
    <3>2. ASSUME NEW n \in (row.last - row.streak + 1) .. row.last
          PROVE  n \in events
      <4>1. n \in Days /\ row.last - row.streak < n /\ n <= row.last
        BY <2>1, <3>1, <3>2, LoyaltyAssumption DEF Sound, Days
      <4>2. QED
        BY <2>1, <3>1, <4>1 DEF Sound
    <3>3. QED
      BY <2>1, <3>1, <3>2 DEF Sound
  <2>2. QED
    BY <2>1 DEF StreakIsEarned
<1>2. QED
  BY <1>1, LoyaltyInductive, PTL

-----------------------------------------------------------------------------
(* The services together                                                   *)

\* A step of the composition is a step of one part and leaves the others.
LEMMA PartSteps ==
  [Next]_vars => /\ [CatalogueNext]_catalogueVars /\ [WatchesNext]_watchVars
                 /\ [GiftNext]_giftVars /\ [LoyaltyNext]_loyaltyVars
                 /\ [ReferralNext]_referralVars
<1>1. ASSUME UNCHANGED vars
      PROVE  UNCHANGED <<catalogueVars, watchVars, giftVars, loyaltyVars,
                         referralVars>>
  BY <1>1 DEF vars
<1>2. ASSUME Next
      PROVE  /\ CatalogueNext \/ UNCHANGED catalogueVars
             /\ WatchesNext \/ UNCHANGED watchVars
             /\ GiftNext \/ UNCHANGED giftVars
             /\ LoyaltyNext \/ UNCHANGED loyaltyVars
             /\ ReferralNext \/ UNCHANGED referralVars
  BY <1>2
  DEF Next, CatalogueStep, WatchesStep, OnlyWatches, GiftStep, LoyaltyStep,
    ReferralStep
<1>3. QED
  BY <1>1, <1>2

\* The safety of each part is that of its own specification.
THEOREM ServicesImplementTheirParts ==
  Spec => /\ CatalogueSpec /\ GiftSpec /\ LoyaltySpec /\ ReferralSpec
          /\ WatchesInit /\ [][WatchesNext]_watchVars
<1>1. Init => /\ CatalogueInit /\ GiftInit /\ LoyaltyInit /\ ReferralInit
              /\ WatchesInit
  BY DEF Init
<1>2. QED
  BY <1>1, PartSteps, PTL
  DEF Spec, CatalogueSpec, GiftSpec, LoyaltySpec, ReferralSpec

\* Every row, copy and history of the five parts has its type.
THEOREM ServicesTypeCorrect == Spec => []ServicesTypeOK
<1>1. WatchesInit /\ [][WatchesNext]_watchVars => []WatchesTypeOK
  <2>1. WatchesInv => WatchesTypeOK
    BY DEF WatchesInv
  <2>2. QED
    BY <2>1, WatchesInvInit, WatchesInvNext, PTL
<1>2. CatalogueTypeOK /\ WatchesTypeOK /\ GiftTypeOK /\ LoyaltyTypeOK
        /\ ReferralTypeOK => ServicesTypeOK
  BY DEF ServicesTypeOK
<1>3. QED
  BY <1>1, <1>2, ServicesImplementTheirParts, CatalogueTypeCorrect,
    GiftTypeCorrect, LoyaltyTypeCorrect, ReferralTypeCorrect, PTL

\* What is proved of each part holds of the five together: the invariants that
\* TLC checks in the composition are theorems of it.
THEOREM ServicesAreSound ==
  Spec => [](/\ DelistedIsPaused /\ RowsHaveTheirParents /\ SeenIsTold
             /\ GiftHonoured /\ StreakIsEarned /\ ReferralIsEarned)
<1>1. WatchesInit /\ [][WatchesNext]_watchVars => []SeenIsTold
  <2>1. WatchesInv => SeenIsTold
    BY DEF WatchesInv
  <2>2. QED
    BY <2>1, WatchesInvInit, WatchesInvNext, PTL
<1>2. QED
  BY <1>1, ServicesImplementTheirParts, WithdrawnIsOffSale, NothingDangles,
    CodesAreHonoured, StreaksAreEarned, BonusIsEarned, PTL
=============================================================================
