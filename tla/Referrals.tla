----------------------------- MODULE Referrals -----------------------------
(***************************************************************************)
(* The first steps of a user in the bot: the row made by UserMiddleware    *)
(* with or without a referrer, the activation by /start or the button      *)
(* check_subscription once the user follows the channels, and the bonus of *)
(* the referrer (handlers/start.py).  Updates overlap, each with the copy  *)
(* of the row it loaded, and may die between any two commits.              *)
(***************************************************************************)
EXTENDS Naturals

CONSTANTS Newcomers,  \* users
          Updates,    \* updates of these users in progress at the same time
          NoRow

Account == [referred : BOOLEAN, activated : BOOLEAN, paid : BOOLEAN]

ASSUME ReferralAssumption == NoRow \notin Account

Ready == [at |-> "none"]

VARIABLES account,    \* the users' rows: referrer_id is set, is_activated,
                      \* referral_bonus_paid
          bonus,      \* bonuses credited for a user
          update,     \* how far each update is
          overlapped  \* history: users with two updates at the same time
                      \* that both loaded an account not activated

referralVars == <<account, bonus, update, overlapped>>

ReferralTypeOK ==
  /\ account \in [Newcomers -> Account \cup {NoRow}]
  /\ bonus \in [Newcomers -> Nat]
  /\ update \in [Updates ->
       {Ready}
         \cup [at : {"creating"}, of : Newcomers, link : BOOLEAN]
         \cup [at : {"loaded", "paying", "marking"}, of : Newcomers,
               copy : Account]]
  /\ overlapped \subseteq Newcomers

ReferralInit ==
  /\ account = [u \in Newcomers |-> NoRow]
  /\ bonus = [u \in Newcomers |-> 0]
  /\ update = [t \in Updates |-> Ready]
  /\ overlapped = {}

Handling(u, copy) == [at |-> "loaded", of |-> u, copy |-> copy]

\* Another update of the user has loaded an account that is not activated.
Unactivated(t, u) ==
  \E s \in Updates \ {t} :
    /\ update[s].at \in {"loaded", "paying", "marking"}
    /\ update[s].of = u /\ ~update[s].copy.activated

\* UserMiddleware: the row is loaded; there may be none, and the message may
\* be /start with the link of another user.
UserRead(t, u) ==
  /\ update[t] = Ready
  /\ IF account[u] = NoRow
       THEN /\ \E link \in BOOLEAN :
                 update' = [update EXCEPT ![t] =
                   [at |-> "creating", of |-> u, link |-> link]]
            /\ UNCHANGED overlapped
       ELSE /\ update' = [update EXCEPT ![t] = Handling(u, account[u])]
            /\ overlapped' =
                 IF ~account[u].activated /\ Unactivated(t, u)
                   THEN overlapped \cup {u} ELSE overlapped
  /\ UNCHANGED <<account, bonus>>

\* telegram_id is unique: the second of two first updates raises.
UserCreate(t) ==
  LET u == update[t].of
      new == [referred |-> update[t].link, activated |-> FALSE,
              paid |-> FALSE]
  IN /\ update[t].at = "creating"
     /\ IF account[u] = NoRow
          THEN /\ account' = [account EXCEPT ![u] = new]
               /\ update' = [update EXCEPT ![t] = Handling(u, new)]
          ELSE /\ update' = [update EXCEPT ![t] = Ready]
               /\ UNCHANGED account
     /\ UNCHANGED <<bonus, overlapped>>

\* An account is activated once, and the bonus follows.  Mutant: as long as
\* the bonus is not marked as paid.
DueUntilPaid(copy) == ~copy.paid
Due(copy) == ~copy.activated

\* cmd_start, check_subscription_callback: the channels are followed.
Activate(t) ==
  LET u == update[t].of
      copy == update[t].copy
  IN /\ update[t].at = "loaded" /\ Due(copy)
     /\ account' = [account EXCEPT ![u].activated = TRUE]
     /\ update' = [update EXCEPT ![t] =
          IF copy.referred /\ ~copy.paid THEN [@ EXCEPT !.at = "paying"]
          ELSE Ready]
     /\ UNCHANGED <<bonus, overlapped>>

\* _try_pay_referral_bonus: add_balance commits the credit, which names no
\* related record.
PayBonus(t) ==
  /\ update[t].at = "paying"
  /\ bonus' = [bonus EXCEPT ![update[t].of] = @ + 1]
  /\ update' = [update EXCEPT ![t].at = "marking"]
  /\ UNCHANGED <<account, overlapped>>

\* referral_bonus_paid, with a commit of its own.
MarkPaid(t) ==
  /\ update[t].at = "marking"
  /\ account' = [account EXCEPT ![update[t].of].paid = TRUE]
  /\ update' = [update EXCEPT ![t] = Ready]
  /\ UNCHANGED <<bonus, overlapped>>

\* The update was another one, the channels are not followed, no bonus is
\* set, the database refuses, or the process dies.
UpdateEnds(t) ==
  /\ update[t] # Ready
  /\ update' = [update EXCEPT ![t] = Ready]
  /\ UNCHANGED <<account, bonus, overlapped>>

ReferralNext ==
  \E t \in Updates :
    \/ UserCreate(t) \/ Activate(t) \/ PayBonus(t) \/ MarkPaid(t)
    \/ UpdateEnds(t)
    \/ \E u \in Newcomers : UserRead(t, u)

ReferralSpec == ReferralInit /\ [][ReferralNext]_referralVars

-----------------------------------------------------------------------------
\* A bonus is paid only for a user who came by a link and was activated ("for
\* every person who joins and activates the account",
\* handlers/referral.py:52), it is marked only when it was paid, and it is
\* paid a second time only where two updates had both loaded the account
\* before its activation: a crash between the credit and the mark never
\* makes a later update pay again.
ReferralIsEarned ==
  \A u \in Newcomers :
    /\ bonus[u] > 0 =>
         account[u] # NoRow /\ account[u].referred /\ account[u].activated
    /\ account[u] # NoRow /\ account[u].paid => bonus[u] > 0
    /\ bonus[u] > 1 => u \in overlapped
=============================================================================
