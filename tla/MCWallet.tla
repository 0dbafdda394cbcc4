------------------------------ MODULE MCWallet ------------------------------
(* Instances of Wallet for TLC: the tasks, their processes and their calls. *)
EXTENDS Wallet

CONSTANTS t1, t2, t3,      \* tasks
          ann, bob,              \* users
          charge, deposit, refund \* origins of credits

TwoProcesses == [t \in Tasks |-> IF t = t3 THEN "other" ELSE "bot"]
OneProcess == [t \in Tasks |-> "bot"]

\* One payment reported to two processes (balance_service.py:132, "a second
\* bot instance may have inserted the same external payment reference"), once
\* with the wrong user's data; the refund of one order, which only the bot's
\* tasks give, tried by a job and by an update; and a transfer.
Paid == Credit(ann, 2, charge, deposit)
Refund == Credit(bob, 1, NoRef, refund)
SharedCalls ==
  [t \in Tasks |->
    CASE t = t1 -> {Paid, Refund}
      [] t = t2 -> {Credit(bob, 2, charge, deposit), Refund, Transfer(bob, ann, 1)}
      [] t = t3 -> {Paid, Debit(ann, 2, "purchase")}]

\* Two updates of one process.
UpdateCalls ==
  [t \in Tasks |->
    CASE t = t1 -> {Credit(ann, 2, charge, deposit), Transfer(ann, bob, 1),
                      Debit(bob, 1, "purchase")}
      [] t = t2 -> {Credit(ann, 2, charge, deposit), Debit(ann, 1, "purchase"),
                      Transfer(bob, ann, 1)}]

\* Two purchases of one package of Telegram stars: different charges, and the
\* package's id as the related record (stars_service.py:135-139).
CONSTANT charge2
StarsCalls ==
  [t \in Tasks |-> {Credit(ann, 2, charge, deposit),
                    Credit(ann, 2, charge2, deposit)}]
=============================================================================
