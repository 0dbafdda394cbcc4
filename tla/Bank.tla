-------------------------------- MODULE Bank --------------------------------
(***************************************************************************)
(* What BalanceService promises its callers: accounts that never go below  *)
(* zero and a ledger (models.py:7, "a complete ledger of every balance     *)
(* movement") in which every movement is an entry stating the balance it   *)
(* left behind, posted together with the change of the account, both sides *)
(* of a transfer at once.  A payment reference is posted once.             *)
(*                                                                         *)
(* It does not promise that a movement starts from the current balance:    *)
(* tasks compute from copies, so it starts from SOME balance the account   *)
(* has had, never from an invented one.                                    *)
(***************************************************************************)
EXTENDS Integers, Sequences

CONSTANTS Users, Amounts, Refs, Rels,
          NoRef, NoRel   \* a movement without an external / internal origin

VARIABLES accounts,  \* user -> balance
          entries    \* the ledger, oldest entry first

vars == <<accounts, entries>>

Init == accounts = [u \in Users |-> 0] /\ entries = <<>>

\* The balances an account has had.
Known(u) == {0} \cup {entries[i].after :
                        i \in {j \in 1 .. Len(entries) : entries[j].user = u}}

\* The entry that moves `a' to (a < 0: from) the account of u, from balance b.
Entry(kind, u, b, a, ref, rel) ==
  [kind |-> kind, user |-> u, amount |-> a, after |-> b + a,
   ref |-> ref, rel |-> rel]

Posted(ref) ==
  ref # NoRef /\ \E i \in 1 .. Len(entries) : entries[i].ref = ref

Deposit(u, a, ref, rel) == \E b \in Known(u) :
  /\ ~Posted(ref)
  /\ accounts' = [accounts EXCEPT ![u] = b + a]
  /\ entries' = Append(entries, Entry("credit", u, b, a, ref, rel))

Withdraw(u, a, kind) == \E b \in Known(u) :
  /\ b >= a
  /\ accounts' = [accounts EXCEPT ![u] = b - a]
  /\ entries' = Append(entries, Entry(kind, u, b, -a, NoRef, NoRel))

Move(u, v, a) == \E b \in Known(u), d \in Known(v) :
  /\ u # v
  /\ b >= a
  /\ accounts' = [accounts EXCEPT ![u] = b - a, ![v] = d + a]
  /\ entries' = entries \o <<Entry("out", u, b, -a, NoRef, NoRel),
                             Entry("in", v, d, a, NoRef, NoRel)>>

Next ==
  /\ entries' # entries   \* no movement without an entry
  /\ \E u \in Users, a \in Amounts :
       \/ \E ref \in Refs \cup {NoRef}, rel \in Rels \cup {NoRel} :
            Deposit(u, a, ref, rel)
       \/ \E kind \in {"debit", "purchase"} : Withdraw(u, a, kind)
       \/ \E v \in Users : Move(u, v, a)

Spec == Init /\ [][Next]_vars
=============================================================================
