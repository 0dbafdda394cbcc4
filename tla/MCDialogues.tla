---------------------------- MODULE MCDialogues ----------------------------
(* Instances of Dialogues for TLC: the bot's handlers, one dialogue at a   *)
(* time or the dialogues that share the names of their answers.            *)
EXTENDS Dialogues, DialogueHandlers

\* What every way to a state leaves in the data: all answers, less, round
\* after round, what a handler that sets the state does not leave.
Leaves(h, k, asked) ==
  \/ k \in Stored(h) \cup h.needs \cup (h.uses \ h.keeps)
  \/ h.on # "menu" /\ ~h.wipes /\ <<h.at, k>> \in asked
Round(asked) ==
  {p \in asked :
     \A h \in AllHandlers : h.next = p[1] => Leaves(h, p[2], asked)}
Rounds == 7  \* with fewer, AskedAssumption is false
AskedAfter[n \in 0 .. Rounds] ==
  IF n = 0 THEN States \X Keys
           ELSE UNION {Round(asked) : asked \in {AskedAfter[n - 1]}}
AskedBefore == AskedAfter[Rounds]

AllDialogues == {h.of : h \in AllHandlers} \ {"any"}
AloneOneAtATime ==
  {[of |-> {d}, width |-> 1, epochs |-> 4] : d \in AllDialogues}
SharedNames ==
  {{"category", "subcategory"}, {"category", "promotion"},
   {"promotion", "purchase"}, {"shamcash", "usdt"},
   {"shamcash", "gift code"}, {"coupon", "gift code"}, {"country", "coupon"}}
Together == {[of |-> ds, width |-> 1, epochs |-> 4] : ds \in SharedNames}
AllScenes == AloneOneAtATime \cup Together

Purchases == {[of |-> {"purchase"}, width |-> 1, epochs |-> 4]}
Providers == {[of |-> {"provider"}, width |-> 1, epochs |-> 4]}
PurchasesTwoInFlight == {[of |-> {"purchase"}, width |-> 2, epochs |-> 2]}
=============================================================================
