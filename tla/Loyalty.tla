------------------------------ MODULE Loyalty ------------------------------
(***************************************************************************)
(* The daily reward of one user (LoyaltyService.claim_daily): once a day,  *)
(* growing with the days in a row.  The user's row was loaded by the       *)
(* middleware before the call, the date is taken before the lock, and an   *)
(* UPDATE writes only the columns whose value differs from the loaded one. *)
(* The lock is left out: it does not keep all calls apart (UserLocks), and *)
(* the unique key of the day's event decides which of them is the claim.   *)
(***************************************************************************)
EXTENDS Integers

CONSTANTS Claims,   \* updates of the user: presses of the button
          MaxDay    \* a bound

ASSUME LoyaltyAssumption == MaxDay \in Nat \ {0}

Days == 1 .. MaxDay
Never == 0  \* no last_checkin_date
Waiting == [at |-> "none"]
Checkin == [streak : 0 .. MaxDay, last : Days \cup {Never}]

VARIABLES clock,  \* in half days
          row,    \* the user's loyalty_streak and last_checkin_date
          events, \* the days of the daily_checkin rows of loyalty_events
          claim   \* how far each update is, and the copy of the row it has

Clock == 0 .. 2 * MaxDay - 1
Today == 1 + clock \div 2

loyaltyVars == <<clock, row, events, claim>>

LoyaltyTypeOK ==
  /\ clock \in Clock
  /\ row \in Checkin
  /\ events \subseteq Days
  /\ claim \in [Claims ->
       {Waiting}
         \cup [at : {"loaded", "dated", "entered"}, since : Clock, today : Days,
               copy : Checkin]]

LoyaltyInit ==
  /\ clock = 0
  /\ row = [streak |-> 0, last |-> Never]
  /\ events = {}
  /\ claim = [t \in Claims |-> Waiting]

Running(t) == claim[t] # Waiting

\* Noon and midnight.  No update lasts longer than half a day.
HalfDay ==
  /\ clock + 1 \in Clock
  /\ \A t \in Claims : Running(t) => claim[t].since = clock
  /\ clock' = clock + 1
  /\ UNCHANGED <<row, events, claim>>

\* UserMiddleware loads the user.
ClaimLoad(t) ==
  /\ ~Running(t)
  /\ claim' = [claim EXCEPT ![t] =
       [at |-> "loaded", since |-> clock, today |-> Today, copy |-> row]]
  /\ UNCHANGED <<clock, row, events>>

\* today = date.today(), then the settings are read.
ClaimDate(t) ==
  /\ claim[t].at = "loaded"
  /\ claim' = [claim EXCEPT ![t].at = "dated", ![t].today = Today]
  /\ UNCHANGED <<clock, row, events>>

\* Is there an event of the day?
ClaimEnter(t) ==
  /\ claim[t].at = "dated"
  /\ claim' = [claim EXCEPT ![t] =
       IF claim[t].today \in events THEN Waiting
                                    ELSE [@ EXCEPT !.at = "entered"]]
  /\ UNCHANGED <<clock, row, events>>

\* The streak goes on from the copy.  Mutant: also after a missed day.
StreakKept(copy, today) == IF copy.last # Never THEN copy.streak + 1 ELSE 1
Streak(copy, today) == IF copy.last = today - 1 /\ copy.last # Never
                         THEN copy.streak + 1 ELSE 1

\* The row and the event of the day, or, where the event exists by now
\* (event_key is unique), ClaimFails.
ClaimCommit(t) ==
  LET copy == claim[t].copy
      today == claim[t].today
      streak == Streak(copy, today)
  IN /\ claim[t].at = "entered" /\ today \notin events
     /\ row' = [streak |-> IF streak = copy.streak THEN row.streak ELSE streak,
                last |-> IF today = copy.last THEN row.last ELSE today]
     /\ events' = events \cup {today}
     /\ claim' = [claim EXCEPT ![t] = Waiting]
     /\ UNCHANGED clock

\* The database refuses the row or the event, or the process dies.
ClaimFails(t) ==
  /\ Running(t)
  /\ claim' = [claim EXCEPT ![t] = Waiting]
  /\ UNCHANGED <<clock, row, events>>

LoyaltyNext ==
  \/ HalfDay
  \/ \E t \in Claims : ClaimLoad(t) \/ ClaimDate(t) \/ ClaimEnter(t)
                         \/ ClaimCommit(t) \/ ClaimFails(t)

LoyaltySpec == LoyaltyInit /\ [][LoyaltyNext]_loyaltyVars

-----------------------------------------------------------------------------
\* A streak of n days is n claims on the n days up to the last one ("keep the
\* bonus predictable while rewarding a weekly streak", loyalty_service.py:195),
\* also when updates cross midnight with copies of the row that are out of
\* date.
StreakIsEarned ==
  row.last # Never =>
    /\ row.streak >= 1
    /\ (row.last - row.streak + 1) .. row.last \subseteq events
=============================================================================
