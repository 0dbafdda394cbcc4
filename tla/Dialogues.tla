----------------------------- MODULE Dialogues -----------------------------
(***************************************************************************)
(* The dialogues in which the bot asks a user or an administrator one      *)
(* answer at a time: the state and the data that aiogram keeps per user    *)
(* (MemoryStorage or RedisStorage, bot.py:76-81), the middleware that ends *)
(* a dialogue, and the handlers, given as a table.                         *)
(*                                                                         *)
(* An update is several steps: the state its filters look at is read       *)
(* first; the middleware may then clear state and data; the handler reads  *)
(* the data, stores its answer, saves, and sets the next state.  Updates   *)
(* of one user are handled concurrently.                                   *)
(*                                                                         *)
(* The middleware clears for every message that begins with "/", also for  *)
(* one that is then handled as the answer to the question just cleared:    *)
(* its handler was chosen by the state read before.                        *)
(***************************************************************************)
EXTENDS Integers

CONSTANTS Handlers,   \* the table: records as of DialogueHandlers
          Asked,      \* pairs of a state and an answer asked for before it
          Scenes      \* the dialogues a user is in; width: updates in flight;
                      \* epochs, a bound: dialogues opened and ended

Slots == {1, 2}       \* updates of the user in flight
Idle == "idle"        \* no state: set_state(None), or the middleware's None
NoJob == [at |-> "free"]

\* Handlers triggered by a message of any text, and by one that must not be a
\* command.
Texts == {"text", "strict"}
Triggers == Texts \cup {"photo", "menu", "button"}

ASSUME HandlersAssumption ==
  /\ \A h \in Handlers :
       /\ h.on \in Triggers
       /\ {h.opens, h.wipes, h.saves, h.late} \subseteq BOOLEAN
       /\ {h.clears, h.quits} \subseteq BOOLEAN
       /\ h.wipes => h.needs = {} /\ h.on \in {"menu", "button"}
       /\ h.late => h.uses = {} /\ h.next \notin {"same", "cleared", "unset"}
  /\ \A s \in Scenes : s.width \in Slots /\ s.epochs \in Nat

\* The handlers of a scene's dialogues, and those that belong to none.
Table == [s \in Scenes |-> {h \in Handlers : h.of \in s.of \cup {"any"}}]
Keys == UNION {h.keeps : h \in Handlers}
States == {h.next : h \in Handlers} \ {"same", "cleared", "unset"}
Answers(d) == DOMAIN d \subseteq Keys /\ \A k \in DOMAIN d : d[k] \in Nat
Nothing == [k \in {} |-> 0]

VARIABLES scene,  \* the dialogues of this behaviour, updates in flight
          state,  \* the state aiogram keeps
          data,   \* the data it keeps: per answer, the epoch it was given in
          epoch,  \* a counter: dialogues opened and ended so far
          left,   \* history: the epoch the middleware last ended
          cut,    \* history: the dialogue goes on after a command, which was
                  \* taken for an answer, ended it
          given,  \* history: answers given since a dialogue opened, was cut
                  \* or the main menu was asked for
          shown,  \* history: the dialogues whose messages have buttons
          jobs    \* updates being handled

vars == <<scene, state, data, epoch, left, cut, given, shown, jobs>>
history == <<epoch, left, given, shown>>

TypeOK ==
  /\ scene \in Scenes
  /\ state \in {Idle} \cup States
  /\ Answers(data)
  /\ epoch \in Nat /\ left \in Nat /\ cut \in BOOLEAN
  /\ given \subseteq Keys /\ shown \subseteq Nat
  /\ \A i \in Slots :
       jobs[i] # NoJob =>
         /\ jobs[i].at \in {"captured", "entered", "stored", "acted"}
         /\ jobs[i].h \in Handlers /\ jobs[i].command \in BOOLEAN
         /\ jobs[i].since \in Nat /\ jobs[i].from \in Nat
         /\ Answers(jobs[i].row)

Init ==
  /\ scene \in Scenes
  /\ state = Idle /\ data = Nothing /\ given = {} /\ shown = {}
  /\ epoch = 1 /\ left = 0 /\ cut = FALSE
  /\ jobs = [i \in Slots |-> NoJob]

-----------------------------------------------------------------------------
Has(keys, d) == keys \subseteq DOMAIN d
With(d, keys, e) ==
  [k \in DOMAIN d \cup keys |-> IF k \in keys THEN e ELSE d[k]]

\* Epochs and given answers are told apart for the user who sends one update
\* at a time; with two in flight there is one epoch and no bound.
OneAtATime == scene.width = 1
NextEpoch == IF OneAtATime THEN epoch + 1 ELSE epoch

\* A handler that saves and ends the dialogue does not store its answer.
Stored(h) ==
  IF h.late \/ (h.saves /\ h.next = "cleared") THEN {} ELSE h.keeps

\* A command where a number, a code or a link is wanted is refused.
Refused(i) == jobs[i].command /\ jobs[i].h.on = "strict"

\* The data with the handler's own answer, and whether it lacks one it reads:
\* first those it needs at once, once it has stored those it uses.
Filled(i) == With(data, jobs[i].h.keeps, jobs[i].since)
Lacking(i) ==
  \/ jobs[i].at = "entered" /\ ~Refused(i) /\ ~Has(jobs[i].h.needs, data)
  \/ jobs[i].at = "stored" /\ ~Has(jobs[i].h.uses, Filled(i))

\* The handling of an update ends, or goes on as the record `job'.
Ends(i) ==
  /\ jobs' = [jobs EXCEPT ![i] = NoJob]
  /\ cut' = (cut /\ state' # Idle)
  /\ UNCHANGED <<scene, history>>
Becomes(i, job) == jobs' = [jobs EXCEPT ![i] = job]

Clear == state' = Idle /\ data' = Nothing
Keep == UNCHANGED <<state, data>>

\* An update arrives: raw_state is read and the filters choose the handler.
\* A message may begin with "/"; a button that saves may belong to any message
\* shown so far.
Arrive(i, h, from, command) ==
  /\ i <= scene.width /\ jobs[i] = NoJob
  /\ h.at \in {"any", state}
  /\ epoch < scene.epochs
  /\ from \in IF h.on = "button" /\ h.saves THEN shown ELSE {epoch}
  /\ command \in IF h.on \in Texts THEN BOOLEAN ELSE {h.on = "menu"}
  /\ Becomes(i, [at |-> IF command THEN "captured" ELSE "entered",
                 h |-> h, command |-> command, since |-> epoch, from |-> from,
                 row |-> Nothing])
  /\ UNCHANGED <<scene, state, data, cut, history>>

\* Mutant: set_state(None) instead of clear().
ResetStateOnly(i) ==
  /\ jobs[i].at = "captured"
  /\ state' = Idle
  /\ epoch' = NextEpoch /\ left' = epoch
  /\ Becomes(i, [jobs[i] EXCEPT !.at = "entered", !.since = NextEpoch])
  /\ UNCHANGED <<scene, data, cut, given, shown>>

\* Mutant: set_data({}) instead of clear().
ResetDataOnly(i) ==
  /\ jobs[i].at = "captured"
  /\ data' = Nothing
  /\ Becomes(i, [jobs[i] EXCEPT !.at = "entered"])
  /\ UNCHANGED <<scene, state, cut, history>>

\* StateResetMiddleware: it clears state and data, but only while a state is
\* set, and goes on to the handler that was chosen.
Reset(i) ==
  /\ jobs[i].at = "captured"
  /\ cut' = (state # Idle /\ jobs[i].h.on \in Texts)
  /\ given' = IF cut' THEN {} ELSE given
  /\ \/ /\ state # Idle /\ Clear
        /\ epoch' = NextEpoch /\ left' = epoch
        /\ Becomes(i, [jobs[i] EXCEPT !.at = "entered", !.since = NextEpoch])
     \/ /\ state = Idle /\ Keep
        /\ Becomes(i, [jobs[i] EXCEPT !.at = "entered"])
        /\ UNCHANGED <<epoch, left>>
  /\ UNCHANGED <<scene, shown>>

\* The handler refuses the answer or the button, or the database or service
\* it saves with does: it replies and returns, and may end the dialogue.
Reject(i) ==
  /\ \/ jobs[i].at = "entered"
     \/ jobs[i].at = "stored" /\ jobs[i].h.saves
  /\ Keep \/ (jobs[i].h.quits /\ Clear)
  /\ Ends(i)

\* An answer is missing: the handler raises, replies, or ends the dialogue.
Miss(i) ==
  /\ Lacking(i)
  /\ IF jobs[i].h.clears THEN Clear ELSE Keep
  /\ Ends(i)

\* The handler accepts its own answer and stores it (update_data).
Store(i) ==
  LET h == jobs[i].h
      since == IF h.opens THEN NextEpoch ELSE jobs[i].since
  IN /\ jobs[i].at = "entered" /\ ~Refused(i) /\ ~Lacking(i)
     /\ data' = With(IF h.wipes THEN Nothing ELSE data, Stored(h), since)
     /\ state' = IF h.wipes THEN Idle ELSE IF h.late THEN h.next ELSE state
     /\ cut' = (cut /\ ~h.wipes)
     /\ epoch' = IF h.opens THEN NextEpoch ELSE epoch
     /\ given' = IF ~OneAtATime \/ h.of = "any" THEN {}
                 ELSE h.keeps \cup IF h.opens THEN {} ELSE given
     /\ shown' = IF h.opens THEN shown \cup {since} ELSE shown
     /\ Becomes(i, [jobs[i] EXCEPT !.at = "stored", !.since = since])
     /\ UNCHANGED <<scene, left>>

\* It reads the other answers it uses and, if it saves, saves its row.
Save(i) ==
  /\ jobs[i].at = "stored" /\ ~Lacking(i)
  /\ Becomes(i, [jobs[i] EXCEPT !.at = "acted",
                   !.row = IF jobs[i].h.saves THEN Filled(i) ELSE Nothing])
  /\ UNCHANGED <<scene, state, data, cut, history>>

\* Sending a message, or the storage, fails before the next state is set.
Drop(i) ==
  /\ jobs[i].at \in {"stored", "acted"}
  /\ Keep
  /\ Ends(i)

\* state.set_state(next), set_state(None) or state.clear().
Finish(i) ==
  LET h == jobs[i].h
  IN /\ jobs[i].at = "acted"
     /\ state' = CASE h.next = "same" -> state
                   [] h.next \in {"cleared", "unset"} -> Idle
                   [] OTHER -> h.next
     /\ data' = CASE h.next = "cleared" -> Nothing
                  [] h.late -> Filled(i)
                  [] OTHER -> data
     /\ Ends(i)

Next ==
  \E i \in Slots :
    \/ \E h \in Table[scene], from \in {epoch} \cup shown,
          command \in BOOLEAN : Arrive(i, h, from, command)
    \/ Reset(i) \/ Reject(i) \/ Miss(i) \/ Store(i) \/ Save(i)
    \/ Drop(i) \/ Finish(i)

Spec == Init /\ [][Next]_vars

-----------------------------------------------------------------------------
\* A dialogue some step of which is a button the middleware takes for the
\* administrator's menu (state_reset_middleware.py:36).
ResetInside(of) ==
  \E h \in Handlers : h.of = of /\ h.on = "menu" /\ ~h.opens /\ h.keeps # {}

\* A handler of an answer, in a dialogue without such a step.
Answering(h) == h.on \in Texts \cup {"photo"} /\ ~ResetInside(h.of)

\* Asked is true of the table: whoever sets a state leaves its answers in the
\* data, having stored them, read them or found them in its own state; and
\* the handlers of answers need no more.
AskedAt(s) == {k \in Keys : <<s, k>> \in Asked}
Found(h) ==
  Stored(h) \cup h.needs \cup
    IF h.on = "menu" \/ h.wipes THEN {} ELSE AskedAt(h.at)
LeftBy(h) == Found(h) \cup (h.uses \ h.keeps)

ASSUME AskedAssumption ==
  /\ {Idle, "any"} \cap States = {}
  /\ Asked \subseteq States \X Keys
  /\ \A h \in Handlers :
       /\ AskedAt(h.next) \subseteq LeftBy(h)
       /\ Answering(h) =>
            /\ h.needs \subseteq AskedAt(h.at)
            /\ h.uses \subseteq AskedAt(h.at) \cup h.keeps

\* The user who answers one question at a time, and may leave a dialogue,
\* open another, be refused or press an old button at any time, is never in a
\* state whose handler lacks an answer the dialogue should have asked for,
\* unless the dialogue goes on after a command was taken for an answer.
TextsFindTheirAnswers ==
  \A i \in Slots :
    OneAtATime /\ ~cut /\ jobs[i] # NoJob =>
      (Answering(jobs[i].h) => ~Lacking(i))

\* The same with commands among the answers: the middleware "resets the state
\* of a user who sends a command" (state_reset_middleware.py:2-4), so the
\* question it ended should not be answered any more.
CommandsEndDialogues ==
  \A i \in Slots :
    OneAtATime /\ jobs[i] # NoJob => (Answering(jobs[i].h) => ~Lacking(i))

\* The same with two updates of the user in flight, of which one may end the
\* dialogue or open another while the other is handled.
AnswersOutliveUpdates ==
  \A i \in Slots :
    ~cut /\ jobs[i] # NoJob => (Answering(jobs[i].h) => ~Lacking(i))

Saved(i) == jobs[i].at = "acted" /\ jobs[i].h.saves

\* For the user who sends one update at a time: what was answered before the
\* middleware ended a dialogue is used by no row saved later ("if the user is
\* inside an FSM sequence and presses a button of the main menu or sends a
\* command, this middleware resets their state", state_reset_middleware.py:2-4).
LeftIsForgotten ==
  \A i \in Slots :
    OneAtATime /\ Saved(i) =>
      \A k \in DOMAIN jobs[i].row : jobs[i].row[k] > left

\* A purchase uses the target and the quantity the user gave for the product
\* whose button confirms it ("Do not let a previous unfinished order leak its
\* target/quantity into this product flow", handlers/games.py:290-291).
PurchaseUsesItsOwnAnswers ==
  \A i \in Slots :
    OneAtATime /\ Saved(i) /\ jobs[i].h.of = "purchase" =>
      \A k \in {"target", "quantity"} \cap DOMAIN jobs[i].row :
        jobs[i].row[k] = jobs[i].from

\* A step of the provider wizard whose answers have all been given since the
\* wizard was opened finds them ("Wizard ... to add a provider (protocol, type,
\* name, URL, API key, currency, test)", handlers/admin/api_providers.py:5).
WizardFindsItsAnswers ==
  \A i \in Slots :
    LET h == jobs[i].h
    IN OneAtATime /\ jobs[i] # NoJob /\ Lacking(i) =>
         ~(h.needs \cup h.uses \subseteq given \cup h.keeps)
=============================================================================
