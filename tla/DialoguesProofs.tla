-------------------------- MODULE DialoguesProofs --------------------------
(***************************************************************************)
(* What the bot keeps of a dialogue has its type, and what was answered    *)
(* before the middleware ended a dialogue is in no row saved later: for    *)
(* every table of handlers.  Who answers one question at a time answers    *)
(* none whose handler lacks an answer, unless a command was taken for an   *)
(* answer before.                                                          *)
(***************************************************************************)
EXTENDS Dialogues, TLAPS

Rows == UNION {[keys -> Nat] : keys \in SUBSET Keys}

JobRecords ==
  [at : {"captured", "entered", "stored", "acted"}, h : Handlers,
   command : BOOLEAN, since : Nat, from : Nat, row : Rows]

JobOK(j) ==
  j = NoJob \/ (/\ j \in JobRecords
                /\ j.at # "acted" => j.row = Nothing
                /\ j.at = "captured" => j.h.on \in Texts \cup {"menu"})

\* Answers given after the epoch that the middleware ended.
Later(d, e) == \A k \in DOMAIN d : d[k] > e

Fresh(j, e) == j # NoJob => j.since > e /\ Later(j.row, e)

DialogueInv ==
  /\ scene \in Scenes /\ state \in {Idle} \cup States
  /\ Answers(data) /\ epoch \in Nat /\ left \in Nat /\ cut \in BOOLEAN
  /\ given \subseteq Keys /\ shown \subseteq Nat
  /\ jobs = [i \in Slots |-> jobs[i]]
  /\ \A i \in Slots : JobOK(jobs[i])
  /\ OneAtATime =>
       /\ jobs[2] = NoJob /\ left < epoch /\ Later(data, left)
       /\ \A i \in Slots : Fresh(jobs[i], left)

-----------------------------------------------------------------------------
LEMMA WithAnswers ==
  ASSUME NEW d, Answers(d), NEW keys \in SUBSET Keys, NEW e \in Nat
  PROVE  /\ Answers(With(d, keys, e)) /\ With(d, keys, e) \in Rows
         /\ DOMAIN With(d, keys, e) = DOMAIN d \cup keys
  BY DEF Answers, With, Rows

LEMMA WithLater ==
  ASSUME NEW d, NEW keys, NEW e \in Nat, NEW n \in Nat, Later(d, n), e > n
  PROVE  Later(With(d, keys, e), n)
  BY DEF Later, With

LEMMA NothingAnswered ==
  Answers(Nothing) /\ Nothing \in Rows /\ \A e : Later(Nothing, e)
  BY DEF Answers, Nothing, Rows, Later

LEMMA KeptAreKeys == \A h \in Handlers : h.keeps \in SUBSET Keys
                                           /\ Stored(h) \in SUBSET Keys
  BY DEF Keys, Stored

LEMMA Working ==
  ASSUME DialogueInv, NEW i \in Slots, jobs[i].at # "free"
  PROVE  /\ jobs[i] # NoJob /\ jobs[i] \in JobRecords
         /\ jobs[i].h \in Handlers /\ jobs[i].since \in Nat
         /\ jobs[i].at # "acted" => jobs[i].row = Nothing
         /\ jobs[i].at = "captured" => jobs[i].h.on \in Texts \cup {"menu"}
         /\ OneAtATime => i = 1 /\ Fresh(jobs[i], left)
  BY DEF DialogueInv, JobOK, NoJob, Slots, JobRecords

\* What a step of one update has to keep.
LEMMA JobGoesOn ==
  ASSUME DialogueInv, NEW i \in Slots, NEW job, Becomes(i, job),
         scene' = scene, JobOK(job),
         state' \in {Idle} \cup States, Answers(data'),
         epoch' \in Nat, left' \in Nat, cut' \in BOOLEAN,
         given' \subseteq Keys, shown' \subseteq Nat,
         OneAtATime =>
           /\ i = 1 /\ left' < epoch' /\ Later(data', left')
           /\ Fresh(job, left')
  PROVE  DialogueInv'
<1>1. /\ \A s \in Slots \ {i} : jobs'[s] = jobs[s]
      /\ jobs'[i] = job
      /\ jobs' = [s \in Slots |-> jobs'[s]]
  BY DEF DialogueInv, Becomes
<1>2. \A s \in Slots : JobOK(jobs'[s])
  BY <1>1 DEF DialogueInv
<1>3. OneAtATime' <=> OneAtATime
  BY DEF OneAtATime
<1>4. ASSUME OneAtATime
      PROVE  jobs'[2] = NoJob /\ \A s \in Slots : Fresh(jobs'[s], left')
  BY <1>1, <1>4 DEF DialogueInv, Slots, Fresh
<1>5. QED
  BY <1>1, <1>2, <1>3, <1>4 DEF DialogueInv

\* A step that ends the handling of an update.
LEMMA JobEnds ==
  ASSUME DialogueInv, NEW i \in Slots, jobs[i].at # "free", Ends(i),
         state' \in {Idle} \cup States, Answers(data'),
         OneAtATime => Later(data', left)
  PROVE  DialogueInv'
<1>1. /\ Becomes(i, NoJob) /\ JobOK(NoJob) /\ Fresh(NoJob, left')
      /\ UNCHANGED <<scene, epoch, left, given, shown>> /\ cut' \in BOOLEAN
  BY DEF Ends, Becomes, JobOK, Fresh, history
<1>2. OneAtATime => i = 1
  BY Working
<1>3. QED
  BY <1>1, <1>2, JobGoesOn DEF DialogueInv

LEMMA DialogueInvInit == Init => DialogueInv
<1> SUFFICES ASSUME Init
             PROVE  DialogueInv
  OBVIOUS
<1>1. \A i \in Slots : jobs[i] = NoJob
  BY DEF Init
<1>2. jobs = [i \in Slots |-> jobs[i]]
  BY DEF Init
<1>3. \A i \in Slots : JobOK(jobs[i]) /\ Fresh(jobs[i], left)
  BY <1>1 DEF JobOK, Fresh
<1>4. jobs[2] = NoJob /\ Later(data, left)
  BY <1>1, NothingAnswered DEF Init, Slots
<1>5. /\ scene \in Scenes /\ state \in {Idle} \cup States
      /\ epoch \in Nat /\ left \in Nat /\ left < epoch
      /\ given \subseteq Keys /\ shown \subseteq Nat
  BY DEF Init
<1>6. Answers(data) /\ cut \in BOOLEAN
  BY NothingAnswered DEF Init
<1>7. QED
  BY <1>2, <1>3, <1>4, <1>5, <1>6 DEF DialogueInv

-----------------------------------------------------------------------------
LEMMA ArriveStep ==
  ASSUME DialogueInv, NEW i \in Slots, NEW h \in Table[scene],
         NEW from \in {epoch} \cup shown, NEW command \in BOOLEAN,
         Arrive(i, h, from, command)
  PROVE  DialogueInv'
<1> DEFINE new == [at |-> IF command THEN "captured" ELSE "entered",
                   h |-> h, command |-> command, since |-> epoch,
                   from |-> from, row |-> Nothing]
<1>1. /\ Becomes(i, new) /\ i <= scene.width
      /\ UNCHANGED <<scene, state, data, cut, epoch, left, given, shown>>
  BY DEF Arrive, history
<1>2. h \in Handlers /\ from \in Nat
  BY DEF Table, DialogueInv
<1>3. JobOK(new)
  <2>1. command => h.on \in Texts \cup {"menu"}
    BY DEF Arrive
  <2>2. new \in JobRecords
    BY <1>2, NothingAnswered DEF JobRecords, DialogueInv
  <2>3. QED
    BY <2>1, <2>2 DEF JobOK
<1>4. OneAtATime => i = 1 /\ Fresh(new, left)
  <2>1. OneAtATime => left < epoch /\ epoch \in Nat /\ left \in Nat
    BY DEF DialogueInv
  <2>2. QED
    BY <1>1, <2>1, NothingAnswered DEF OneAtATime, Fresh, Slots
<1> HIDE DEF new
<1>5. QED
  BY <1>1, <1>3, <1>4, JobGoesOn DEF DialogueInv

LEMMA ResetStep ==
  ASSUME DialogueInv, NEW i \in Slots, Reset(i)
  PROVE  DialogueInv'
<1>1. /\ jobs[i].at = "captured" /\ UNCHANGED <<scene, shown>>
      /\ cut' \in BOOLEAN /\ (given' = {} \/ given' = given)
  BY DEF Reset
<1>2. /\ jobs[i] \in JobRecords /\ jobs[i].row = Nothing /\ jobs[i] # NoJob
      /\ epoch \in Nat /\ (OneAtATime => i = 1 /\ Fresh(jobs[i], left))
  BY <1>1, Working DEF DialogueInv
<1>3. CASE state # Idle
  <2> DEFINE job == [jobs[i] EXCEPT !.at = "entered", !.since = NextEpoch]
  <2>1. /\ state' = Idle /\ data' = Nothing /\ epoch' = NextEpoch
        /\ left' = epoch /\ Becomes(i, job)
    BY <1>3 DEF Reset, Clear
  <2>2. NextEpoch \in Nat /\ (OneAtATime => NextEpoch > epoch)
    BY <1>2 DEF NextEpoch
  <2>3. /\ job \in JobRecords /\ job.at = "entered"
        /\ job.row = Nothing /\ job.since = NextEpoch
    BY <1>2, <2>2 DEF JobRecords
  <2> HIDE DEF job
  <2>4. JobOK(job) /\ (OneAtATime => Fresh(job, epoch))
    BY <2>2, <2>3, NothingAnswered DEF JobOK, Fresh
  <2>5. QED
    BY <1>1, <1>2, <2>1, <2>2, <2>4, NothingAnswered, JobGoesOn
    DEF DialogueInv
<1>4. CASE state = Idle
  <2> DEFINE job == [jobs[i] EXCEPT !.at = "entered"]
  <2>1. UNCHANGED <<state, data, epoch, left>> /\ Becomes(i, job)
    BY <1>4 DEF Reset, Keep
  <2>2. /\ job \in JobRecords /\ job.at = "entered"
        /\ job.row = Nothing /\ job.since = jobs[i].since
    BY <1>2 DEF JobRecords
  <2> HIDE DEF job
  <2>3. JobOK(job) /\ (OneAtATime => Fresh(job, left))
    BY <1>2, <2>2, NothingAnswered DEF JobOK, Fresh, NoJob
  <2>4. QED
    BY <1>1, <1>2, <2>1, <2>3, JobGoesOn DEF DialogueInv
<1>5. QED
  BY <1>3, <1>4

LEMMA StoreStep ==
  ASSUME DialogueInv, NEW i \in Slots, Store(i)
  PROVE  DialogueInv'
<1> DEFINE h == jobs[i].h
           d == IF h.wipes THEN Nothing ELSE data
           since == IF h.opens THEN NextEpoch ELSE jobs[i].since
           job == [jobs[i] EXCEPT !.at = "stored", !.since = since]
<1>1. /\ jobs[i].at = "entered" /\ UNCHANGED <<scene, left>>
      /\ data' = With(d, Stored(h), since)
      /\ state' = IF h.wipes THEN Idle ELSE IF h.late THEN h.next ELSE state
      /\ epoch' = IF h.opens THEN NextEpoch ELSE epoch
      /\ given' = {} \/ given' = h.keeps
           \/ given' = h.keeps \cup given
      /\ shown' = IF h.opens THEN shown \cup {since} ELSE shown
      /\ cut' = (cut /\ ~h.wipes)
      /\ Becomes(i, job)
  BY DEF Store
<1>2. /\ h \in Handlers /\ jobs[i].since \in Nat /\ left \in Nat
      /\ epoch \in Nat /\ jobs[i] \in JobRecords /\ jobs[i].row = Nothing
      /\ (OneAtATime => i = 1 /\ jobs[i].since > left /\ left < epoch)
  BY <1>1, Working DEF Fresh, DialogueInv
<1>3. /\ since \in Nat /\ NextEpoch \in Nat
      /\ (OneAtATime => since > left /\ left < epoch')
  BY <1>1, <1>2 DEF NextEpoch
<1>4. Answers(d) /\ (OneAtATime => Later(d, left))
  BY NothingAnswered DEF DialogueInv
<1>5. h.keeps \in SUBSET Keys /\ Stored(h) \in SUBSET Keys
  BY <1>2, KeptAreKeys
<1>6. Answers(data') /\ (OneAtATime => Later(data', left))
  <2>1. Answers(With(d, Stored(h), since))
    BY <1>3, <1>4, <1>5, WithAnswers
  <2>2. OneAtATime => Later(With(d, Stored(h), since), left)
    BY <1>2, <1>3, <1>4, WithLater
  <2>3. QED
    BY <1>1, <2>1, <2>2
<1> HIDE DEF d
<1>7. /\ job \in JobRecords /\ job.at = "stored" /\ job.since = since
      /\ job.row = Nothing
  BY <1>2, <1>3 DEF JobRecords
<1>8. state' \in {Idle} \cup States
  <2>1. h.late => h.next \in States
    BY <1>2, HandlersAssumption DEF States
  <2>2. QED
    BY <1>1, <2>1 DEF DialogueInv
<1>9. /\ given' \subseteq Keys /\ cut' \in BOOLEAN
      /\ epoch' \in Nat /\ shown' \subseteq Nat /\ left' \in Nat
  <2>1. h.wipes \in BOOLEAN
    BY <1>2, HandlersAssumption
  <2>2. QED
    BY <1>1, <1>2, <1>3, <1>5, <2>1 DEF DialogueInv
<1> HIDE DEF h, since, job
<1>10. JobOK(job) /\ (OneAtATime => Fresh(job, left))
  BY <1>3, <1>7, NothingAnswered DEF JobOK, Fresh
<1>11. QED
  BY <1>1, <1>2, <1>3, <1>6, <1>8, <1>9, <1>10, JobGoesOn

LEMMA SaveStep ==
  ASSUME DialogueInv, NEW i \in Slots, Save(i)
  PROVE  DialogueInv'
<1> DEFINE row == IF jobs[i].h.saves THEN Filled(i) ELSE Nothing
           job == [jobs[i] EXCEPT !.at = "acted", !.row = row]
<1>1. /\ jobs[i].at = "stored" /\ Becomes(i, job)
      /\ UNCHANGED <<scene, state, data, cut, epoch, left, given, shown>>
  BY DEF Save, history
<1>2. /\ jobs[i].h \in Handlers /\ jobs[i].since \in Nat /\ left \in Nat
      /\ jobs[i] \in JobRecords /\ jobs[i] # NoJob
      /\ (OneAtATime => i = 1 /\ jobs[i].since > left)
  BY <1>1, Working DEF Fresh, DialogueInv
<1>3. Filled(i) \in Rows /\ (OneAtATime => Later(Filled(i), left))
  BY <1>2, KeptAreKeys, WithAnswers, WithLater DEF Filled, DialogueInv
<1>4. row \in Rows /\ (OneAtATime => Later(row, left))
  BY <1>3, NothingAnswered
<1> HIDE DEF row
<1>5. /\ job \in JobRecords /\ job.at = "acted"
      /\ job.since = jobs[i].since /\ job.row = row
  BY <1>2, <1>4 DEF JobRecords
<1> HIDE DEF job
<1>6. JobOK(job) /\ (OneAtATime => Fresh(job, left))
  BY <1>2, <1>4, <1>5 DEF JobOK, Fresh
<1>7. QED
  BY <1>1, <1>2, <1>6, JobGoesOn DEF DialogueInv

LEMMA FinishStep ==
  ASSUME DialogueInv, NEW i \in Slots, Finish(i)
  PROVE  DialogueInv'
<1> DEFINE next == jobs[i].h.next
<1>1. /\ jobs[i].at = "acted" /\ Ends(i)
      /\ state' = CASE next = "same" -> state
                    [] next \in {"cleared", "unset"} -> Idle
                    [] OTHER -> next
      /\ data' = Nothing \/ data' = Filled(i) \/ data' = data
  BY DEF Finish
<1>2. /\ jobs[i].h \in Handlers /\ jobs[i].since \in Nat
      /\ (OneAtATime => jobs[i].since > left) /\ left \in Nat
  BY <1>1, Working DEF Fresh, DialogueInv
<1>3. next \in States \cup {"same", "cleared", "unset"}
  BY <1>2 DEF States
<1>4. state' \in {Idle} \cup States
  BY <1>1, <1>3 DEF DialogueInv
<1>5. Answers(Filled(i)) /\ (OneAtATime => Later(Filled(i), left))
  BY <1>2, KeptAreKeys, WithAnswers, WithLater DEF Filled, DialogueInv
<1>6. Answers(data') /\ (OneAtATime => Later(data', left))
  BY <1>1, <1>5, NothingAnswered DEF DialogueInv
<1>7. QED
  BY <1>1, <1>4, <1>6, JobEnds

LEMMA GiveUpStep ==
  ASSUME DialogueInv, NEW i \in Slots, Reject(i) \/ Miss(i) \/ Drop(i)
  PROVE  DialogueInv'
<1>1. /\ jobs[i].at # "free" /\ Ends(i)
      /\ state' = Idle \/ state' = state
      /\ data' = Nothing \/ data' = data
  BY DEF Reject, Miss, Drop, Clear, Keep, Lacking
<1>2. Answers(data') /\ (OneAtATime => Later(data', left))
  BY <1>1, NothingAnswered DEF DialogueInv
<1>3. QED
  BY <1>1, <1>2, JobEnds DEF DialogueInv

-----------------------------------------------------------------------------
LEMMA DialogueInductive == Spec => []DialogueInv
<1>1. DialogueInv /\ [Next]_vars => DialogueInv'
  <2>1. ASSUME DialogueInv, Next
        PROVE  DialogueInv'
    BY <2>1, ArriveStep, ResetStep, StoreStep, SaveStep, FinishStep,
      GiveUpStep DEF Next
  <2>2. ASSUME DialogueInv, UNCHANGED vars
        PROVE  DialogueInv'
    BY <2>2 DEF DialogueInv, OneAtATime, vars
  <2>3. QED
    BY <2>1, <2>2
<1>2. QED
  BY <1>1, DialogueInvInit, PTL DEF Spec

\* What is kept of the dialogues, and the updates in flight, have their types.
THEOREM DialogueTypeCorrect == Spec => []TypeOK
<1>1. DialogueInv => TypeOK
  BY DEF DialogueInv, TypeOK, JobOK, JobRecords, Rows, Answers
<1>2. QED
  BY <1>1, DialogueInductive, PTL

\* Of the user who sends one update at a time, no row holds an answer given
\* before the middleware last ended a dialogue.
THEOREM NothingLeftIsSaved == Spec => []LeftIsForgotten
<1>1. DialogueInv => LeftIsForgotten
  <2>1. ASSUME DialogueInv, NEW i \in Slots, OneAtATime, Saved(i)
        PROVE  Later(jobs[i].row, left)
    BY <2>1, Working DEF Saved, Fresh
  <2>2. QED
    BY <2>1 DEF LeftIsForgotten, Later
<1>2. QED
  BY <1>1, DialogueInductive, PTL

-----------------------------------------------------------------------------
\* Who answers one question at a time finds the answers of the state they are
\* in: the update in hand was chosen for that state, and what it leaves is
\* enough for the state it is about to set.  After a command has cut the
\* dialogue nothing of this is left.
Chosen(j) == j.at = "captured" => j.h.at \in {"any", state}

AnswersOf(j) ==
  /\ j.at = "entered" /\ j.h.on # "menu" => j.h.at \in {"any", state}
  /\ j.at = "stored" => Found(j.h) \subseteq DOMAIN data
  /\ j.at = "acted" => AskedAt(j.h.next) \subseteq DOMAIN data

Answered ==
  OneAtATime =>
    /\ Chosen(jobs[1])
    /\ ~cut => AskedAt(state) \subseteq DOMAIN data /\ AnswersOf(jobs[1])

LEMMA AskedOfStates ==
  /\ \A s : s \notin States => AskedAt(s) = {}
  /\ AskedAt(Idle) = {} /\ AskedAt("any") = {}
  /\ \A s : AskedAt(s) \subseteq Keys
<1>1. \A s : s \notin States => AskedAt(s) = {}
  BY AskedAssumption DEF AskedAt
<1>2. Idle \notin States /\ "any" \notin States
  BY AskedAssumption
<1>3. QED
  BY <1>1, <1>2 DEF AskedAt

\* A step that ends the handling of the update in hand.
LEMMA AnsweredEnds ==
  ASSUME DialogueInv, NEW i \in Slots, jobs[i].at # "free", Ends(i),
         OneAtATime /\ ~cut => AskedAt(state') \subseteq DOMAIN data'
  PROVE  Answered'
<1>1. OneAtATime' <=> OneAtATime
  BY DEF OneAtATime, Ends
<1>2. SUFFICES ASSUME OneAtATime
               PROVE  /\ Chosen(jobs[1])'
                      /\ ~cut' => /\ AskedAt(state') \subseteq DOMAIN data'
                                  /\ AnswersOf(jobs[1])'
  BY <1>1 DEF Answered, AskedAt
<1>3. i = 1 /\ jobs'[1] = NoJob /\ (cut' <=> cut /\ state' # Idle)
  BY <1>2, Working DEF DialogueInv, Ends
<1>4. jobs'[1].at = "free"
  BY <1>3 DEF NoJob
<1>5. QED
  BY <1>2, <1>3, <1>4, AskedOfStates DEF AnswersOf, Chosen

\* A step after which the update in hand is still handled.
LEMMA AnsweredGoesOn ==
  ASSUME DialogueInv, NEW i \in Slots, i <= scene.width \/ jobs[i].at # "free",
         scene' = scene,
         OneAtATime => Chosen(jobs[i])',
         OneAtATime /\ ~cut' => AskedAt(state') \subseteq DOMAIN data',
         OneAtATime /\ ~cut' => AnswersOf(jobs[i])'
  PROVE  Answered'
<1>1. OneAtATime' <=> OneAtATime
  BY DEF OneAtATime
<1>2. OneAtATime => i = 1
  BY Working DEF OneAtATime, Slots
<1>3. QED
  BY <1>1, <1>2 DEF Answered, AskedAt

LEMMA AnsweredArrive ==
  ASSUME DialogueInv, Answered, NEW i \in Slots, NEW h \in Table[scene],
         NEW from \in {epoch} \cup shown, NEW command \in BOOLEAN,
         Arrive(i, h, from, command)
  PROVE  Answered'
<1>1. /\ jobs'[i].at = IF command THEN "captured" ELSE "entered"
      /\ jobs'[i].h = h /\ h.at \in {"any", state}
      /\ UNCHANGED <<scene, state, data, cut>> /\ i <= scene.width
  BY DEF Arrive, DialogueInv, Becomes
<1>2. AnswersOf(jobs[i])' /\ Chosen(jobs[i])'
  BY <1>1 DEF AnswersOf, Chosen
<1>3. QED
  BY <1>1, <1>2, AnsweredGoesOn DEF Answered

\* The middleware's button needs no answers; of a message, either the state it
\* was chosen for stays, or the dialogue is cut.
LEMMA AnsweredReset ==
  ASSUME DialogueInv, Answered, NEW i \in Slots, Reset(i)
  PROVE  Answered'
<1>1. /\ jobs[i] \in JobRecords /\ jobs[i].at = "captured" /\ scene' = scene
      /\ jobs[i].h.on \in Texts \cup {"menu"}
      /\ OneAtATime => jobs[i].h.at \in {"any", state}
  <2>1. jobs[i].at = "captured" /\ scene' = scene
    BY DEF Reset
  <2>2. QED
    BY <2>1, Working DEF Answered, Chosen
<1>2. jobs'[i].at = "entered" /\ jobs'[i].h = jobs[i].h
  <2>1. \/ Becomes(i, [jobs[i] EXCEPT !.at = "entered", !.since = NextEpoch])
        \/ Becomes(i, [jobs[i] EXCEPT !.at = "entered"])
    BY DEF Reset
  <2>2. QED
    BY <1>1, <2>1 DEF Becomes, DialogueInv, JobRecords
<1>3. state' = Idle
  BY DEF Reset, Clear, Keep
<1>4. ASSUME OneAtATime, ~cut'
      PROVE  AnswersOf(jobs[i])'
  <2>1. \/ jobs[i].h.on = "menu"
        \/ state' = state
    BY <1>1, <1>4 DEF Reset, Keep
  <2>2. QED
    BY <1>1, <1>2, <1>4, <2>1 DEF AnswersOf
<1>5. Chosen(jobs[i])'
  BY <1>2 DEF Chosen
<1>6. QED
  BY <1>1, <1>3, <1>4, <1>5, AskedOfStates, AnsweredGoesOn

LEMMA AnsweredStore ==
  ASSUME DialogueInv, Answered, NEW i \in Slots, Store(i)
  PROVE  Answered'
<1> DEFINE h == jobs[i].h
           d == IF h.wipes THEN Nothing ELSE data
           since == IF h.opens THEN NextEpoch ELSE jobs[i].since
<1>1. /\ jobs[i].at = "entered" /\ scene' = scene
      /\ data' = With(d, Stored(h), since)
      /\ state' = IF h.wipes THEN Idle ELSE IF h.late THEN h.next ELSE state
      /\ cut' = (cut /\ ~h.wipes)
      /\ Becomes(i, [jobs[i] EXCEPT !.at = "stored", !.since = since])
  BY DEF Store
<1>2. /\ h \in Handlers /\ jobs[i] \in JobRecords
      /\ OneAtATime => i = 1
  BY <1>1, Working
<1>3. jobs'[i].at = "stored" /\ jobs'[i].h = h
  BY <1>1, <1>2 DEF Becomes, DialogueInv, JobRecords
<1>4. DOMAIN data' = DOMAIN d \cup Stored(h)
  BY <1>1 DEF With
<1>5. h.needs \subseteq DOMAIN d
  <2>1. h.wipes => h.needs = {}
    BY <1>2, HandlersAssumption
  <2>2. h.needs \subseteq DOMAIN data
    BY DEF Store, Lacking, Has
  <2>3. QED
    BY <2>1, <2>2
<1>6. ASSUME OneAtATime, ~cut', ~h.wipes
      PROVE  /\ AskedAt(state) \subseteq DOMAIN d
             /\ h.on # "menu" => AskedAt(h.at) \subseteq DOMAIN d
  <2>1. ~cut /\ d = data
    BY <1>1, <1>6
  <2>2. /\ AskedAt(state) \subseteq DOMAIN data
        /\ h.on # "menu" => h.at \in {"any", state}
    BY <1>1, <1>2, <1>6, <2>1 DEF Answered, AnswersOf
  <2>3. QED
    BY <2>1, <2>2, AskedOfStates
<1> HIDE DEF d, since
<1>7. ASSUME OneAtATime, ~cut'
      PROVE  Found(h) \subseteq DOMAIN data'
  BY <1>4, <1>5, <1>6, <1>7 DEF Found
<1>8. ASSUME OneAtATime, ~cut'
      PROVE  AskedAt(state') \subseteq DOMAIN data'
  <2>1. CASE h.wipes
    BY <1>1, <2>1, AskedOfStates
  <2>2. CASE ~h.wipes /\ h.late
    <3>1. h.uses = {} /\ AskedAt(h.next) \subseteq LeftBy(h)
      BY <1>2, <2>2, AskedAssumption, HandlersAssumption
    <3>2. LeftBy(h) = Found(h)
      BY <3>1 DEF LeftBy
    <3>3. QED
      BY <1>1, <1>7, <1>8, <2>2, <3>1, <3>2
  <2>3. CASE ~h.wipes /\ ~h.late
    BY <1>1, <1>4, <1>6, <1>8, <2>3
  <2>4. QED
    BY <2>1, <2>2, <2>3
<1>9. /\ Chosen(jobs[i])'
      /\ OneAtATime /\ ~cut' => AnswersOf(jobs[i])'
  BY <1>3, <1>7 DEF AnswersOf, Chosen, Found, AskedAt
<1>10. QED
  BY <1>1, <1>8, <1>9, AnsweredGoesOn

LEMMA AnsweredSave ==
  ASSUME DialogueInv, Answered, NEW i \in Slots, Save(i)
  PROVE  Answered'
<1> DEFINE h == jobs[i].h
<1>1. /\ jobs[i].at = "stored" /\ h.uses \subseteq DOMAIN data \cup h.keeps
      /\ UNCHANGED <<scene, state, data, cut>>
      /\ \E row : Becomes(i, [jobs[i] EXCEPT !.at = "acted", !.row = row])
  BY DEF Save, Lacking, Has, Filled, With
<1>2. /\ h \in Handlers /\ jobs[i] \in JobRecords
      /\ OneAtATime => i = 1
  BY <1>1, Working
<1>3. jobs'[i].at = "acted" /\ jobs'[i].h = h
  BY <1>1, <1>2 DEF Becomes, DialogueInv, JobRecords
<1>4. ASSUME OneAtATime, ~cut
      PROVE  /\ AskedAt(state) \subseteq DOMAIN data
             /\ AskedAt(h.next) \subseteq DOMAIN data
  <2>1. AskedAt(state) \subseteq DOMAIN data /\ Found(h) \subseteq DOMAIN data
    BY <1>1, <1>2, <1>4 DEF Answered, AnswersOf
  <2>2. AskedAt(h.next) \subseteq Found(h) \cup (h.uses \ h.keeps)
    BY <1>2, AskedAssumption DEF LeftBy
  <2> HIDE DEF h
  <2>3. QED
    BY <1>1, <2>1, <2>2
<1> HIDE DEF h
<1>5. /\ Chosen(jobs[i])'
      /\ OneAtATime /\ ~cut' => AnswersOf(jobs[i])'
  BY <1>1, <1>3, <1>4 DEF AnswersOf, Chosen, AskedAt
<1>6. QED
  BY <1>1, <1>4, <1>5, AnsweredGoesOn

LEMMA AnsweredFinish ==
  ASSUME DialogueInv, Answered, NEW i \in Slots, Finish(i)
  PROVE  Answered'
<1> DEFINE next == jobs[i].h.next
<1>1. /\ jobs[i].at = "acted" /\ Ends(i)
      /\ \/ state' = Idle
         \/ /\ data' = data \/ data' = Filled(i)
            /\ state' = state \/ state' = next
  BY DEF Finish
<1>2. OneAtATime /\ ~cut => AskedAt(next) \subseteq DOMAIN data
  <2>1. OneAtATime => i = 1
    BY <1>1, Working
  <2>2. QED
    BY <1>1, <2>1 DEF Answered, AnswersOf
<1>3. DOMAIN data \subseteq DOMAIN Filled(i)
  BY DEF Filled, With
<1> HIDE DEF next
<1>4. OneAtATime /\ ~cut => AskedAt(state') \subseteq DOMAIN data'
  BY <1>1, <1>2, <1>3, AskedOfStates DEF Answered
<1>5. QED
  BY <1>1, <1>4, AnsweredEnds

LEMMA AnsweredGivesUp ==
  ASSUME DialogueInv, Answered, NEW i \in Slots,
         Reject(i) \/ Miss(i) \/ Drop(i)
  PROVE  Answered'
<1>1. /\ jobs[i].at # "free" /\ Ends(i)
      /\ \/ state' = Idle
         \/ state' = state /\ data' = data
  BY DEF Reject, Miss, Drop, Clear, Keep, Lacking
<1>2. OneAtATime /\ ~cut => AskedAt(state') \subseteq DOMAIN data'
  BY <1>1, AskedOfStates DEF Answered
<1>3. QED
  BY <1>1, <1>2, AnsweredEnds

LEMMA AnswersInductive == Spec => []Answered
<1>1. Init => Answered
  <2>1. SUFFICES ASSUME Init
                 PROVE  Answered
    OBVIOUS
  <2>2. jobs[1].at = "free" /\ state = Idle
    BY <2>1 DEF Init, NoJob, Slots
  <2>3. QED
    BY <2>2, AskedOfStates DEF Answered, AnswersOf, Chosen
<1>2. DialogueInv /\ Answered /\ [Next]_vars => Answered'
  <2>1. SUFFICES ASSUME DialogueInv, Answered, [Next]_vars
                 PROVE  Answered'
    OBVIOUS
  <2>2. CASE Next
    BY <2>1, <2>2, AnsweredArrive, AnsweredReset, AnsweredStore, AnsweredSave,
      AnsweredFinish, AnsweredGivesUp DEF Next
  <2>3. CASE UNCHANGED vars
    BY <2>1, <2>3
    DEF Answered, AnswersOf, Chosen, Found, AskedAt, OneAtATime, vars
  <2>4. QED
    BY <2>1, <2>2, <2>3
<1>3. QED
  BY <1>1, <1>2, DialogueInductive, PTL DEF Spec

\* Who answers one question at a time never answers one whose handler lacks
\* an answer, unless the dialogue goes on after a command was taken for an
\* answer: for every table of handlers in which every way to a state leaves the
\* answers asked for before it.
THEOREM AnswersAreFound == Spec => []TextsFindTheirAnswers
<1>1. DialogueInv /\ Answered => TextsFindTheirAnswers
  <2>1. SUFFICES ASSUME DialogueInv, Answered, NEW i \in Slots, OneAtATime, ~cut,
                        jobs[i] # NoJob, Answering(jobs[i].h), Lacking(i)
                 PROVE  FALSE
    BY DEF TextsFindTheirAnswers
  <2> DEFINE h == jobs[i].h
  <2>2. jobs[i].at \in {"entered", "stored"}
    BY <2>1 DEF Lacking
  <2>3. i = 1 /\ h \in Handlers
    BY <2>1, <2>2, Working
  <2>4. /\ h.on # "menu" /\ ~h.wipes
        /\ h.needs \subseteq AskedAt(h.at)
        /\ h.uses \subseteq AskedAt(h.at) \cup h.keeps
    BY <2>1, <2>3, AskedAssumption, HandlersAssumption DEF Answering, Texts
  <2>5. CASE jobs[i].at = "entered"
    <3>1. h.at \in {"any", state} /\ AskedAt(state) \subseteq DOMAIN data
      BY <2>1, <2>3, <2>4, <2>5 DEF Answered, AnswersOf
    <3>2. AskedAt(h.at) \subseteq DOMAIN data
      BY <3>1, AskedOfStates
    <3>3. QED
      BY <2>1, <2>4, <2>5, <3>2 DEF Lacking, Has
  <2>6. CASE jobs[i].at = "stored"
    <3>1. Found(h) \subseteq DOMAIN data
      BY <2>1, <2>3, <2>6 DEF Answered, AnswersOf
    <3>2. AskedAt(h.at) \subseteq DOMAIN data
      BY <2>4, <3>1 DEF Found
    <3>3. QED
      BY <2>1, <2>4, <2>6, <3>2 DEF Lacking, Has, Filled, With
  <2>7. QED
    BY <2>2, <2>5, <2>6
<1>2. QED
  BY <1>1, DialogueInductive, AnswersInductive, PTL
=============================================================================
