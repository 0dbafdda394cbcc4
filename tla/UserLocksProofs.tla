-------------------------- MODULE UserLocksProofs --------------------------
(***************************************************************************)
(* Theorems about UserLocks, for every set of users, tasks and locks: the  *)
(* type invariant, mutual exclusion of lock objects and the absence of     *)
(* lost wake-ups hold whatever the cleanup job does, and so does freedom   *)
(* from deadlock; mutual exclusion per USER holds in a process that never  *)
(* runs the cleanup job.                                                   *)
(***************************************************************************)
EXTENDS UserLocks, SequenceTheorems, FiniteSetTheorems, NaturalsInduction,
        WellFoundedInduction, TLAPS

\* A woken lock is unlocked and still has the queue its next owner heads;
\* a queue on an unlocked lock has been woken.
WakeOK(l) ==
  /\ lock[l].woken => ~lock[l].locked /\ lock[l].queue # <<>>
  /\ lock[l].queue # <<>> => lock[l].locked \/ lock[l].woken

\* A task is at most one position past its locks, and what it holds is locked.
HeldLocked(t) ==
  /\ pos[t] <= Len(refs[t]) + 1
  /\ \A i \in 1 .. (pos[t] - 1) : lock[refs[t][i]].locked

\* No lock object is held by two tasks.
Apart(s, t) ==
  \A i \in 1 .. (pos[s] - 1), j \in 1 .. (pos[t] - 1) :
    refs[s][i] # refs[t][j]

IInv ==
  /\ TypeOK
  /\ \A l \in Locks : WakeOK(l)
  /\ \A t \in Tasks : HeldLocked(t)
  /\ \A s, t \in Tasks : s # t => Apart(s, t)

-----------------------------------------------------------------------------
(* What a task that acquires locks does to them.                           *)

\* AcquireFrom from a table lk that is the current one, except perhaps for
\* locks just taken over from a queue.
LEMMA AcquireEffect ==
  ASSUME TypeOK, \A l \in Locks : WakeOK(l),
         NEW t \in Tasks, NEW r \in Seq(Locks),
         NEW from \in Nat \ {0},
         NEW lk \in [Locks -> LockState],
         \A l \in Locks :
           \/ lk[l] = lock[l]
           \/ lk[l].locked /\ ~lk[l].woken /\ lock[l].queue # <<>>,
         AcquireFrom(t, r, from, lk)
  PROVE  /\ pos'[t] \in from .. (Len(r) + 1)
         /\ pos' = [pos EXCEPT ![t] = pos'[t]]
         /\ lock' \in [Locks -> LockState]
         /\ \A l \in Locks : WakeOK(l)'
         /\ \A l \in Locks : lk[l].locked => lock'[l].locked
         /\ \A i \in from .. (pos'[t] - 1) : Free(r[i]) /\ lock'[r[i]].locked
<1>1. PICK k \in from .. (Len(r) + 1) :
        /\ \A j \in from .. (k - 1) : Free(r[j])
        /\ k <= Len(r) => ~Free(r[k])
        /\ pos' = [pos EXCEPT ![t] = k]
        /\ lock' = [l \in Locks |->
             IF \E j \in from .. (k - 1) : r[j] = l
               THEN [lk[l] EXCEPT !.locked = TRUE]
             ELSE IF k <= Len(r) /\ r[k] = l
               THEN [lk[l] EXCEPT !.queue = Append(lk[l].queue, t)]
             ELSE lk[l]]
  BY DEF AcquireFrom
<1>2. pos'[t] = k
  BY <1>1 DEF TypeOK
<1>3. lock' \in [Locks -> LockState]
  <2>1. ASSUME NEW l \in Locks PROVE lock'[l] \in LockState
    <3>1. lk[l] \in LockState OBVIOUS
    <3>2. [lk[l] EXCEPT !.locked = TRUE] \in LockState BY <3>1 DEF LockState
    <3>3. Append(lk[l].queue, t) \in Seq(Tasks)
      BY <3>1, AppendProperties DEF LockState
    <3>4. [lk[l] EXCEPT !.queue = Append(lk[l].queue, t)] \in LockState
      BY <3>1, <3>3 DEF LockState
    <3> QED BY <1>1, <3>1, <3>2, <3>4
  <2> QED BY <1>1, <2>1
<1>4. ASSUME NEW l \in Locks PROVE WakeOK(l)'
  <2>1. CASE \E j \in from .. (k - 1) : r[j] = l
    <3>1. Free(l) BY <1>1, <2>1
    <3>2. lk[l] = lock[l] /\ ~lock[l].woken BY <3>1 DEF Free, WakeOK
    <3>3. lock'[l] = [lk[l] EXCEPT !.locked = TRUE] BY <1>1, <2>1
    <3> QED BY <3>1, <3>2, <3>3 DEF WakeOK, LockState, Free
  <2>2. CASE /\ ~\E j \in from .. (k - 1) : r[j] = l
             /\ k <= Len(r) /\ r[k] = l
    <3>1. lock'[l] = [lk[l] EXCEPT !.queue = Append(lk[l].queue, t)]
      BY <1>1, <2>2
    <3>2. ~Free(l) BY <1>1, <2>2
    <3>3. (lk[l].locked /\ ~lk[l].woken) \/ (~lk[l].locked /\ lk[l].woken)
      BY <3>2 DEF Free, WakeOK, LockState
    <3>4. Append(lk[l].queue, t) # <<>>
      BY AppendProperties DEF LockState
    <3> QED BY <3>1, <3>3, <3>4 DEF WakeOK, LockState
  <2>3. CASE /\ ~\E j \in from .. (k - 1) : r[j] = l
             /\ ~(k <= Len(r) /\ r[k] = l)
    <3>1. lock'[l] = lk[l] BY <1>1, <2>3
    <3> QED BY <3>1 DEF WakeOK, LockState
  <2> QED BY <2>1, <2>2, <2>3
<1>5. ASSUME NEW l \in Locks, lk[l].locked PROVE lock'[l].locked
  BY <1>1, <1>5 DEF LockState
<1>6. ASSUME NEW i \in from .. (k - 1)
      PROVE  Free(r[i]) /\ lock'[r[i]].locked
  <2>1. r[i] \in Locks OBVIOUS
  <2> QED BY <1>1, <2>1 DEF LockState
<1> QED BY <1>1, <1>2, <1>3, <1>4, <1>5, <1>6

\* Looking the locks up types the registry and finds a lock for every id.
LEMMA GetLocksEffect ==
  ASSUME TypeOK, NEW w \in Seq(Users), GetLocks(w)
  PROVE  /\ registry' \in [Users -> Locks \cup {NoLock}]
         /\ [i \in 1 .. Len(w) |-> registry'[w[i]]] \in Seq(Locks)
         /\ Len([i \in 1 .. Len(w) |-> registry'[w[i]]]) = Len(w)
         /\ \A u \in Users : registry[u] # NoLock => registry'[u] = registry[u]
<1>1. PICK f \in [Missing(w) -> Locks \ InUse] :
        registry' = [u \in Users |->
                       IF u \in Missing(w) THEN f[u] ELSE registry[u]]
  BY DEF GetLocks
<1>2. ASSUME NEW u \in Users
      PROVE  registry'[u] = IF u \in Missing(w) THEN f[u] ELSE registry[u]
  BY <1>1
<1>3. ASSUME NEW u \in Users PROVE registry'[u] \in Locks \cup {NoLock}
  BY <1>2 DEF TypeOK
<1>4. registry' \in [Users -> Locks \cup {NoLock}]
  BY <1>1, <1>3
<1>5. ASSUME NEW i \in 1 .. Len(w) PROVE registry'[w[i]] \in Locks
  <2>1. w[i] \in Users OBVIOUS
  <2>2. CASE w[i] \in Missing(w) BY <1>2, <2>1, <2>2
  <2>3. CASE w[i] \notin Missing(w)
    <3>1. registry[w[i]] # NoLock BY <2>1, <2>3 DEF Missing
    <3> QED BY <1>2, <2>1, <2>3, <3>1 DEF TypeOK
  <2> QED BY <2>2, <2>3
<1>6. [i \in 1 .. Len(w) |-> registry'[w[i]]] \in Seq(Locks)
  BY <1>5
<1>7. \A u \in Users : registry[u] # NoLock => registry'[u] = registry[u]
  BY <1>2 DEF Missing
<1> QED BY <1>4, <1>6, <1>7

\* A task that acquires locks behind those it already holds keeps IInv.
LEMMA AcquireKeepsIInv ==
  ASSUME IInv, NEW t \in Tasks, NEW r \in Seq(Locks),
         NEW from \in Nat \ {0}, from <= Len(r) + 1,
         NEW lk \in [Locks -> LockState],
         \A l \in Locks :
           \/ lk[l] = lock[l]
           \/ lk[l].locked /\ ~lk[l].woken /\ lock[l].queue # <<>>,
         AcquireFrom(t, r, from, lk),
         \A i \in 1 .. (from - 1) : lk[r[i]].locked,
         \A s \in Tasks \ {t} :
           \A i \in 1 .. (pos[s] - 1), j \in 1 .. (from - 1) : refs[s][i] # r[j],
         refs' = [refs EXCEPT ![t] = r],
         registry' \in [Users -> Locks \cup {NoLock}],
         want' \in [Tasks -> Seq(Users)], Len(r) = Len(want'[t]),
         \A s \in Tasks \ {t} : want'[s] = want[s]
  PROVE  IInv'
<1>1. /\ pos'[t] \in from .. (Len(r) + 1)
      /\ pos' = [pos EXCEPT ![t] = pos'[t]]
      /\ lock' \in [Locks -> LockState]
      /\ \A l \in Locks : WakeOK(l)'
      /\ \A l \in Locks : lk[l].locked => lock'[l].locked
      /\ \A i \in from .. (pos'[t] - 1) : Free(r[i]) /\ lock'[r[i]].locked
  BY AcquireEffect DEF IInv
<1>2. /\ refs'[t] = r
      /\ \A s \in Tasks \ {t} : refs'[s] = refs[s] /\ pos'[s] = pos[s]
  BY <1>1 DEF IInv, TypeOK
<1>3. TypeOK'
  <2>1. refs' \in [Tasks -> Seq(Locks)] BY DEF IInv, TypeOK
  <2>2. pos' \in [Tasks -> Nat \ {0}] BY <1>1 DEF IInv, TypeOK
  <2>3. ASSUME NEW s \in Tasks PROVE Len(refs'[s]) = Len(want'[s])
    BY <1>2 DEF IInv, TypeOK
  <2> QED BY <1>1, <2>1, <2>2, <2>3 DEF TypeOK
<1>4. ASSUME NEW l \in Locks, lock[l].locked PROVE lock'[l].locked
  BY <1>1, <1>4
<1>5. ASSUME NEW s \in Tasks \ {t}, NEW i \in 1 .. (pos[s] - 1)
      PROVE  refs[s][i] \in Locks /\ lock[refs[s][i]].locked
  BY <1>5 DEF IInv, TypeOK, HeldLocked
<1>6. ASSUME NEW s \in Tasks PROVE HeldLocked(s)'
  <2>1. CASE s # t
    BY <1>2, <1>4, <1>5, <2>1 DEF IInv, HeldLocked
  <2>2. CASE s = t
    <3>1. ASSUME NEW i \in 1 .. (pos'[t] - 1) PROVE lock'[r[i]].locked
      <4>1. CASE i \in from .. (pos'[t] - 1) BY <1>1, <4>1
      <4>2. CASE i \in 1 .. (from - 1)
        <5>1. r[i] \in Locks BY <4>2
        <5> QED BY <1>1, <4>2, <5>1
      <4> QED BY <1>1, <4>1, <4>2
    <3>2. pos'[t] <= Len(r) + 1 BY <1>1
    <3> QED BY <1>2, <2>2, <3>1, <3>2 DEF HeldLocked
  <2> QED BY <2>1, <2>2
<1>7. ASSUME NEW s \in Tasks \ {t},
             NEW i \in 1 .. (pos[s] - 1), NEW j \in 1 .. (pos'[t] - 1)
      PROVE  refs[s][i] # r[j]
  <2>1. CASE j \in 1 .. (from - 1) BY <2>1
  <2>2. CASE j \in from .. (pos'[t] - 1)
    <3>1. lock[refs[s][i]].locked BY <1>5
    <3>2. ~lock[r[j]].locked BY <1>1, <2>2 DEF Free
    <3> QED BY <3>1, <3>2
  <2> QED BY <1>1, <2>1, <2>2
<1>8. ASSUME NEW s1 \in Tasks, NEW s2 \in Tasks, s1 # s2
      PROVE  Apart(s1, s2)'
  <2>1. CASE s1 # t /\ s2 # t
    <3>1. /\ refs'[s1] = refs[s1] /\ pos'[s1] = pos[s1]
          /\ refs'[s2] = refs[s2] /\ pos'[s2] = pos[s2]
      BY <1>2, <2>1
    <3>2. Apart(s1, s2) BY <1>8 DEF IInv
    <3> QED BY <3>1, <3>2 DEF Apart
  <2>2. CASE s1 = t
    BY <1>2, <1>7, <1>8, <2>2 DEF Apart
  <2>3. CASE s2 = t
    BY <1>2, <1>7, <1>8, <2>3 DEF Apart
  <2> QED BY <2>1, <2>2, <2>3
<1> QED BY <1>1, <1>3, <1>6, <1>8 DEF IInv

-----------------------------------------------------------------------------
(* Every action keeps the inductive invariant.                             *)

LEMMA EnterKeepsIInv ==
  ASSUME IInv, NEW t \in Tasks, NEW w \in Seq(Users), Enter(t, w)
  PROVE  IInv'
<1> DEFINE r == [i \in 1 .. Len(w) |-> registry'[w[i]]]
<1>1. /\ registry' \in [Users -> Locks \cup {NoLock}]
      /\ r \in Seq(Locks) /\ Len(r) = Len(w)
  BY GetLocksEffect DEF IInv, Enter
<1>2. /\ refs' = [refs EXCEPT ![t] = r]
      /\ want' = [want EXCEPT ![t] = w]
      /\ AcquireFrom(t, r, 1, lock)
  BY DEF Enter
<1>3. /\ want' \in [Tasks -> Seq(Users)] /\ want'[t] = w
      /\ \A s \in Tasks \ {t} : want'[s] = want[s]
  BY <1>2 DEF IInv, TypeOK
<1>4. lock \in [Locks -> LockState] BY DEF IInv, TypeOK
<1>5. 1 \in Nat \ {0} /\ 1 <= Len(r) + 1 BY <1>1
<1>6. 1 .. (1 - 1) = {} OBVIOUS
<1>7. Len(r) = Len(want'[t]) BY <1>1, <1>3
<1> HIDE DEF r
<1> QED BY <1>1, <1>2, <1>3, <1>4, <1>5, <1>6, <1>7, AcquireKeepsIInv

LEMMA ResumeKeepsIInv ==
  ASSUME IInv, NEW t \in Tasks, Resume(t)
  PROVE  IInv'
<1> DEFINE l0 == refs[t][pos[t]]
           lk == [lock EXCEPT ![l0] = [locked |-> TRUE, woken |-> FALSE,
                                       queue |-> Tail(lock[l0].queue)]]
<1>1. /\ Waiting(t) /\ lock[l0].woken
      /\ AcquireFrom(t, refs[t], pos[t] + 1, lk)
      /\ UNCHANGED <<registry, want, refs>>
  BY DEF Resume
<1>2. /\ refs[t] \in Seq(Locks) /\ pos[t] \in 1 .. Len(refs[t])
      /\ l0 \in Locks
  BY <1>1 DEF IInv, TypeOK, Waiting
<1>3. ~lock[l0].locked /\ lock[l0].queue # <<>>
  BY <1>1, <1>2 DEF IInv, WakeOK
<1>4. lk \in [Locks -> LockState]
  <2>1. Tail(lock[l0].queue) \in Seq(Tasks)
    BY <1>2, <1>3 DEF IInv, TypeOK, LockState
  <2> QED BY <1>2, <2>1 DEF IInv, TypeOK, LockState
<1>5. ASSUME NEW l \in Locks
      PROVE  \/ lk[l] = lock[l]
             \/ lk[l].locked /\ ~lk[l].woken /\ lock[l].queue # <<>>
  BY <1>2, <1>3 DEF IInv, TypeOK
<1>6. ASSUME NEW i \in 1 .. pos[t] PROVE lk[refs[t][i]].locked
  <2>1. CASE i = pos[t] BY <1>2, <2>1 DEF IInv, TypeOK
  <2>2. CASE i \in 1 .. (pos[t] - 1)
    BY <1>2, <2>2 DEF IInv, TypeOK, HeldLocked
  <2> QED BY <1>2, <2>1, <2>2
<1>7. ASSUME NEW s \in Tasks \ {t},
             NEW i \in 1 .. (pos[s] - 1), NEW j \in 1 .. pos[t]
      PROVE  refs[s][i] # refs[t][j]
  <2>1. CASE j = pos[t] BY <1>2, <1>3, <2>1 DEF IInv, HeldLocked
  <2>2. CASE j \in 1 .. (pos[t] - 1) BY <1>2, <2>2 DEF IInv, Apart
  <2> QED BY <1>2, <2>1, <2>2
<1>8. /\ refs' = [refs EXCEPT ![t] = refs[t]]
      /\ registry' \in [Users -> Locks \cup {NoLock}]
      /\ want' \in [Tasks -> Seq(Users)] /\ Len(refs[t]) = Len(want'[t])
      /\ \A s \in Tasks \ {t} : want'[s] = want[s]
  BY <1>1 DEF IInv, TypeOK
<1> DEFINE from == pos[t] + 1
<1>9. from \in Nat \ {0} /\ from <= Len(refs[t]) + 1 /\ from - 1 = pos[t]
  BY <1>2
<1>10. AcquireFrom(t, refs[t], from, lk)
  BY <1>1
<1> HIDE DEF lk, from
<1>11. /\ \A i \in 1 .. (from - 1) : lk[refs[t][i]].locked
       /\ \A s \in Tasks \ {t} :
            \A i \in 1 .. (pos[s] - 1), j \in 1 .. (from - 1) :
              refs[s][i] # refs[t][j]
  BY <1>6, <1>7, <1>9
<1> QED BY <1>2, <1>4, <1>5, <1>8, <1>9, <1>10, <1>11, AcquireKeepsIInv

LEMMA LeaveKeepsIInv ==
  ASSUME IInv, NEW t \in Tasks, Leave(t)
  PROVE  IInv'
<1>1. /\ refs'[t] = <<>> /\ pos'[t] = 1 /\ want'[t] = <<>>
      /\ \A s \in Tasks \ {t} :
           refs'[s] = refs[s] /\ pos'[s] = pos[s] /\ want'[s] = want[s]
  BY DEF Leave, IInv, TypeOK
<1>2. ASSUME NEW l \in Locks
      PROVE  lock'[l] = IF l \in Held(t)
                          THEN [lock[l] EXCEPT !.locked = FALSE,
                                               !.woken = lock[l].queue # <<>>]
                          ELSE lock[l]
  BY DEF Leave
<1>3. lock' \in [Locks -> LockState]
  <2>1. ASSUME NEW l \in Locks PROVE lock'[l] \in LockState
    BY <1>2 DEF IInv, TypeOK, LockState
  <2> QED BY <2>1 DEF Leave
<1>4. TypeOK'
  <2>1. /\ registry' \in [Users -> Locks \cup {NoLock}]
        /\ want' \in [Tasks -> Seq(Users)] /\ refs' \in [Tasks -> Seq(Locks)]
        /\ pos' \in [Tasks -> Nat \ {0}]
    <3>1. <<>> \in Seq(Users) /\ <<>> \in Seq(Locks) /\ 1 \in Nat \ {0}
      OBVIOUS
    <3> QED BY <3>1 DEF Leave, IInv, TypeOK
  <2>2. ASSUME NEW s \in Tasks PROVE Len(refs'[s]) = Len(want'[s])
    BY <1>1 DEF IInv, TypeOK
  <2> QED BY <1>3, <2>1, <2>2 DEF TypeOK
<1>5. ASSUME NEW l \in Locks PROVE WakeOK(l)'
  <2>1. CASE l \in Held(t)
    <3>1. lock'[l] = [lock[l] EXCEPT !.locked = FALSE,
                                     !.woken = lock[l].queue # <<>>]
      BY <1>2, <2>1
    <3>2. lock[l] \in LockState BY DEF IInv, TypeOK
    <3>3. ~lock'[l].locked BY <3>1, <3>2 DEF LockState
    <3>4. lock'[l].queue = lock[l].queue BY <3>1, <3>2 DEF LockState
    <3>5. lock'[l].woken = (lock[l].queue # <<>>) BY <3>1, <3>2 DEF LockState
    <3> QED BY <3>3, <3>4, <3>5 DEF WakeOK
  <2>2. CASE l \notin Held(t)
    BY <1>2, <2>2 DEF WakeOK, IInv
  <2> QED BY <2>1, <2>2
<1>6. ASSUME NEW s \in Tasks PROVE HeldLocked(s)'
  <2>1. CASE s = t BY <1>1, <2>1 DEF HeldLocked
  <2>2. CASE s # t
    <3>1. ASSUME NEW i \in 1 .. (pos[s] - 1)
          PROVE  lock'[refs[s][i]].locked
      <4>1. refs[s][i] \in Locks /\ lock[refs[s][i]].locked
        BY DEF IInv, TypeOK, HeldLocked
      <4>2. refs[s][i] \notin Held(t)
        BY <2>2 DEF IInv, Apart, Held
      <4> QED BY <1>2, <4>1, <4>2
    <3> QED BY <1>1, <2>2, <3>1 DEF IInv, HeldLocked
  <2> QED BY <2>1, <2>2
<1>7. ASSUME NEW s1 \in Tasks, NEW s2 \in Tasks, s1 # s2
      PROVE  Apart(s1, s2)'
  BY <1>1, <1>7 DEF IInv, Apart
<1> QED BY <1>4, <1>5, <1>6, <1>7 DEF IInv

LEMMA CleanupKeepsIInv ==
  ASSUME IInv, CleanupIdleLocks
  PROVE  IInv'
<1>1. registry' \in [Users -> Locks \cup {NoLock}]
  BY DEF CleanupIdleLocks, IInv, TypeOK
<1>2. UNCHANGED <<lock, want, refs, pos>>
  BY DEF CleanupIdleLocks
<1> QED BY <1>1, <1>2 DEF IInv, TypeOK, WakeOK, HeldLocked, Apart

\* The ids an operation locks form a sequence of users.
LEMMA WantedIds ==
  /\ \A u \in Users : <<u>> \in Seq(Users)
  /\ \A a, b \in Users : Sorted(a, b) \in Seq(Users)
BY DEF Sorted

\* IInv is inductive.
THEOREM Inductive == Spec => []IInv
<1>1. Init => IInv
  BY DEF Init, IInv, TypeOK, LockState, WakeOK, HeldLocked, Apart
<1>2. IInv /\ [Next]_vars => IInv'
  <2> SUFFICES ASSUME IInv, [Next]_vars PROVE IInv'
    OBVIOUS
  <2>1. ASSUME NEW t \in Tasks, EnterOne(t) PROVE IInv'
    BY <2>1, WantedIds, EnterKeepsIInv DEF EnterOne
  <2>2. ASSUME NEW t \in Tasks, EnterTransfer(t) PROVE IInv'
    BY <2>2, WantedIds, EnterKeepsIInv DEF EnterTransfer
  <2>3. ASSUME NEW t \in Tasks, Resume(t) PROVE IInv'
    BY <2>3, ResumeKeepsIInv
  <2>4. ASSUME NEW t \in Tasks, Leave(t) PROVE IInv'
    BY <2>4, LeaveKeepsIInv
  <2>5. CASE CleanupIdleLocks
    BY <2>5, CleanupKeepsIInv
  <2>6. CASE UNCHANGED vars
    BY <2>6 DEF vars, IInv, TypeOK, WakeOK, HeldLocked, Apart
  <2> QED BY <2>1, <2>2, <2>3, <2>4, <2>5, <2>6 DEF Next
<1> QED BY <1>1, <1>2, PTL DEF Spec

\* The registry, the lock objects and the tasks' positions keep their types
\* through every operation of balance_service.py:25-39, 75, 174, 223-228.
THEOREM TypeCorrect == Spec => []TypeOK
<1>1. IInv => TypeOK BY DEF IInv
<1> QED BY <1>1, Inductive, PTL

\* A lock object has one holder at a time, whatever the cleanup job removed
\* from the registry (balance_service.py:31-39).
THEOREM ObjectsAreExclusive == Spec => []ObjectMutex
<1>1. IInv => ObjectMutex
  BY DEF IInv, Apart, ObjectMutex, Held
<1> QED BY <1>1, Inductive, PTL

\* No waiter is forgotten: a queue on an unlocked lock has been woken.
THEOREM NoWakeupIsLost == Spec => []NoLostWakeup
<1>1. IInv => NoLostWakeup
  BY DEF IInv, WakeOK, NoLostWakeup
<1> QED BY <1>1, Inductive, PTL

-----------------------------------------------------------------------------
(* Without the cleanup job the registry never forgets a lock.              *)

\* Each task queues on the lock the registry has for the user it wants.
Registered ==
  \A t \in Tasks : \A i \in 1 .. Len(want[t]) :
    refs[t][i] = registry[want[t][i]]

\* In a process without the cleanup job (the API, api/main.py) an operation
\* on a user excludes every other operation on that user.
THEOREM UserMutexWithoutCleanup ==
  ASSUME ~Cleans
  PROVE  Spec => []UserMutex
<1>1. Init => Registered
  BY DEF Init, Registered
<1>2. IInv /\ Registered /\ [Next]_vars => Registered'
  <2> SUFFICES ASSUME IInv, Registered, [Next]_vars PROVE Registered'
    OBVIOUS
  <2>1. ASSUME NEW t \in Tasks, NEW w \in Seq(Users), Enter(t, w)
        PROVE  Registered'
    <3>1. /\ \A u \in Users : registry[u] # NoLock => registry'[u] = registry[u]
          /\ want' = [want EXCEPT ![t] = w]
          /\ refs' = [refs EXCEPT ![t] = [i \in 1 .. Len(w) |-> registry'[w[i]]]]
      BY <2>1, GetLocksEffect DEF IInv, Enter
    <3>2. ASSUME NEW s \in Tasks, NEW i \in 1 .. Len(want'[s])
          PROVE  refs'[s][i] = registry'[want'[s][i]]
      <4>1. CASE s = t BY <3>1, <4>1 DEF IInv, TypeOK
      <4>2. CASE s # t
        <5>1. want'[s] = want[s] /\ refs'[s] = refs[s]
          BY <3>1, <4>2 DEF IInv, TypeOK
        <5>2. refs[s][i] \in Locks /\ want[s][i] \in Users
          BY <5>1 DEF IInv, TypeOK
        <5>3. refs[s][i] = registry[want[s][i]]
          BY <5>1 DEF Registered
        <5> QED BY <3>1, <5>1, <5>2, <5>3, LocksAssumption
      <4> QED BY <4>1, <4>2
    <3> QED BY <3>2 DEF Registered
  <2>2. ASSUME NEW t \in Tasks, EnterOne(t) PROVE Registered'
    BY <2>1, <2>2, WantedIds DEF EnterOne
  <2>3. ASSUME NEW t \in Tasks, EnterTransfer(t) PROVE Registered'
    BY <2>1, <2>3, WantedIds DEF EnterTransfer
  <2>4. ASSUME NEW t \in Tasks, Resume(t) PROVE Registered'
    BY <2>4 DEF Resume, Registered
  <2>5. ASSUME NEW t \in Tasks, Leave(t) PROVE Registered'
    <3>1. registry' = registry /\ want'[t] = <<>>
      BY <2>5 DEF Leave, IInv, TypeOK
    <3>2. \A s \in Tasks \ {t} : want'[s] = want[s] /\ refs'[s] = refs[s]
      BY <2>5 DEF Leave, IInv, TypeOK
    <3>3. Len(want'[t]) = 0 BY <3>1
    <3> QED BY <3>1, <3>2, <3>3 DEF Registered
  <2>6. CASE CleanupIdleLocks
    BY <2>6 DEF CleanupIdleLocks
  <2>7. CASE UNCHANGED vars
    BY <2>7 DEF vars, Registered
  <2> QED BY <2>2, <2>3, <2>4, <2>5, <2>6, <2>7 DEF Next
<1>3. IInv /\ Registered => UserMutex
  <2> SUFFICES ASSUME IInv, Registered,
                      NEW s \in Tasks, NEW t \in Tasks, s # t,
                      NEW i \in 1 .. (pos[s] - 1), NEW j \in 1 .. (pos[t] - 1),
                      want[s][i] = want[t][j]
               PROVE  FALSE
    BY DEF UserMutex, LockedIds
  <2>1. i \in 1 .. Len(want[s]) /\ j \in 1 .. Len(want[t])
    BY DEF IInv, TypeOK, HeldLocked
  <2>2. refs[s][i] = refs[t][j]
    BY <2>1 DEF Registered
  <2> QED BY <2>2 DEF IInv, Apart
<1> QED BY <1>1, <1>2, <1>3, Inductive, PTL DEF Spec

-----------------------------------------------------------------------------
(* No deadlock                                                             *)

\* The ids a task wants are in ascending order.
Ascending(t) ==
  \A i, j \in 1 .. Len(want[t]) : i < j => want[t][i] < want[t][j]

\* The object that the registry, or a task, has for a user is nobody else's.
OneUser ==
  /\ \A u, v \in Users :
       registry[u] = registry[v] /\ registry[u] # NoLock => u = v
  /\ \A t \in Tasks, u \in Users : \A i \in 1 .. Len(refs[t]) :
       refs[t][i] = registry[u] => want[t][i] = u
  /\ \A s, t \in Tasks : \A i \in 1 .. Len(refs[s]), j \in 1 .. Len(refs[t]) :
       refs[s][i] = refs[t][j] => want[s][i] = want[t][j]

WaitsFor(t, l) == Waiting(t) /\ refs[t][pos[t]] = l

\* A queue is of the tasks in T that wait for the lock, each once.
Queues(q, T, l) ==
  /\ \A i \in 1 .. Len(q) : q[i] \in T /\ WaitsFor(q[i], l)
  /\ \A i, j \in 1 .. Len(q) : q[i] = q[j] => i = j
  /\ \A t \in T : WaitsFor(t, l) => \E i \in 1 .. Len(q) : q[i] = t

\* Who waits for a lock is in its queue, and what is locked has a holder.
Queued(l) ==
  /\ Queues(lock[l].queue, Tasks, l)
  /\ lock[l].locked => \E t \in Tasks : l \in Held(t)

Orderly ==
  /\ IInv /\ OneUser
  /\ \A t \in Tasks : Ascending(t)
  /\ \A l \in Locks : Queued(l)

\* Two places of one task are of different objects.
LEMMA DifferentLocks ==
  ASSUME Orderly, NEW t \in Tasks,
         NEW i \in 1 .. Len(refs[t]), NEW j \in 1 .. Len(refs[t]),
         refs[t][i] = refs[t][j]
  PROVE  i = j
<1>1. want[t][i] = want[t][j]
  BY DEF Orderly, OneUser
<1>2. /\ Len(want[t]) = Len(refs[t]) /\ want[t] \in Seq(Users)
      /\ refs[t] \in Seq(Locks)
  BY DEF Orderly, IInv, TypeOK
<1>3. want[t][i] \in Users /\ want[t][j] \in Users
  BY <1>2
<1>4. want[t][i] \in Nat /\ want[t][j] \in Nat
  BY <1>3, LocksAssumption
<1>5. ~(i < j) /\ ~(j < i)
  BY <1>1, <1>2, <1>4 DEF Orderly, Ascending
<1>6. QED
  BY <1>2, <1>5

\* The locks in lk without the task t, which has got r[1] .. r[from - 1].
Without(t, r, from, lk) ==
  /\ from <= Len(r) + 1
  /\ \A l \in Locks : Queues(lk[l].queue, Tasks \ {t}, l)
  /\ \A l \in Locks : lk[l].locked =>
       \/ \E s \in Tasks \ {t} : l \in Held(s)
       \/ \E i \in 1 .. (from - 1) : r[i] = l
  /\ \A i, j \in 1 .. Len(r) : r[i] = r[j] => i = j

\* A task that acquires locks joins the queue of the first that is not free.
LEMMA AcquireQueues ==
  ASSUME IInv, IInv', NEW t \in Tasks, NEW r \in Seq(Locks),
         NEW from \in Nat \ {0}, NEW lk \in [Locks -> LockState],
         AcquireFrom(t, r, from, lk), Without(t, r, from, lk),
         refs' = [refs EXCEPT ![t] = r], want'[t] # <<>>,
         \A s \in Tasks \ {t} : want'[s] = want[s]
  PROVE  \A l \in Locks : Queued(l)'
<1>0. /\ from <= Len(r) + 1
      /\ \A l \in Locks : Queues(lk[l].queue, Tasks \ {t}, l)
      /\ \A l \in Locks : lk[l].locked =>
           \/ \E s \in Tasks \ {t} : l \in Held(s)
           \/ \E i \in 1 .. (from - 1) : r[i] = l
      /\ \A i, j \in 1 .. Len(r) : r[i] = r[j] => i = j
  BY DEF Without
<1>1. PICK k \in from .. (Len(r) + 1) :
        /\ pos' = [pos EXCEPT ![t] = k]
        /\ lock' = [l \in Locks |->
             IF \E j \in from .. (k - 1) : r[j] = l
               THEN [lk[l] EXCEPT !.locked = TRUE]
             ELSE IF k <= Len(r) /\ r[k] = l
               THEN [lk[l] EXCEPT !.queue = Append(lk[l].queue, t)]
             ELSE lk[l]]
  BY DEF AcquireFrom
<1>2. /\ pos'[t] = k /\ refs'[t] = r
      /\ \A s \in Tasks \ {t} : pos'[s] = pos[s] /\ refs'[s] = refs[s]
  BY <1>1 DEF IInv, TypeOK
<1>3. \A s \in Tasks \ {t}, l \in Locks :
        /\ WaitsFor(s, l)' <=> WaitsFor(s, l)
        /\ Held(s)' = Held(s)
  BY <1>2 DEF WaitsFor, Waiting, Idle, Held
<1>4. \A l \in Locks : WaitsFor(t, l)' <=> k <= Len(r) /\ r[k] = l
  BY <1>2 DEF WaitsFor, Waiting, Idle
<1>5. \A l \in Locks : l \in Held(t)' <=> \E i \in 1 .. (k - 1) : r[i] = l
  BY <1>2 DEF Held
<1>6. SUFFICES ASSUME NEW l \in Locks
               PROVE  Queued(l)'
  OBVIOUS
<1> DEFINE q == lk[l].queue
<1>7. /\ lk[l] \in LockState /\ q \in Seq(Tasks) /\ Len(q) \in Nat
      /\ Queues(q, Tasks \ {t}, l)
  <2>1. lk[l] \in LockState
    OBVIOUS
  <2>2. q \in Seq(Tasks)
    BY <2>1 DEF LockState
  <2>3. Len(q) \in Nat
    BY <2>2
  <2>4. Queues(q, Tasks \ {t}, l)
    BY <1>0
  <2>5. QED
    BY <2>1, <2>2, <2>3, <2>4
<1>8. lk[l].locked => \E s \in Tasks : l \in Held(s)'
  <2>1. ASSUME NEW i \in 1 .. (from - 1), r[i] = l
        PROVE  l \in Held(t)'
    BY <1>0, <1>5, <2>1
  <2>2. QED
    BY <1>0, <1>3, <2>1
<1>9. ASSUME lock'[l].queue = q, ~WaitsFor(t, l)'
      PROVE  Queues(lock[l].queue, Tasks, l)'
  BY <1>3, <1>7, <1>9 DEF Queues
<1>10. CASE \E j \in from .. (k - 1) : r[j] = l
  <2>1. PICK j \in from .. (k - 1) : r[j] = l
    BY <1>10
  <2>2. lock'[l] = [lk[l] EXCEPT !.locked = TRUE]
    BY <1>1, <1>10
  <2>3. lock'[l].queue = q
    BY <1>7, <2>2 DEF LockState
  <2>4. j \in 1 .. (k - 1) /\ j \in 1 .. Len(r) /\ j # k
    BY <1>0, <2>1
  <2>5. ~(k <= Len(r) /\ r[k] = l)
    BY <1>0, <2>1, <2>4
  <2>6. l \in Held(t)'
    BY <1>5, <2>1, <2>4
  <2>7. QED
    BY <1>4, <1>9, <2>3, <2>5, <2>6 DEF Queued
<1>11. CASE ~(\E j \in from .. (k - 1) : r[j] = l) /\ k <= Len(r) /\ r[k] = l
  <2>1. lock'[l] = [lk[l] EXCEPT !.queue = Append(q, t)]
    BY <1>1, <1>11
  <2>2. lock'[l].queue = Append(q, t) /\ lock'[l].locked = lk[l].locked
    BY <1>7, <2>1 DEF LockState
  <2>3. /\ Len(Append(q, t)) = Len(q) + 1
        /\ \A i \in 1 .. Len(q) : Append(q, t)[i] = q[i]
        /\ Append(q, t)[Len(q) + 1] = t
    BY <1>7, AppendProperties
  <2>4. WaitsFor(t, l)'
    BY <1>4, <1>11
  <2> DEFINE n == Append(q, t)
  <2>5. \A i \in 1 .. Len(n) : i \in 1 .. Len(q) \/ i = Len(q) + 1
    BY <1>7, <2>3
  <2>6. \A i \in 1 .. Len(q) :
          q[i] \in Tasks \ {t} /\ WaitsFor(q[i], l)' /\ n[i] = q[i]
    BY <1>3, <1>7, <2>3 DEF Queues
  <2>7. \A i \in 1 .. Len(n) : n[i] \in Tasks /\ WaitsFor(n[i], l)'
    BY <2>3, <2>4, <2>5, <2>6
  <2>8. \A i, j \in 1 .. Len(n) : n[i] = n[j] => i = j
    BY <1>7, <2>3, <2>5, <2>6 DEF Queues
  <2>9. \A s \in Tasks : WaitsFor(s, l)' => \E i \in 1 .. Len(n) : n[i] = s
    <3>1. \A i \in 1 .. Len(q) : i \in 1 .. Len(n)
      BY <1>7, <2>3
    <3>2. Len(q) + 1 \in 1 .. Len(n)
      BY <1>7, <2>3
    <3>3. QED
      BY <1>3, <1>7, <2>3, <2>6, <3>1, <3>2 DEF Queues
  <2>10. Queues(n, Tasks, l)'
    BY <2>2, <2>7, <2>8, <2>9 DEF Queues
  <2>11. QED
    BY <1>8, <2>2, <2>10 DEF Queued
<1>12. CASE /\ ~(\E j \in from .. (k - 1) : r[j] = l)
            /\ ~(k <= Len(r) /\ r[k] = l)
  <2>1. lock'[l] = lk[l]
    BY <1>1, <1>12
  <2>2. QED
    BY <1>4, <1>8, <1>9, <1>12, <2>1 DEF Queued
<1>13. QED
  BY <1>10, <1>11, <1>12

\* An entry that is created gets an object that nothing refers to.
LEMMA NewEntries ==
  ASSUME Orderly, NEW w \in Seq(Users), GetLocks(w)
  PROVE  /\ \A u \in Users :
              \/ registry'[u] = registry[u]
              \/ registry'[u] \in Locks \ InUse
         /\ \A u, v \in Users :
              registry'[u] = registry'[v] /\ registry'[u] # NoLock => u = v
<1>1. PICK f \in [Missing(w) -> Locks \ InUse] :
        /\ \A u, v \in Missing(w) : f[u] = f[v] => u = v
        /\ registry' = [u \in Users |->
                          IF u \in Missing(w) THEN f[u] ELSE registry[u]]
  BY DEF GetLocks
<1>2. \A u \in Users :
        /\ u \in Missing(w) => registry'[u] = f[u] /\ f[u] \in Locks \ InUse
        /\ u \notin Missing(w) => registry'[u] = registry[u]
        /\ registry[u] \in InUse
  BY <1>1 DEF InUse
<1>3. \A u, v \in Users :
        registry'[u] = registry'[v] /\ registry'[u] # NoLock => u = v
  <2>1. SUFFICES ASSUME NEW u \in Users, NEW v \in Users,
                        registry'[u] = registry'[v], registry'[u] # NoLock
                 PROVE  u = v
    OBVIOUS
  <2>2. CASE u \in Missing(w) /\ v \in Missing(w)
    BY <1>1, <1>2, <2>1, <2>2
  <2>3. CASE u \notin Missing(w) /\ v \notin Missing(w)
    BY <1>2, <2>1, <2>3 DEF Orderly, OneUser
  <2>4. QED
    BY <1>2, <2>1, <2>2, <2>3
<1>4. QED
  BY <1>2, <1>3

LEMMA EnterOrderly ==
  ASSUME Orderly, NEW t \in Tasks, NEW w \in Seq(Users), w # <<>>,
         \A i, j \in 1 .. Len(w) : i < j => w[i] < w[j],
         Enter(t, w)
  PROVE  Orderly'
<1> DEFINE r == [i \in 1 .. Len(w) |-> registry'[w[i]]]
<1>1. IInv /\ IInv'
  BY EnterKeepsIInv DEF Orderly
<1>2. r \in Seq(Locks) /\ Len(r) = Len(w) /\ Len(w) \in Nat
  BY GetLocksEffect DEF Orderly, IInv, Enter
<1>3. /\ refs' = [refs EXCEPT ![t] = r] /\ want' = [want EXCEPT ![t] = w]
      /\ AcquireFrom(t, r, 1, lock) /\ GetLocks(w) /\ Idle(t)
  BY DEF Enter
<1>4. /\ refs'[t] = r /\ want'[t] = w
      /\ \A s \in Tasks \ {t} : refs'[s] = refs[s] /\ want'[s] = want[s]
  BY <1>1, <1>3 DEF IInv, TypeOK
<1>5. /\ \A u \in Users :
           registry'[u] = registry[u] \/ registry'[u] \in Locks \ InUse
      /\ \A u, v \in Users :
           registry'[u] = registry'[v] /\ registry'[u] # NoLock => u = v
  BY <1>3, NewEntries
<1>6. \A i \in 1 .. Len(r) :
        r[i] = registry'[w[i]] /\ r[i] # NoLock /\ w[i] \in Users
  <2>1. ASSUME NEW i \in 1 .. Len(r)
        PROVE  r[i] \in Locks /\ r[i] = registry'[w[i]] /\ w[i] \in Users
    BY <1>2
  <2>2. QED
    BY <2>1, LocksAssumption
<1> HIDE DEF r
<1>7. \A s \in Tasks \ {t} : \A i \in 1 .. Len(refs[s]) :
        /\ refs[s][i] \in InUse
        /\ \A u \in Users : refs[s][i] = registry'[u] => want[s][i] = u
  <2>1. ASSUME NEW s \in Tasks \ {t}, NEW i \in 1 .. Len(refs[s])
        PROVE  refs[s][i] \in InUse
    BY DEF InUse
  <2>2. QED
    BY <1>5, <2>1 DEF Orderly, OneUser
<1>8. OneUser'
  <2>1. \A i \in 1 .. Len(r), u \in Users : r[i] = registry'[u] => w[i] = u
    BY <1>5, <1>6
  <2>2. ASSUME NEW s1 \in Tasks, NEW s2 \in Tasks,
               NEW i \in 1 .. Len(refs'[s1]), NEW j \in 1 .. Len(refs'[s2]),
               refs'[s1][i] = refs'[s2][j]
        PROVE  want'[s1][i] = want'[s2][j]
    <3>1. CASE s1 # t /\ s2 # t
      BY <1>4, <2>2, <3>1 DEF Orderly, OneUser
    <3>2. CASE s1 # t /\ s2 = t
      <4>1. /\ s1 \in Tasks \ {t} /\ i \in 1 .. Len(refs[s1])
            /\ j \in 1 .. Len(r) /\ refs[s1][i] = r[j]
        BY <1>4, <2>2, <3>2
      <4>2. refs[s1][i] = registry'[w[j]] /\ w[j] \in Users
        BY <1>6, <4>1
      <4>3. want[s1][i] = w[j]
        BY <1>7, <4>1, <4>2
      <4>4. QED
        BY <1>4, <3>2, <4>1, <4>3
    <3>3. CASE s1 = t /\ s2 # t
      <4>1. /\ s2 \in Tasks \ {t} /\ j \in 1 .. Len(refs[s2])
            /\ i \in 1 .. Len(r) /\ refs[s2][j] = r[i]
        BY <1>4, <2>2, <3>3
      <4>2. refs[s2][j] = registry'[w[i]] /\ w[i] \in Users
        BY <1>6, <4>1
      <4>3. want[s2][j] = w[i]
        BY <1>7, <4>1, <4>2
      <4>4. QED
        BY <1>4, <3>3, <4>1, <4>3
    <3>4. CASE s1 = t /\ s2 = t
      <4>1. i \in 1 .. Len(r) /\ j \in 1 .. Len(r) /\ r[i] = r[j]
        BY <1>4, <2>2, <3>4
      <4>2. w[i] = w[j]
        BY <1>6, <2>1, <4>1
      <4>3. QED
        BY <1>4, <3>4, <4>2
    <3>5. QED
      BY <3>1, <3>2, <3>3, <3>4
  <2>3. \A s \in Tasks, u \in Users : \A i \in 1 .. Len(refs'[s]) :
          refs'[s][i] = registry'[u] => want'[s][i] = u
    BY <1>4, <1>7, <2>1
  <2>4. QED
    BY <1>5, <2>2, <2>3 DEF OneUser
<1>9. \A s \in Tasks : Ascending(s)'
  BY <1>4 DEF Orderly, Ascending
<1>10. \A l \in Locks : ~WaitsFor(t, l)
  BY <1>3 DEF WaitsFor, Waiting, Idle
<1>11. Held(t) = {}
  <2>1. Len(refs[t]) = Len(want[t]) /\ Len(want[t]) = 0
    BY <1>1, <1>3 DEF IInv, TypeOK, Idle
  <2>2. pos[t] \in Nat /\ pos[t] <= 1
    BY <1>1, <2>1 DEF IInv, TypeOK, HeldLocked
  <2>3. QED
    BY <2>2 DEF Held
<1>12. \A l \in Locks : Queues(lock[l].queue, Tasks \ {t}, l)
  BY <1>10 DEF Orderly, Queued, Queues
<1>13. \A l \in Locks :
         lock[l].locked => \E s \in Tasks \ {t} : l \in Held(s)
  BY <1>11 DEF Orderly, Queued
<1>14. \A i, j \in 1 .. Len(r) : r[i] = r[j] => i = j
  <2>1. SUFFICES ASSUME NEW i \in 1 .. Len(r), NEW j \in 1 .. Len(r),
                        r[i] = r[j]
                 PROVE  i = j
    OBVIOUS
  <2>2. /\ w[i] \in Users /\ w[j] \in Users
        /\ registry'[w[i]] = registry'[w[j]] /\ registry'[w[i]] # NoLock
    BY <1>6, <2>1
  <2>3. w[i] = w[j] /\ w[i] \in Nat
    BY <1>5, <2>2, LocksAssumption
  <2>4. ~(i < j) /\ ~(j < i)
    BY <1>2, <2>3
  <2>5. QED
    BY <1>2, <2>4
<1>15. lock \in [Locks -> LockState] /\ 1 \in Nat \ {0} /\ 1 <= Len(r) + 1
  BY <1>1, <1>2 DEF IInv, TypeOK
<1>16. \A l \in Locks : Queued(l)'
  <2>1. Without(t, r, 1, lock)
    BY <1>12, <1>13, <1>14, <1>15 DEF Without
  <2>2. QED
    BY <1>1, <1>2, <1>3, <1>4, <1>15, <2>1, AcquireQueues
<1>17. QED
  BY <1>1, <1>8, <1>9, <1>16 DEF Orderly

LEMMA ResumeOrderly ==
  ASSUME Orderly, NEW t \in Tasks, Resume(t)
  PROVE  Orderly'
<1> DEFINE l0 == refs[t][pos[t]]
           lk == [lock EXCEPT ![l0] = [locked |-> TRUE, woken |-> FALSE,
                                       queue |-> Tail(lock[l0].queue)]]
           from == pos[t] + 1
<1>1. IInv /\ IInv'
  BY ResumeKeepsIInv DEF Orderly
<1>2. /\ Waiting(t) /\ lock[l0].woken /\ Head(lock[l0].queue) = t
      /\ AcquireFrom(t, refs[t], from, lk)
      /\ UNCHANGED <<registry, want, refs>>
  BY DEF Resume
<1>3. /\ refs[t] \in Seq(Locks) /\ pos[t] \in 1 .. Len(refs[t])
      /\ l0 \in Locks /\ want[t] # <<>>
  BY <1>1, <1>2 DEF IInv, TypeOK, Waiting, Idle
<1>4. /\ lock[l0] \in LockState /\ lock[l0].queue \in Seq(Tasks)
      /\ lock[l0].queue # <<>>
  <2>1. lock[l0] \in LockState
    BY <1>1, <1>3 DEF IInv, TypeOK
  <2>2. QED
    BY <1>1, <1>2, <1>3, <2>1 DEF IInv, WakeOK, LockState
<1>5. /\ Tail(lock[l0].queue) \in Seq(Tasks)
      /\ Len(Tail(lock[l0].queue)) = Len(lock[l0].queue) - 1
      /\ \A i \in 1 .. Len(Tail(lock[l0].queue)) :
           Tail(lock[l0].queue)[i] = lock[l0].queue[i + 1]
  BY <1>4, HeadTailProperties
<1>6. /\ lk \in [Locks -> LockState]
      /\ lk[l0].queue = Tail(lock[l0].queue)
      /\ \A l \in Locks \ {l0} : lk[l] = lock[l]
  BY <1>1, <1>3, <1>5 DEF IInv, TypeOK, LockState
<1>7. \A l \in Locks : WaitsFor(t, l) <=> l = l0
  BY <1>2 DEF WaitsFor
<1>8. ASSUME NEW l \in Locks
      PROVE  Queues(lk[l].queue, Tasks \ {t}, l)
  <2>1. Queues(lock[l].queue, Tasks, l)
    BY DEF Orderly, Queued
  <2>2. CASE l # l0
    BY <1>6, <1>7, <2>1, <2>2 DEF Queues
  <2>3. CASE l = l0
    <3> DEFINE q == lock[l0].queue
           n == Len(Tail(q))
    <3>1. /\ Len(q) \in Nat \ {0} /\ n = Len(q) - 1 /\ 1 \in 1 .. Len(q)
          /\ Queues(q, Tasks, l0)
      BY <1>4, <1>5, <2>1, <2>3
    <3>2. q[1] = t
      BY <1>2, <1>4
    <3>3. \A i \in 1 .. n :
            /\ i + 1 \in 1 .. Len(q) /\ i + 1 # 1 /\ i \in Nat
            /\ Tail(q)[i] = q[i + 1]
      BY <1>5, <3>1
    <3> HIDE DEF q, n
    <3>4. \A i \in 1 .. n :
            Tail(q)[i] \in Tasks \ {t} /\ WaitsFor(Tail(q)[i], l0)
      BY <3>1, <3>2, <3>3 DEF Queues
    <3>5. \A i, j \in 1 .. n : Tail(q)[i] = Tail(q)[j] => i = j
      <4>1. \A i, j \in 1 .. n : q[i + 1] = q[j + 1] => i + 1 = j + 1
        BY <3>1, <3>3 DEF Queues
      <4>2. QED
        BY <3>3, <4>1
    <3>6. ASSUME NEW s \in Tasks \ {t}, WaitsFor(s, l0)
          PROVE  \E i \in 1 .. n : Tail(q)[i] = s
      <4>1. PICK i \in 1 .. Len(q) : q[i] = s
        BY <3>1, <3>6 DEF Queues
      <4>2. i # 1
        BY <3>2, <4>1
      <4>3. i - 1 \in 1 .. n /\ i - 1 + 1 = i
        BY <3>1, <4>1, <4>2
      <4>4. QED
        BY <3>3, <4>1, <4>3
    <3>7. lk[l].queue = Tail(q)
      BY <1>6, <2>3 DEF q
    <3>8. QED
      BY <2>3, <3>4, <3>5, <3>6, <3>7 DEF Queues, n
  <2>4. QED
    BY <2>2, <2>3
<1>9. ASSUME NEW l \in Locks, lk[l].locked
      PROVE  \/ \E s \in Tasks \ {t} : l \in Held(s)
             \/ \E i \in 1 .. (from - 1) : refs[t][i] = l
  <2>1. CASE l = l0
    BY <1>3, <2>1
  <2>2. CASE l # l0
    <3>1. PICK s \in Tasks : l \in Held(s)
      BY <1>6, <1>9, <2>2 DEF Orderly, Queued
    <3>2. s = t => \E i \in 1 .. (from - 1) : refs[t][i] = l
      BY <1>3, <3>1 DEF Held
    <3>3. QED
      BY <3>1, <3>2
  <2>3. QED
    BY <2>1, <2>2
<1>10. \A i, j \in 1 .. Len(refs[t]) : refs[t][i] = refs[t][j] => i = j
  BY DifferentLocks
<1>11. /\ from \in Nat \ {0} /\ from <= Len(refs[t]) + 1
       /\ refs' = [refs EXCEPT ![t] = refs[t]] /\ want'[t] # <<>>
       /\ \A s \in Tasks \ {t} : want'[s] = want[s]
  BY <1>1, <1>2, <1>3 DEF IInv, TypeOK
<1>12. AcquireFrom(t, refs[t], from, lk)
  BY <1>2
<1>13. Without(t, refs[t], from, lk)
  BY <1>8, <1>9, <1>10, <1>11 DEF Without
<1> HIDE DEF l0, lk, from
<1>14. \A l \in Locks : Queued(l)'
  BY <1>1, <1>3, <1>6, <1>11, <1>12, <1>13, AcquireQueues
<1>15. OneUser' /\ \A s \in Tasks : Ascending(s)'
  BY <1>2 DEF Orderly, OneUser, Ascending
<1>16. QED
  BY <1>1, <1>14, <1>15 DEF Orderly

LEMMA LeaveOrderly ==
  ASSUME Orderly, NEW t \in Tasks, Leave(t)
  PROVE  Orderly'
<1>1. IInv /\ IInv'
  BY LeaveKeepsIInv DEF Orderly
<1>2. /\ refs'[t] = <<>> /\ pos'[t] = 1 /\ want'[t] = <<>>
      /\ \A s \in Tasks \ {t} :
           refs'[s] = refs[s] /\ pos'[s] = pos[s] /\ want'[s] = want[s]
      /\ registry' = registry /\ Inside(t)
  BY <1>1 DEF Leave, IInv, TypeOK
<1>3. Len(refs'[t]) = 0 /\ Len(want'[t]) = 0
  BY <1>2
<1>4. OneUser' /\ \A s \in Tasks : Ascending(s)'
  <2>1. \A s \in Tasks : Ascending(s)'
    BY <1>2, <1>3 DEF Orderly, Ascending
  <2>2. \A s \in Tasks : \A i \in 1 .. Len(refs'[s]) :
          s # t /\ refs'[s] = refs[s] /\ want'[s] = want[s]
    BY <1>2, <1>3
  <2>3. QED
    BY <1>2, <2>1, <2>2 DEF Orderly, OneUser
<1>5. ASSUME NEW l \in Locks
      PROVE  /\ lock'[l].queue = lock[l].queue
             /\ lock'[l].locked => lock[l].locked /\ l \notin Held(t)
  <2>1. lock[l] \in LockState
    BY <1>1 DEF IInv, TypeOK
  <2>2. lock'[l] = IF l \in Held(t)
                     THEN [lock[l] EXCEPT !.locked = FALSE,
                                          !.woken = lock[l].queue # <<>>]
                     ELSE lock[l]
    BY DEF Leave
  <2>3. QED
    BY <2>1, <2>2 DEF LockState
<1>6. \A s \in Tasks, l \in Locks : WaitsFor(s, l)' <=> WaitsFor(s, l)
  <2>1. \A l \in Locks : ~WaitsFor(t, l) /\ ~WaitsFor(t, l)'
    BY <1>1, <1>2 DEF WaitsFor, Waiting, Inside, Idle, IInv, TypeOK
  <2>2. \A s \in Tasks \ {t}, l \in Locks : WaitsFor(s, l)' <=> WaitsFor(s, l)
    BY <1>2 DEF WaitsFor, Waiting, Idle
  <2>3. QED
    BY <2>1, <2>2
<1>7. ASSUME NEW l \in Locks
      PROVE  Queued(l)'
  <2>1. Queues(lock[l].queue, Tasks, l)'
    BY <1>5, <1>6 DEF Orderly, Queued, Queues
  <2>2. ASSUME lock'[l].locked
        PROVE  \E s \in Tasks : l \in Held(s)'
    <3>1. PICK s \in Tasks : l \in Held(s)
      BY <1>5, <2>2 DEF Orderly, Queued
    <3>2. s # t
      BY <1>5, <2>2, <3>1
    <3>3. Held(s)' = Held(s)
      BY <1>2, <3>2 DEF Held
    <3>4. QED
      BY <3>1, <3>3
  <2>3. QED
    BY <2>1, <2>2 DEF Queued
<1>8. QED
  BY <1>1, <1>4, <1>7 DEF Orderly

LEMMA CleanupOrderly ==
  ASSUME Orderly, CleanupIdleLocks
  PROVE  Orderly'
<1>1. IInv'
  BY CleanupKeepsIInv DEF Orderly
<1>2. UNCHANGED <<lock, want, refs, pos>>
  BY DEF CleanupIdleLocks
<1>3. \A u \in Users : registry'[u] = registry[u] \/ registry'[u] = NoLock
  BY DEF CleanupIdleLocks
<1>4. \A t \in Tasks : \A i \in 1 .. Len(refs[t]) : refs[t][i] # NoLock
  <2>1. \A t \in Tasks : \A i \in 1 .. Len(refs[t]) : refs[t][i] \in Locks
    BY DEF Orderly, IInv, TypeOK
  <2>2. QED
    BY <2>1, LocksAssumption
<1>5. OneUser'
  BY <1>2, <1>3, <1>4 DEF Orderly, OneUser
<1>6. \A t \in Tasks : Ascending(t)'
  BY <1>2 DEF Orderly, Ascending
<1>7. ASSUME NEW l \in Locks
      PROVE  Queued(l)'
  <2>1. \A t \in Tasks :
          (WaitsFor(t, l)' <=> WaitsFor(t, l)) /\ Held(t)' = Held(t)
    BY <1>2 DEF WaitsFor, Waiting, Idle, Held
  <2>2. QED
    BY <1>2, <2>1 DEF Orderly, Queued, Queues
<1>8. QED
  BY <1>1, <1>5, <1>6, <1>7 DEF Orderly

\* A set of natural numbers that is not empty has a least element.
LEMMA LeastElement ==
  ASSUME NEW S \in SUBSET Nat, S # {}
  PROVE  \E m \in S : \A i \in S : m <= i
<1>1. OpToRel(<, Nat) = {r \in Nat \X Nat : r[1] < r[2]}
  BY DEF OpToRel
<1>2. PICK m \in S : \A i \in S : ~ (<<i, m>> \in OpToRel(<, Nat))
  BY WFMin, NatLessThanWellFounded
<1>3. ASSUME NEW i \in S
      PROVE  ~ (i < m)
  BY <1>1, <1>2
<1>4. QED
  BY <1>3

\* The id a waiting task is at.
WantedBy(t) == want[t][pos[t]]

\* The tasks that wait for a greater id than t.
Beyond(t) == {s \in Tasks : Waiting(s) /\ WantedBy(t) < WantedBy(s)}

\* Who holds what a task waits for is inside, can go on, or waits for more.
LEMMA HolderIsFurther ==
  ASSUME Orderly, NEW t \in Tasks, Waiting(t), ~SomebodyGoesOn
  PROVE  \E s \in Beyond(t) : TRUE
<1> DEFINE l == refs[t][pos[t]]
           q == lock[l].queue
<1>1. /\ pos[t] \in 1 .. Len(refs[t]) /\ refs[t] \in Seq(Locks)
      /\ want[t] \in Seq(Users) /\ Len(want[t]) = Len(refs[t])
  BY DEF Waiting, Orderly, IInv, TypeOK
<1>2. l \in Locks
  BY <1>1
<1>3. q \in Seq(Tasks) /\ Queues(q, Tasks, l) /\ WakeOK(l)
  <2>1. lock[l] \in LockState
    BY <1>2 DEF Orderly, IInv, TypeOK
  <2>2. q \in Seq(Tasks)
    BY <2>1 DEF LockState
  <2>3. Queues(q, Tasks, l) /\ WakeOK(l)
    BY <1>2 DEF Orderly, Queued, IInv
  <2>4. QED
    BY <2>2, <2>3
<1>4. Len(q) \in Nat \ {0} /\ q # <<>>
  <2>1. WaitsFor(t, l)
    BY DEF WaitsFor
  <2>2. PICK i \in 1 .. Len(q) : q[i] = t
    BY <1>3, <2>1 DEF Queues
  <2>3. QED
    BY <1>3, <2>2
<1>5. ~lock[l].woken
  <2>1. SUFFICES ASSUME lock[l].woken
                 PROVE  FALSE
    OBVIOUS
  <2>2. 1 \in 1 .. Len(q) /\ Head(q) = q[1]
    BY <1>3, <1>4
  <2>3. q[1] \in Tasks /\ WaitsFor(q[1], l)
    BY <1>3, <2>2 DEF Queues
  <2>4. CanResume(q[1])
    BY <2>1, <2>2, <2>3 DEF CanResume, WaitsFor
  <2>5. QED
    BY <2>3, <2>4 DEF SomebodyGoesOn
<1>6. PICK s \in Tasks : l \in Held(s)
  <2>1. lock[l].locked
    BY <1>3, <1>4, <1>5 DEF WakeOK
  <2>2. QED
    BY <1>2, <2>1 DEF Orderly, Queued
<1>7. PICK i \in 1 .. (pos[s] - 1) : refs[s][i] = l
  BY <1>6 DEF Held
<1>8. /\ pos[s] \in Nat /\ Len(refs[s]) \in Nat /\ Len(want[s]) = Len(refs[s])
      /\ want[s] \in Seq(Users) /\ pos[s] <= Len(refs[s]) + 1
  <2>1. refs[s] \in Seq(Locks) /\ Len(refs[s]) \in Nat
    BY DEF Orderly, IInv, TypeOK
  <2>2. QED
    BY <2>1 DEF Orderly, IInv, TypeOK, HeldLocked
<1>9. Waiting(s)
  <2>1. ~Inside(s)
    BY DEF SomebodyGoesOn
  <2>2. Len(want[s]) # 0
    BY <1>7, <1>8
  <2>3. ~Idle(s)
    BY <2>2 DEF Idle
  <2>4. QED
    BY <1>8, <2>1, <2>3 DEF Inside, Waiting
<1>10. i \in 1 .. Len(refs[s]) /\ pos[s] \in 1 .. Len(want[s]) /\ i < pos[s]
  BY <1>7, <1>8, <1>9 DEF Waiting
<1>11. want[s][i] = WantedBy(t)
  BY <1>1, <1>7, <1>10 DEF Orderly, OneUser, WantedBy
<1>12. want[s][i] < WantedBy(s)
  BY <1>8, <1>10 DEF Orderly, Ascending, WantedBy
<1>13. QED
  BY <1>9, <1>11, <1>12 DEF Beyond

\* The waiting task with the greatest id would find nobody further.
LEMMA OrderlyGoesOn ==
  ASSUME Orderly
  PROVE  SomebodyGoesOn
<1>1. SUFFICES ASSUME ~SomebodyGoesOn
               PROVE  FALSE
  OBVIOUS
<1>2. PICK t0 \in Tasks : Waiting(t0)
  BY <1>1 DEF SomebodyGoesOn
<1> DEFINE Sizes == {n \in Nat : \E t \in Tasks :
                       Waiting(t) /\ n = Cardinality(Beyond(t))}
<1>3. ASSUME NEW t \in Tasks
      PROVE  IsFiniteSet(Beyond(t)) /\ Cardinality(Beyond(t)) \in Nat
  <2>1. Beyond(t) \in SUBSET Tasks
    BY DEF Beyond
  <2>2. IsFiniteSet(Beyond(t))
    BY <2>1, FS_Subset, LocksAssumption
  <2>3. QED
    BY <2>2, FS_CardinalityType
<1>4. Cardinality(Beyond(t0)) \in Sizes
  BY <1>2, <1>3
<1>5. PICK n \in Sizes : \A m \in Sizes : n <= m
  BY <1>4, LeastElement
<1>6. PICK t \in Tasks : Waiting(t) /\ n = Cardinality(Beyond(t))
  BY <1>5
<1>7. PICK s \in Beyond(t) : TRUE
  BY <1>1, <1>6, HolderIsFurther
<1>8. s \in Tasks /\ Waiting(s) /\ WantedBy(t) < WantedBy(s)
  BY <1>7 DEF Beyond
<1>9. \A r \in Tasks : Waiting(r) => WantedBy(r) \in Nat
  <2>1. SUFFICES ASSUME NEW r \in Tasks, Waiting(r)
                 PROVE  WantedBy(r) \in Nat
    OBVIOUS
  <2>2. /\ want[r] \in Seq(Users) /\ pos[r] \in Nat \ {0}
        /\ Len(want[r]) = Len(refs[r]) /\ pos[r] <= Len(refs[r])
    BY <2>1 DEF Orderly, IInv, TypeOK, Waiting
  <2>3. want[r][pos[r]] \in Users
    BY <2>2
  <2>4. QED
    BY <2>3, LocksAssumption DEF WantedBy
<1>10. Beyond(s) \in SUBSET Beyond(t) /\ s \notin Beyond(s)
  BY <1>6, <1>8, <1>9 DEF Beyond
<1>11. /\ Cardinality(Beyond(s)) <= Cardinality(Beyond(t))
       /\ Cardinality(Beyond(s)) # Cardinality(Beyond(t))
  BY <1>3, <1>6, <1>7, <1>10, FS_Subset
<1>12. Cardinality(Beyond(s)) \in Sizes
  BY <1>3, <1>8
<1>13. QED
  BY <1>3, <1>5, <1>6, <1>8, <1>11, <1>12

\* The ids that the operations lock are sorted, and each is there once.
LEMMA WantedInOrder ==
  ASSUME NEW a \in Users, NEW b \in Users, a # b
  PROVE  /\ Sorted(a, b) # <<>>
         /\ \A i, j \in 1 .. Len(Sorted(a, b)) :
              i < j => Sorted(a, b)[i] < Sorted(a, b)[j]
<1>1. a \in Nat /\ b \in Nat
  BY LocksAssumption
<1>2. CASE a < b
  BY <1>1, <1>2 DEF Sorted
<1>3. CASE ~(a < b)
  BY <1>1, <1>3 DEF Sorted
<1>4. QED
  BY <1>2, <1>3

\* No deadlock, with any users, tasks and locks, whether or not the cleanup
\* job runs.
THEOREM NoDeadlock == Spec => []SomebodyGoesOn
<1>1. Init /\ IInv => Orderly
  <2>1. SUFFICES ASSUME Init, IInv
                 PROVE  Orderly
    OBVIOUS
  <2>2. \A t \in Tasks : /\ want[t] = <<>> /\ refs[t] = <<>>
                         /\ Len(want[t]) = 0 /\ Len(refs[t]) = 0
    BY <2>1 DEF Init
  <2>3. OneUser /\ \A t \in Tasks : Ascending(t)
    BY <2>1, <2>2 DEF Init, OneUser, Ascending
  <2>4. ASSUME NEW l \in Locks
        PROVE  Queued(l)
    <3>1. /\ ~lock[l].locked /\ lock[l].queue = <<>>
          /\ Len(lock[l].queue) = 0
      BY <2>1 DEF Init
    <3>2. \A t \in Tasks : ~WaitsFor(t, l)
      BY <2>2 DEF WaitsFor, Waiting, Idle
    <3>3. QED
      BY <3>1, <3>2 DEF Queued, Queues
  <2>5. QED
    BY <2>1, <2>3, <2>4 DEF Orderly
<1>2. Orderly /\ IInv' /\ [Next]_vars => Orderly'
  <2>1. SUFFICES ASSUME Orderly, IInv', [Next]_vars
                 PROVE  Orderly'
    OBVIOUS
  <2>2. ASSUME NEW t \in Tasks, EnterOne(t)
        PROVE  Orderly'
    <3>1. PICK u \in Users : Enter(t, <<u>>)
      BY <2>2 DEF EnterOne
    <3>2. /\ <<u>> \in Seq(Users) /\ <<u>> # <<>>
          /\ \A i, j \in 1 .. Len(<<u>>) : i < j => <<u>>[i] < <<u>>[j]
      OBVIOUS
    <3>3. QED
      BY <2>1, <3>1, <3>2, EnterOrderly
  <2>3. ASSUME NEW t \in Tasks, EnterTransfer(t)
        PROVE  Orderly'
    <3>1. PICK a \in Users, b \in Users : a # b /\ Enter(t, Sorted(a, b))
      BY <2>3 DEF EnterTransfer
    <3>2. Sorted(a, b) \in Seq(Users)
      BY DEF Sorted
    <3>3. QED
      BY <2>1, <3>1, <3>2, WantedInOrder, EnterOrderly
  <2>4. ASSUME NEW t \in Tasks, Resume(t)
        PROVE  Orderly'
    BY <2>1, <2>4, ResumeOrderly
  <2>5. ASSUME NEW t \in Tasks, Leave(t)
        PROVE  Orderly'
    BY <2>1, <2>5, LeaveOrderly
  <2>6. CASE CleanupIdleLocks
    BY <2>1, <2>6, CleanupOrderly
  <2>7. CASE UNCHANGED vars
    <3>1. UNCHANGED <<registry, lock, want, refs, pos>>
      BY <2>7 DEF vars
    <3>2. OneUser' /\ \A t \in Tasks : Ascending(t)'
      BY <2>1, <3>1 DEF Orderly, OneUser, Ascending
    <3>3. \A t \in Tasks, l \in Locks :
            (WaitsFor(t, l)' <=> WaitsFor(t, l)) /\ Held(t)' = Held(t)
      BY <3>1 DEF WaitsFor, Waiting, Idle, Held
    <3>4. \A l \in Locks : Queued(l)'
      BY <2>1, <3>1, <3>3 DEF Orderly, Queued, Queues
    <3>5. QED
      BY <2>1, <3>2, <3>4 DEF Orderly
  <2>8. QED
    BY <2>1, <2>2, <2>3, <2>4, <2>5, <2>6, <2>7 DEF Next
<1>3. Orderly => SomebodyGoesOn
  BY OrderlyGoesOn
<1>4. QED
  BY <1>1, <1>2, <1>3, Inductive, PTL DEF Spec
=============================================================================
