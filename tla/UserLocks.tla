----------------------------- MODULE UserLocks -----------------------------
(***************************************************************************)
(* The per-user asyncio locks of BalanceService (services/                 *)
(* balance_service.py): a registry `_locks' from user ids to lock objects, *)
(* filled on demand by `_get_lock', emptied of idle entries every five     *)
(* minutes by the scheduled `cleanup_balance_locks' job.                   *)
(*                                                                         *)
(* A step is what one asyncio task does between two suspension points, so  *)
(* the interleavings are those of the event loop of ONE process.  The      *)
(* objects follow asyncio.Lock: release() clears `locked' and marks the    *)
(* first waiter as woken, but the lock is taken only when that waiter runs *)
(* again; a newcomer never overtakes a waiter.                             *)
(***************************************************************************)
EXTENDS Integers, Sequences, FiniteSets

CONSTANTS Users,    \* user ids: integers, `transfer' sorts them
          Tasks,    \* asyncio tasks: update handlers and scheduled jobs
          Locks,    \* a pool of lock objects; an unreferenced one is reused
          NoLock,   \* "no entry" in the registry
          Cleans    \* TRUE in the bot process, which schedules the cleanup
                    \* job; FALSE in the API process, which never runs it

ASSUME LocksAssumption ==
  /\ Users \subseteq Nat /\ IsFiniteSet(Tasks)
  /\ NoLock \notin Locks
  /\ Cleans \in BOOLEAN

VARIABLES registry, \* _locks: user id -> lock object
          lock,     \* the state of every lock object
          want,     \* per task: ids to lock, in acquisition order; <<>> idle
          refs,     \* per task: the lock objects _get_lock returned for them
          pos       \* per task: index of the lock it waits for; all the
                    \* earlier ones are held, Len(refs) + 1 is "all held"

vars == <<registry, lock, want, refs, pos>>

LockState == [locked : BOOLEAN, queue : Seq(Tasks), woken : BOOLEAN]

TypeOK ==
  /\ registry \in [Users -> Locks \cup {NoLock}]
  /\ lock \in [Locks -> LockState]
  /\ want \in [Tasks -> Seq(Users)]
  /\ refs \in [Tasks -> Seq(Locks)]
  /\ pos \in [Tasks -> Nat \ {0}]
  /\ \A t \in Tasks : Len(refs[t]) = Len(want[t])

Init ==
  /\ registry = [u \in Users |-> NoLock]
  /\ lock = [l \in Locks |-> [locked |-> FALSE, queue |-> <<>>,
                              woken |-> FALSE]]
  /\ want = [t \in Tasks |-> <<>>]
  /\ refs = [t \in Tasks |-> <<>>]
  /\ pos = [t \in Tasks |-> 1]

-----------------------------------------------------------------------------
(* asyncio.Lock, as BalanceService uses it.                                *)

\* Mutated `Free': a newcomer overtakes a woken waiter.
FreeOvertaking(l) == ~lock[l].locked

\* The condition under which acquire() returns without suspending.
Free(l) == ~lock[l].locked /\ lock[l].queue = <<>>

\* The locks a task has acquired and not released.
Held(t) == {refs[t][i] : i \in 1 .. (pos[t] - 1)}

Idle(t) == want[t] = <<>>
Inside(t) == ~Idle(t) /\ pos[t] = Len(refs[t]) + 1
Waiting(t) == ~Idle(t) /\ pos[t] <= Len(refs[t])

\* Nested `async with' over the locks r[from], r[from + 1], ...: take the
\* free ones without suspending, queue up behind the first that is not.
AcquireFrom(t, r, from, lk) ==
  \E k \in from .. (Len(r) + 1) :
    /\ \A j \in from .. (k - 1) : Free(r[j])
    /\ k <= Len(r) => ~Free(r[k])
    /\ pos' = [pos EXCEPT ![t] = k]
    /\ lock' = [l \in Locks |->
         IF \E j \in from .. (k - 1) : r[j] = l
           THEN [lk[l] EXCEPT !.locked = TRUE]
         ELSE IF k <= Len(r) /\ r[k] = l
           THEN [lk[l] EXCEPT !.queue = Append(lk[l].queue, t)]
         ELSE lk[l]]

-----------------------------------------------------------------------------
(* The operations of BalanceService.                                       *)

\* Lock objects something still refers to: the others are garbage.
InUse == {registry[u] : u \in Users} \cup
         UNION {{refs[t][i] : i \in 1 .. Len(refs[t])} : t \in Tasks}

Missing(w) == {u \in Users : /\ \E i \in 1 .. Len(w) : w[i] = u
                             /\ registry[u] = NoLock}

\* defaultdict access: create the entries that are not there.
GetLocks(w) ==
  \E f \in [Missing(w) -> Locks \ InUse] :
    /\ \A u, v \in Missing(w) : f[u] = f[v] => u = v
    /\ registry' = [u \in Users |->
                      IF u \in Missing(w) THEN f[u] ELSE registry[u]]

\* Entry of an operation: look the locks up, then enter as far as possible.
Enter(t, w) ==
  /\ Idle(t)
  /\ GetLocks(w)
  /\ want' = [want EXCEPT ![t] = w]
  /\ \E r \in {[i \in 1 .. Len(w) |-> registry'[w[i]]]} :
       /\ refs' = [refs EXCEPT ![t] = r]
       /\ AcquireFrom(t, r, 1, lock)

\* add_balance, deduct_balance: `async with cls._get_lock(user_id)'.
EnterOne(t) == \E u \in Users : Enter(t, <<u>>)

\* Mutated `Sorted': payer first, then recipient.
PayerFirst(a, b) == <<a, b>>

\* sorted((from_user_id, to_user_id)): the stable acquisition order.
Sorted(a, b) == IF a < b THEN <<a, b>> ELSE <<b, a>>

\* transfer: both locks are looked up before the first is awaited.
EnterTransfer(t) ==
  \E a, b \in Users : a # b /\ Enter(t, Sorted(a, b))

\* The first waiter of a released lock runs again and carries on.
Resume(t) ==
  /\ Waiting(t)
  /\ \E l \in {refs[t][pos[t]]} :
       /\ lock[l].woken
       /\ Head(lock[l].queue) = t
       /\ AcquireFrom(t, refs[t], pos[t] + 1,
            [lock EXCEPT ![l] = [locked |-> TRUE, woken |-> FALSE,
                                 queue |-> Tail(lock[l].queue)]])
  /\ UNCHANGED <<registry, want, refs>>

\* Mutated `Leave': release() forgets to wake the first waiter up.
LeaveSilently(t) ==
  /\ Inside(t)
  /\ lock' = [l \in Locks |-> IF l \in Held(t)
                                THEN [lock[l] EXCEPT !.locked = FALSE]
                                ELSE lock[l]]
  /\ want' = [want EXCEPT ![t] = <<>>]
  /\ refs' = [refs EXCEPT ![t] = <<>>]
  /\ pos' = [pos EXCEPT ![t] = 1]
  /\ UNCHANGED registry

\* Leaving the `async with' blocks, innermost first, without suspending.
Leave(t) ==
  /\ Inside(t)
  /\ lock' = [l \in Locks |->
       IF l \in Held(t)
         THEN [lock[l] EXCEPT !.locked = FALSE,
                              !.woken = lock[l].queue # <<>>]
         ELSE lock[l]]
  /\ want' = [want EXCEPT ![t] = <<>>]
  /\ refs' = [refs EXCEPT ![t] = <<>>]
  /\ pos' = [pos EXCEPT ![t] = 1]
  /\ UNCHANGED registry

\* cleanup_idle_locks: drop every entry whose lock is not `locked()'.
CleanupIdleLocks ==
  /\ Cleans
  /\ registry' = [u \in Users |->
       IF registry[u] = NoLock THEN NoLock
       ELSE IF lock[registry[u]].locked THEN registry[u] ELSE NoLock]
  /\ UNCHANGED <<lock, want, refs, pos>>

Next ==
  \/ \E t \in Tasks : EnterOne(t) \/ EnterTransfer(t) \/ Resume(t) \/ Leave(t)
  \/ CleanupIdleLocks

Spec == Init /\ [][Next]_vars

\* The event loop runs every ready task: a woken waiter is rescheduled, and
\* a critical section (database calls only) ends.
Fairness == \A t \in Tasks : WF_vars(Resume(t)) /\ WF_vars(Leave(t))

FairSpec == Spec /\ Fairness

-----------------------------------------------------------------------------
(* What the locks are for.                                                 *)

\* A lock object is held by one task at a time, although release() leaves it
\* unlocked while its next owner is still queued (asyncio.Lock hand-over as
\* used at balance_service.py:75, 174, 227, 228).
ObjectMutex ==
  \A s, t \in Tasks : s # t => Held(s) \cap Held(t) = {}

\* One operation per user at a time: two tasks are never both inside a
\* section locked for the same user (balance_service.py:3, "uses a lock per
\* user to prevent any race condition").
LockedIds(t) == {want[t][i] : i \in 1 .. (pos[t] - 1)}
UserMutex ==
  \A s, t \in Tasks : s # t => LockedIds(s) \cap LockedIds(t) = {}

\* No lost wake-up: a task queued on a lock nobody holds has been preceded by
\* a wake-up of the head of that queue, whatever the cleanup job removed from
\* the registry meanwhile.
NoLostWakeup ==
  \A l \in Locks : lock[l].queue # <<>> => lock[l].locked \/ lock[l].woken

\* No deadlock: while a task waits for a lock, some task can go on, with any
\* number of transfers between the same users in both directions, and with
\* locks that the cleanup job took out of the registry while tasks queue for
\* them (balance_service.py:216, "locks are acquired in a stable order").
CanResume(t) ==
  /\ Waiting(t)
  /\ lock[refs[t][pos[t]]].woken /\ Head(lock[refs[t][pos[t]]].queue) = t
SomebodyGoesOn ==
  (\E t \in Tasks : Waiting(t)) =>
    \E t \in Tasks : Inside(t) \/ CanResume(t)

\* Transfers in opposite directions do not deadlock, and nobody is starved:
\* every task that waits for its locks gets all of them
\* (balance_service.py:216, "locks are acquired in a stable order").
EveryWaiterEnters == \A t \in Tasks : Waiting(t) ~> Inside(t)
=============================================================================
