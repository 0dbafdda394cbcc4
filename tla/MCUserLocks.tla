---------------------------- MODULE MCUserLocks ----------------------------
(* Instances of UserLocks for TLC.                                         *)
EXTENDS UserLocks, TLC

\* The identities of tasks and of lock objects carry no meaning.
TaskLockSymmetry == Permutations(Tasks) \cup Permutations(Locks)
=============================================================================
