------------------------------- MODULE SemLock -------------------------------
(***************************************************************************)
(* IPC/MutexLock.h, the MutexLock<num_doors> of builds with several        *)
(* processes: a System V semaphore counts the levels of the lock, and two  *)
(* plain members, owner_index and owner_thread, tell a recursive call from *)
(* a first one.  The members are written after the semaphore has been      *)
(* taken and read without it, so each access is a step of its own.         *)
(*                                                                         *)
(* testZero_add() retries when a signal interrupts it (INTR_RETRY is the   *)
(* policy of every semaphore), so it returns only once it has the lock.    *)
(***************************************************************************)
EXTENDS Integers

CONSTANTS Threads,   \* the threads that use the lock
          process,   \* process[t]: the ID that thread t passes, that of its process
          NO_OWNER,
          Nobody,    \* what pthread_self() never is
          MaxLevel   \* bound on the depth of each thread's recursive locking

ASSUME SemLockAssumption ==
  /\ NO_OWNER \notin {process[t] : t \in Threads}
  /\ Nobody \notin Threads
  /\ MaxLevel \in Nat \ {0}

VARIABLES
  sem, owner_index, owner_thread,   \* the members of the MutexLock
  pc,     \* where each thread is in lock(), try_lock(), unlock() or releaseAll()
  levels  \* the levels each thread has to undo, as the thread itself counts them

vars == <<sem, owner_index, owner_thread, pc, levels>>

Labels == {"idle", "lockOwner", "tryOwner", "lock", "try", "index", "thread", "lower", "zero"}

TypeOK ==
  /\ sem \in Nat
  /\ owner_index \in {process[t] : t \in Threads} \cup {NO_OWNER}
  /\ owner_thread \in Threads \cup {Nobody}
  /\ pc \in [Threads -> Labels]
  /\ levels \in [Threads -> Nat]

Init ==
  /\ sem = 0
  /\ owner_index = NO_OWNER
  /\ owner_thread = Nobody
  /\ pc = [t \in Threads |-> "idle"]
  /\ levels = [t \in Threads |-> 0]

Goto(t, label) == pc' = [pc EXCEPT ![t] = label]

-----------------------------------------------------------------------------
(* lock() and try_lock().  Both look at owner_index first. *)

Lock(t) ==
  /\ pc[t] = "idle"
  /\ levels[t] < MaxLevel
  /\ Goto(t, IF owner_index = process[t] THEN "lockOwner" ELSE "lock")
  /\ UNCHANGED <<sem, owner_index, owner_thread, levels>>

TryLock(t) ==
  /\ pc[t] = "idle"
  /\ levels[t] < MaxLevel
  /\ Goto(t, IF owner_index = process[t] THEN "tryOwner" ELSE "try")
  /\ UNCHANGED <<sem, owner_index, owner_thread, levels>>

\* isOwnerThread(): the last owner was this thread, and raise() adds a level, or
\* owner_index is that of another thread of the process.
IsOwnerThread(t) ==
  /\ pc[t] \in {"lockOwner", "tryOwner"}
  /\ IF owner_thread = t
     THEN /\ sem' = sem + 1
          /\ levels' = [levels EXCEPT ![t] = @ + 1]
          /\ Goto(t, "idle")
     ELSE /\ Goto(t, IF pc[t] = "lockOwner" THEN "lock" ELSE "try")
          /\ UNCHANGED <<sem, levels>>
  /\ UNCHANGED <<owner_index, owner_thread>>

\* Mutant: the semaphore is raised without the test for zero.
TakeUntested(t) ==
  /\ pc[t] \in {"lock", "try"}
  /\ sem' = sem + 1
  /\ Goto(t, "index")
  /\ UNCHANGED <<owner_index, owner_thread, levels>>

\* testZero_add() has the semaphore, at once or after a wait.
Take(t) ==
  /\ pc[t] \in {"lock", "try"}
  /\ sem = 0
  /\ sem' = 1
  /\ Goto(t, "index")
  /\ UNCHANGED <<owner_index, owner_thread, levels>>

TryFails(t) ==
  /\ pc[t] = "try"
  /\ sem # 0
  /\ Goto(t, "idle")
  /\ UNCHANGED <<sem, owner_index, owner_thread, levels>>

SetIndex(t) ==
  /\ pc[t] = "index"
  /\ owner_index' = process[t]
  /\ Goto(t, "thread")
  /\ UNCHANGED <<sem, owner_thread, levels>>

SetThread(t) ==
  /\ pc[t] = "thread"
  /\ owner_thread' = t
  /\ levels' = [levels EXCEPT ![t] = @ + 1]
  /\ Goto(t, "idle")
  /\ UNCHANGED <<sem, owner_index>>

-----------------------------------------------------------------------------
(* unlock() and releaseAll(), which a thread calls for the levels it has.  *)
(* owner_thread keeps the last owner.                                      *)

\* Mutant: the owner's name is left when the last level is given up.
UnlockNamed(t) ==
  /\ pc[t] = "idle"
  /\ levels[t] > 0
  /\ levels' = [levels EXCEPT ![t] = @ - 1]
  /\ Goto(t, IF sem <= 0 THEN "idle" ELSE "lower")
  /\ UNCHANGED <<sem, owner_index, owner_thread>>

\* Mutant: the owner's name is taken away at every level.
UnlockNameless(t) ==
  /\ pc[t] = "idle"
  /\ levels[t] > 0
  /\ levels' = [levels EXCEPT ![t] = @ - 1]
  /\ owner_index' = NO_OWNER
  /\ Goto(t, IF sem <= 0 THEN "idle" ELSE "lower")
  /\ UNCHANGED <<sem, owner_thread>>

\* The two looks at the value: an underflow is reported, the last level
\* takes the owner's name away before the semaphore is lowered.
Unlock(t) ==
  /\ pc[t] = "idle"
  /\ levels[t] > 0
  /\ levels' = [levels EXCEPT ![t] = @ - 1]
  /\ owner_index' = IF sem <= 1 THEN NO_OWNER ELSE owner_index
  /\ Goto(t, IF sem <= 0 THEN "idle" ELSE "lower")
  /\ UNCHANGED <<sem, owner_thread>>

\* lower() without blocking: nothing happens if the value is zero.
Lower(t) ==
  /\ pc[t] = "lower"
  /\ sem' = IF sem > 0 THEN sem - 1 ELSE sem
  /\ Goto(t, "idle")
  /\ UNCHANGED <<owner_index, owner_thread, levels>>

ReleaseAll(t) ==
  /\ pc[t] = "idle"
  /\ levels[t] > 0
  /\ levels' = [levels EXCEPT ![t] = 0]
  /\ owner_index' = NO_OWNER
  /\ Goto(t, "zero")
  /\ UNCHANGED <<sem, owner_thread>>

\* Mutant: releaseAll() undoes one level.
SetLower(t) ==
  /\ pc[t] = "zero"
  /\ sem' = sem - 1
  /\ Goto(t, "idle")
  /\ UNCHANGED <<owner_index, owner_thread, levels>>

SetZero(t) ==
  /\ pc[t] = "zero"
  /\ sem' = 0
  /\ Goto(t, "idle")
  /\ UNCHANGED <<owner_index, owner_thread, levels>>

-----------------------------------------------------------------------------
Step(t) ==
  \/ Lock(t) \/ TryLock(t) \/ IsOwnerThread(t)
  \/ Take(t) \/ TryFails(t) \/ SetIndex(t) \/ SetThread(t)
  \/ Unlock(t) \/ Lower(t) \/ ReleaseAll(t) \/ SetZero(t)

Next == \E t \in Threads : Step(t)

Spec == Init /\ [][Next]_vars

-----------------------------------------------------------------------------
(* Properties *)

\* The use the class comment asks for: one thread of each process uses the lock.
OneThreadEach == \A t, u \in Threads : process[t] = process[u] => t = u

\* Two threads never have the lock at once: the comments at 250 and 272 of
\* MutexLock.h, "we already have lock", are right whenever they are reached.
MutualExclusion ==
  \A t, u \in Threads : levels[t] > 0 /\ levels[u] > 0 => t = u

\* A thread that has the lock is never sent to wait for it: its own name is in
\* owner_index from the end of its first lock() to its last unlock(), whatever
\* the others do meanwhile.
OwnerNeverWaits ==
  \A t \in Threads : pc[t] \in {"lock", "try", "index", "thread"} => levels[t] = 0

\* Whoever is between testZero_add() and the write of owner_thread, or else the
\* last owner_thread, is the holder while the semaphore is not zero.
Entering == {t \in Threads : pc[t] \in {"index", "thread"}}

Holder ==
  IF sem = 0 THEN Nobody
  ELSE IF Entering # {} THEN CHOOSE t \in Threads : t \in Entering
  ELSE owner_thread

\* A thread outside of every call has as many levels to undo as the semaphore
\* counts if it is the holder, and none otherwise: no lock() is lost on the way,
\* none is undone twice, and releaseAll() leaves nothing behind.
LevelsAgree ==
  \A t \in Threads : pc[t] = "idle" => levels[t] = IF Holder = t THEN sem ELSE 0

\* The lock implements RecursiveLock, with the semaphore as the level.
Abstract == INSTANCE RecursiveLock WITH holder <- Holder, level <- sem

ImplementsLock == Abstract!Spec
=============================================================================
