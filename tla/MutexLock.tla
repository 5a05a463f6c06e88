------------------------------ MODULE MutexLock ------------------------------
(***************************************************************************)
(* IPC/MutexLock.h, the software-only MutexLock<num_doors> that the Aibo   *)
(* build uses: a first-come-first-served lock in which a process passes    *)
(* the Lycklama-Hadzilacos doorway and then a Burns-Lamport one-bit lock.  *)
(*                                                                         *)
(* A process is named by the index of its door, the value lookup() returns *)
(* for it.  Every read or write of a field of another process's door, or   *)
(* of a volatile field, is a step of its own; the processes interleave at  *)
(* that grain.  owner_index is loaded once in owner().                     *)
(***************************************************************************)
EXTENDS Integers

CONSTANTS num_doors,  \* the template parameter: one door per process
          MaxLevel    \* bound on the depth of recursive locking

ASSUME NumDoorsAssumption == num_doors \in Nat \ {0}
ASSUME MaxLevelAssumption == MaxLevel \in Nat \ {0}

Doors == 0 .. num_doors - 1
NO_OWNER == -1

VARIABLES
  \* shared: struct door_t and the members of MutexLock
  FCFS_in_use, BL_ready, BL_in_use, turn, next_turn_bit, owner_index, lockcount,
  \* local to the process at each door
  pc,      \* where it is in lock(), try_lock() or unlock()
  block,   \* do_try_lock's argument: lock() passes TRUE, try_lock() FALSE
  S,       \* do_try_lock's copy of every door's turn
  k,       \* the loop counter (j, then t) of do_try_lock, tmp of unlock()
  \* history, read by the properties only
  before,  \* the processes that were past the doorway when this one entered it
  depth    \* the calls of lock() and try_lock() it has to undo

shared == <<FCFS_in_use, BL_ready, BL_in_use, turn, next_turn_bit, owner_index, lockcount>>
vars == <<shared, pc, block, S, k, before, depth>>

Bits == 0 .. 3
Labels == {"idle", "doorway", "copy", "flip", "ready", "leave", "inUse", "isReady",
           "sameTurn", "giveUp", "claim", "low", "back", "retry", "high", "own",
           "count", "cs", "disown", "unclaim", "unready"}

TypeOK ==
  /\ FCFS_in_use \in [Doors -> BOOLEAN]
  /\ BL_ready \in [Doors -> BOOLEAN]
  /\ BL_in_use \in [Doors -> BOOLEAN]
  /\ turn \in [Doors -> Bits]
  /\ next_turn_bit \in [Doors -> {0, 1}]
  /\ owner_index \in Doors \cup {NO_OWNER}
  /\ lockcount \in 0 .. MaxLevel
  /\ pc \in [Doors -> Labels]
  /\ block \in [Doors -> BOOLEAN]
  /\ S \in [Doors -> [Doors -> Bits]]
  /\ k \in [Doors -> 0 .. num_doors]
  /\ before \in [Doors -> SUBSET Doors]
  /\ depth \in [Doors -> 0 .. MaxLevel]

NoTurns == [d \in Doors |-> 0]

Init ==
  /\ FCFS_in_use = [i \in Doors |-> FALSE]
  /\ BL_ready = [i \in Doors |-> FALSE]
  /\ BL_in_use = [i \in Doors |-> FALSE]
  /\ turn = [i \in Doors |-> 0]
  /\ next_turn_bit = [i \in Doors |-> 0]
  /\ owner_index = NO_OWNER
  /\ lockcount = 0
  /\ pc = [i \in Doors |-> "idle"]
  /\ block = [i \in Doors |-> FALSE]
  /\ S = [i \in Doors |-> NoTurns]
  /\ k = [i \in Doors |-> 0]
  /\ before = [i \in Doors |-> {}]
  /\ depth = [i \in Doors |-> 0]

At(i, label) == pc[i] = label
Goto(i, label) == pc' = [pc EXCEPT ![i] = label]

\* Past the doorway of the attempt in progress and still without the lock.
PastDoorway == {"inUse", "isReady", "sameTurn", "claim", "low", "back", "retry", "high"}

\* turn ^= (1 << bit), on the two bits that are ever flipped
Flip(value, bit) ==
  LET mask == IF bit = 0 THEN 1 ELSE 2
  IN  IF (value \div mask) % 2 = 0 THEN value + mask ELSE value - mask

-----------------------------------------------------------------------------
(* lock() and try_lock() up to the call of do_try_lock() *)

\* A process that owns the lock takes it again: only the count goes up.
Relock(i) ==
  /\ pc[i] \in {"idle", "cs"} /\ owner_index = i
  /\ lockcount < MaxLevel
  /\ lockcount' = lockcount + 1
  /\ depth' = [depth EXCEPT ![i] = @ + 1]
  /\ Goto(i, "cs")
  /\ UNCHANGED <<FCFS_in_use, BL_ready, BL_in_use, turn, next_turn_bit, owner_index,
                 block, S, k, before>>

Request(i, blocking) ==
  /\ pc[i] \in {"idle", "cs"} /\ owner_index # i
  /\ block' = [block EXCEPT ![i] = blocking]
  /\ Goto(i, "doorway")
  /\ UNCHANGED <<shared, S, k, before, depth>>

-----------------------------------------------------------------------------
(* do_try_lock(): the FCFS doorway *)

EnterDoorway(i) ==
  /\ At(i, "doorway")
  /\ FCFS_in_use' = [FCFS_in_use EXCEPT ![i] = TRUE]
  /\ before' = [before EXCEPT ![i] = {d \in Doors : pc[d] \in PastDoorway}]
  /\ k' = [k EXCEPT ![i] = 0]
  /\ Goto(i, "copy")
  /\ UNCHANGED <<BL_ready, BL_in_use, turn, next_turn_bit, owner_index, lockcount,
                 block, S, depth>>

CopyTurn(i) ==
  /\ At(i, "copy")
  /\ S' = [S EXCEPT ![i][k[i]] = turn[k[i]]]
  /\ k' = [k EXCEPT ![i] = @ + 1]
  /\ Goto(i, IF k[i] + 1 = num_doors THEN "flip" ELSE "copy")
  /\ UNCHANGED <<shared, block, before, depth>>

FlipTurn(i) ==
  /\ At(i, "flip")
  /\ next_turn_bit' = [next_turn_bit EXCEPT ![i] = 1 - @]
  /\ turn' = [turn EXCEPT ![i] = Flip(@, 1 - next_turn_bit[i])]
  /\ Goto(i, "ready")
  /\ UNCHANGED <<FCFS_in_use, BL_ready, BL_in_use, owner_index, lockcount,
                 block, S, k, before, depth>>

\* Mutant: the doorway is left without the ready flag.
SetReadyForgotten(i) ==
  /\ At(i, "ready")
  /\ Goto(i, "leave")
  /\ UNCHANGED <<shared, block, S, k, before, depth>>

SetReady(i) ==
  /\ At(i, "ready")
  /\ BL_ready' = [BL_ready EXCEPT ![i] = TRUE]
  /\ Goto(i, "leave")
  /\ UNCHANGED <<FCFS_in_use, BL_in_use, turn, next_turn_bit, owner_index, lockcount,
                 block, S, k, before, depth>>

LeaveDoorway(i) ==
  /\ At(i, "leave")
  /\ FCFS_in_use' = [FCFS_in_use EXCEPT ![i] = FALSE]
  /\ k' = [k EXCEPT ![i] = 0]
  /\ Goto(i, "inUse")
  /\ UNCHANGED <<BL_ready, BL_in_use, turn, next_turn_bit, owner_index, lockcount,
                 block, S, before, depth>>

-----------------------------------------------------------------------------
(* do_try_lock(): the wait for door k[i], one action per operand read.  A    *)
(* process that has to wait reads again if it blocks and gives up if not.    *)

WaitOrGiveUp(i) == Goto(i, IF block[i] THEN "inUse" ELSE "giveUp")

PassDoor(i) ==
  \/ /\ k[i] + 1 < num_doors
     /\ k' = [k EXCEPT ![i] = @ + 1]
     /\ UNCHANGED S
     /\ Goto(i, "inUse")
  \/ /\ k[i] + 1 = num_doors
     /\ k' = [k EXCEPT ![i] = 0]
     /\ S' = [S EXCEPT ![i] = NoTurns]
     /\ Goto(i, "claim")

ReadInUse(i) ==
  /\ At(i, "inUse")
  /\ \/ FCFS_in_use[k[i]] /\ WaitOrGiveUp(i)
     \/ ~FCFS_in_use[k[i]] /\ Goto(i, "isReady")
  /\ UNCHANGED <<shared, block, S, k, before, depth>>

ReadReady(i) ==
  /\ At(i, "isReady")
  /\ \/ BL_ready[k[i]] /\ Goto(i, "sameTurn") /\ UNCHANGED <<S, k>>
     \/ ~BL_ready[k[i]] /\ PassDoor(i)
  /\ UNCHANGED <<shared, block, before, depth>>

ReadTurn(i) ==
  /\ At(i, "sameTurn")
  /\ \/ S[i][k[i]] = turn[k[i]] /\ WaitOrGiveUp(i) /\ UNCHANGED <<S, k>>
     \/ S[i][k[i]] # turn[k[i]] /\ PassDoor(i)
  /\ UNCHANGED <<shared, block, before, depth>>

\* Mutant: a failing try_lock() leaves its ready flag up.
GiveUpUncleanly(i) ==
  /\ At(i, "giveUp")
  /\ S' = [S EXCEPT ![i] = NoTurns]
  /\ k' = [k EXCEPT ![i] = 0]
  /\ Goto(i, "idle")
  /\ before' = [d \in Doors |-> IF d = i THEN {} ELSE before[d] \ {i}]
  /\ UNCHANGED <<shared, block, depth>>

\* try_lock() returns false.
GiveUp(i) ==
  /\ At(i, "giveUp")
  /\ BL_ready' = [BL_ready EXCEPT ![i] = FALSE]
  /\ S' = [S EXCEPT ![i] = NoTurns]
  /\ k' = [k EXCEPT ![i] = 0]
  /\ Goto(i, "idle")
  /\ before' = [d \in Doors |-> IF d = i THEN {} ELSE before[d] \ {i}]
  /\ UNCHANGED <<FCFS_in_use, BL_in_use, turn, next_turn_bit, owner_index, lockcount,
                 block, depth>>

-----------------------------------------------------------------------------
(* do_try_lock(): the Burns-Lamport lock *)

Claim(i) ==
  /\ At(i, "claim")
  /\ BL_in_use' = [BL_in_use EXCEPT ![i] = TRUE]
  /\ k' = [k EXCEPT ![i] = IF i = 0 THEN 1 ELSE 0]
  /\ Goto(i, IF i = 0 THEN "high" ELSE "low")
  /\ UNCHANGED <<FCFS_in_use, BL_ready, turn, next_turn_bit, owner_index, lockcount,
                 block, S, before, depth>>

\* A lower door in use makes this process back off.
CheckLow(i) ==
  /\ At(i, "low")
  /\ \/ BL_in_use[k[i]] /\ Goto(i, "back") /\ UNCHANGED k
     \/ ~BL_in_use[k[i]] /\ k[i] + 1 < i /\ UNCHANGED pc /\ k' = [k EXCEPT ![i] = @ + 1]
     \/ ~BL_in_use[k[i]] /\ k[i] + 1 = i /\ Goto(i, "high") /\ k' = [k EXCEPT ![i] = i + 1]
  /\ UNCHANGED <<shared, block, S, before, depth>>

BackOff(i) ==
  /\ At(i, "back")
  /\ BL_in_use' = [BL_in_use EXCEPT ![i] = FALSE]
  /\ Goto(i, IF block[i] THEN "retry" ELSE "giveUp")
  /\ UNCHANGED <<FCFS_in_use, BL_ready, turn, next_turn_bit, owner_index, lockcount,
                 block, S, k, before, depth>>

Retry(i) ==
  /\ At(i, "retry") /\ ~BL_in_use[k[i]]
  /\ Goto(i, "claim")
  /\ UNCHANGED <<shared, block, S, k, before, depth>>

\* Mutant: nobody waits for the higher doors.
WaitHighSkipped(i) ==
  /\ At(i, "high")
  /\ Goto(i, "own")
  /\ k' = [k EXCEPT ![i] = 0]
  /\ UNCHANGED <<shared, block, S, before, depth>>

\* Waits for each higher door, whether or not the caller wants to block.
WaitHigh(i) ==
  /\ At(i, "high")
  /\ \/ k[i] = num_doors /\ Goto(i, "own") /\ k' = [k EXCEPT ![i] = 0]
     \/ k[i] < num_doors /\ ~BL_in_use[k[i]] /\ UNCHANGED pc /\ k' = [k EXCEPT ![i] = @ + 1]
  /\ UNCHANGED <<shared, block, S, before, depth>>

Own(i) ==
  /\ At(i, "own")
  /\ owner_index' = i
  /\ before' = [d \in Doors |-> IF d = i THEN {} ELSE before[d] \ {i}]
  /\ Goto(i, "count")
  /\ UNCHANGED <<FCFS_in_use, BL_ready, BL_in_use, turn, next_turn_bit, lockcount,
                 block, S, k, depth>>

\* Back in lock() or try_lock(), which count the level and return.
CountLevel(i) ==
  /\ At(i, "count")
  /\ lockcount' = lockcount + 1
  /\ depth' = [depth EXCEPT ![i] = 1]
  /\ Goto(i, "cs")
  /\ UNCHANGED <<FCFS_in_use, BL_ready, BL_in_use, turn, next_turn_bit, owner_index,
                 block, S, k, before>>

-----------------------------------------------------------------------------
(* unlock() and releaseAll(), called by the process that has the lock *)

Unlock(i) ==
  /\ At(i, "cs") /\ lockcount > 0
  /\ lockcount' = lockcount - 1
  /\ depth' = [depth EXCEPT ![i] = @ - 1]
  /\ Goto(i, IF lockcount = 1 THEN "disown" ELSE "cs")
  /\ UNCHANGED <<FCFS_in_use, BL_ready, BL_in_use, turn, next_turn_bit, owner_index,
                 block, S, k, before>>

ReleaseAll(i) ==
  /\ At(i, "cs")
  /\ lockcount' = 0
  /\ depth' = [depth EXCEPT ![i] = 0]
  /\ Goto(i, "disown")
  /\ UNCHANGED <<FCFS_in_use, BL_ready, BL_in_use, turn, next_turn_bit, owner_index,
                 block, S, k, before>>

Disown(i) ==
  /\ At(i, "disown")
  /\ IF owner_index = NO_OWNER
       THEN Goto(i, "idle") /\ UNCHANGED <<owner_index, k>>
       ELSE /\ k' = [k EXCEPT ![i] = owner_index]
            /\ owner_index' = NO_OWNER
            /\ Goto(i, "unclaim")
  /\ UNCHANGED <<FCFS_in_use, BL_ready, BL_in_use, turn, next_turn_bit, lockcount,
                 block, S, before, depth>>

Unclaim(i) ==
  /\ At(i, "unclaim")
  /\ BL_in_use' = [BL_in_use EXCEPT ![k[i]] = FALSE]
  /\ Goto(i, "unready")
  /\ UNCHANGED <<FCFS_in_use, BL_ready, turn, next_turn_bit, owner_index, lockcount,
                 block, S, k, before, depth>>

\* Mutant: the ready flag stays up after unlock().
UnreadyForgotten(i) ==
  /\ At(i, "unready")
  /\ k' = [k EXCEPT ![i] = 0]
  /\ Goto(i, "idle")
  /\ UNCHANGED <<shared, block, S, before, depth>>

Unready(i) ==
  /\ At(i, "unready")
  /\ BL_ready' = [BL_ready EXCEPT ![k[i]] = FALSE]
  /\ k' = [k EXCEPT ![i] = 0]
  /\ Goto(i, "idle")
  /\ UNCHANGED <<FCFS_in_use, BL_in_use, turn, next_turn_bit, owner_index, lockcount,
                 block, S, before, depth>>

-----------------------------------------------------------------------------
Acquiring(i) ==
  \/ EnterDoorway(i) \/ CopyTurn(i) \/ FlipTurn(i) \/ SetReady(i) \/ LeaveDoorway(i)
  \/ ReadInUse(i) \/ ReadReady(i) \/ ReadTurn(i) \/ GiveUp(i)
  \/ Claim(i) \/ CheckLow(i) \/ BackOff(i) \/ Retry(i) \/ WaitHigh(i)
  \/ Own(i) \/ CountLevel(i)

Releasing(i) == Unlock(i) \/ ReleaseAll(i) \/ Disown(i) \/ Unclaim(i) \/ Unready(i)

\* Every process calls lock() and try_lock() as it likes.
Next ==
  \E i \in Doors :
    \/ Relock(i)
    \/ \E blocking \in BOOLEAN : Request(i, blocking)
    \/ Acquiring(i)
    \/ Releasing(i)

Spec == Init /\ [][Next]_vars

\* A process in the middle of a call keeps running, and one that has the lock
\* gives it back; nobody has to ask for it.
Fairness ==
  \A i \in Doors :
    /\ WF_vars(Acquiring(i))
    /\ WF_vars(ReleaseAll(i) \/ Disown(i) \/ Unclaim(i) \/ Unready(i))

FairSpec == Spec /\ Fairness

-----------------------------------------------------------------------------
(* Properties *)

\* From the end of do_try_lock() to the write that gives the lock back.
Holding == {"own", "count", "cs", "disown", "unclaim"}

\* Two processes never have the lock at once, wherever lock(), try_lock() and
\* unlock() calls of all of them interleave (MutexLock.h:581-643).
MutualExclusion ==
  \A i, j \in Doors : pc[i] \in Holding /\ pc[j] \in Holding => i = j

\* First come, first served (MutexLock.h:392): when a process gets the lock, no
\* process that was past the doorway before it came in is still waiting for it.
FirstComeFirstServed ==
  \A i \in Doors : pc[i] = "own" => before[i] = {}

\* owner(), which lock() trusts to tell a recursive call from a first one
\* (MutexLock.h:504), names exactly the process that has the lock.
OwnerIsHolder ==
  \A i \in Doors : owner_index = i <=> pc[i] \in {"count", "cs", "disown"}

\* The lock is released by as many unlock() calls as there were lock() and
\* try_lock() calls: the shared count is the holder's own, and it is zero for
\* whoever comes next (MutexLock.h:515, 549-572).
LevelsBalanced ==
  /\ \A i \in Doors : pc[i] = "cs" => lockcount = depth[i] /\ lockcount > 0
  /\ owner_index = NO_OWNER => lockcount = 0

\* A process outside every call, after a failed try_lock() too, leaves none of
\* its flags raised for the others to wait on (MutexLock.h:562-563, 605, 618-620).
NoFlagLeftBehind ==
  \A i \in Doors : pc[i] = "idle" => ~FCFS_in_use[i] /\ ~BL_ready[i] /\ ~BL_in_use[i]

\* What the lock keeps about itself is true, in the middle of other calls too.
Bookkeeping == TypeOK /\ OwnerIsHolder /\ LevelsBalanced /\ NoFlagLeftBehind

\* MutexLock.h:412 says that lock() "blocks until a lock is achieved": every call
\* gets the lock, provided whoever has it gives it back.
LockIsGranted == \A i \in Doors : pc[i] = "doorway" ~> (pc[i] = "cs" \/ ~block[i])

\* That is so as long as no try_lock() fails.  Each one that does flips its door's
\* turn, which has four values, while a process that waits at that door compares
\* the turn with the one it copied: after four of them it waits once more, and the
\* next lock() at that door waits for it.
GrantedUnlessTriesFail == ([]\A d \in Doors : pc[d] # "giveUp") => LockIsGranted

=============================================================================
