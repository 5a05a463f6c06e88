---------------------------- MODULE MotionManager ----------------------------
(***************************************************************************)
(* MotionManager: the table of MotionCommands that the processes Main and  *)
(* Motion keep in shared memory, and the messages by which each learns of  *)
(* what the other added or removed.                                        *)
(*                                                                         *)
(* One activity at a time runs in each process: receivedMsg() takes the    *)
(* lock of its process (procLocks) just as a behavior of Main and the      *)
(* output loop of Motion do.  Between the two processes there is the lock  *)
(* of the table, MMlock, and one lock per slot.  Both are taken here as    *)
(* what module RecursiveLock says of a MutexLock.                          *)
(***************************************************************************)
EXTENDS Integers, Sequences, SequencesExt

CONSTANTS
  Motions,      \* the shared regions that hold a MotionCommand
  MaxMotions,   \* MAX_MOTIONS, the slots of the table
  QueueLen,     \* messages the queue of motions holds; sending one more throws
  MaxCalls,     \* bound: the calls one handler of a behavior makes
  Habits,       \* what behaviors allow themselves, see below
  None

(***************************************************************************)
(* Habits.  "hasty": removes a motion before Main heard the echo of its    *)
(* addition.  "nests": adds or removes while it has a motion checked out.  *)
(* "readds": adds a region again whose old messages are still under way.   *)
(***************************************************************************)
ASSUME HabitsAssumption == Habits \subseteq {"hasty", "nests", "readds"}
ASSUME SizesAssumption ==
  MaxMotions \in Nat \ {0} /\ QueueLen \in Nat /\ MaxCalls \in Nat \ {0}

Main == "Main"
Motion == "Motion"
Procs == {Main, Motion}
Dead == "dead"      \* accID_t(-1), the lastAccessor of a removed motion
Slots == 1..MaxMotions

ASSUME NoneAssumption ==
  None \notin Motions /\ None \notin Procs /\ None \notin Slots /\ None \notin 0..MaxCalls

VARIABLES
  free,           \* the free part of cmdlist, in the order it is used
  region,         \* region[a][p]: rcr[a] and baseaddrs[a] of slot p
  lastAccessor,   \* per slot
  lock,           \* per slot: [by, n], its owner and level
  MMlock,         \* the owner of the table's lock
  inbox,          \* per process, the messages it has not processed
  mc_id,          \* per motion, the field of its region that names its slot
  started,        \* the motions between DoStart() and DoStop()
  known,          \* per slot, the motion behaviors think is there: between the
                  \* events activate and deactivate
  calls,          \* None, or a behavior runs in Main, which holds behaviorLock,
                  \* and may make that many calls more
  todo,           \* unlocked, the slots getOutputs() has yet to try
  pc              \* per process, what it is doing: [at, arg]

table == <<free, region, lastAccessor, lock>>
vars == <<table, MMlock, inbox, mc_id, started, known, calls, todo, pc>>

AddMotion(m) == [type |-> "addMotion", of |-> m]
DeleteMotion(p) == [type |-> "deleteMotion", of |-> p]

Idle == [at |-> "idle", arg |-> None]
Unlocked == [by |-> None, n |-> 0]
Nothing == [p \in Slots |-> None]

Init ==
  /\ free = [p \in Slots |-> p]
  /\ region = [a \in Procs |-> Nothing]
  /\ lastAccessor = [p \in Slots |-> Dead]
  /\ lock = [p \in Slots |-> Unlocked]
  /\ MMlock = None
  /\ inbox = [a \in Procs |-> <<>>]
  /\ mc_id = [m \in Motions |-> None]
  /\ started = {}
  /\ known = Nothing
  /\ calls = None
  /\ todo = {}
  /\ pc = [a \in Procs |-> Idle]

Used == Slots \ Range(free)
Holds(a, p) == lock[p].by = a
HoldsNothing(a) == \A p \in Slots : ~Holds(a, p)
IsIdle(a) == pc[a] = Idle
At(a, label, p) == pc[a] = [at |-> label, arg |-> p]
Goto(a, label, p) == pc' = [pc EXCEPT ![a] = [at |-> label, arg |-> p]]
Become(a) == pc' = [pc EXCEPT ![a] = Idle]

\* A full queue throws; the manager reports the exception and goes on.
Send(msg) ==
  inbox' = IF \E a \in Procs : Len(inbox[a]) >= QueueLen
           THEN inbox
           ELSE [a \in Procs |-> Append(inbox[a], msg)]

-----------------------------------------------------------------------------
(* Behaviors.  Each call is a step that makes it and one that does it. *)

BeginHandler ==
  /\ calls = None /\ IsIdle(Main)
  /\ calls' = MaxCalls
  /\ UNCHANGED <<table, MMlock, inbox, mc_id, started, known, todo, pc>>

EndHandler ==
  /\ calls # None /\ IsIdle(Main) /\ HoldsNothing(Main)
  /\ calls' = None
  /\ UNCHANGED <<table, MMlock, inbox, mc_id, started, known, todo, pc>>

Calls(label, arg) ==
  /\ calls \notin {None, 0} /\ IsIdle(Main)
  /\ calls' = calls - 1
  /\ Goto(Main, label, arg)
  /\ UNCHANGED <<table, MMlock, inbox, mc_id, started, known, todo>>

\* Nothing tells of this region any more.
IsFresh(m) ==
  \A a \in Procs : m \notin Range(region[a]) /\ AddMotion(m) \notin Range(inbox[a])

CallAdd(m) ==
  /\ "nests" \in Habits \/ HoldsNothing(Main)
  /\ "readds" \in Habits \/ IsFresh(m)
  /\ Calls("adding", m)

CallRemove(p) ==
  /\ known[p] # None
  /\ "nests" \in Habits \/ HoldsNothing(Main)
  /\ "hasty" \in Habits \/ AddMotion(known[p]) \notin Range(inbox[Main])
  /\ Calls("removing", p)

\* checkoutMotion() asks first whether the motion is dead.
CallCheckout(p) ==
  /\ known[p] # None /\ lastAccessor[p] # Dead
  /\ Calls("checkout", p)

\* doAddMotion(): refuses a motion that runs already, and a full table.
DoAddMotion(m) ==
  /\ At(Main, "adding", m) /\ MMlock = None
  /\ Become(Main)
  /\ IF free = <<>> \/ \E p \in Used : region[Main][p] = m
     THEN UNCHANGED <<table, inbox, mc_id, known>>
     ELSE LET p == Head(free) IN
          /\ free' = Tail(free)
          /\ mc_id' = [mc_id EXCEPT ![m] = p]
          /\ region' = [region EXCEPT ![Main][p] = m]
          /\ lastAccessor' = [lastAccessor EXCEPT ![p] = Main]
          /\ known' = [known EXCEPT ![p] = m]
          /\ Send(AddMotion(m))
          /\ UNCHANGED lock
  /\ UNCHANGED <<MMlock, started, calls, todo>>

\* Mutant: the region is kept.
RemovedOnlyInName(a, p) ==
  /\ lastAccessor' = [lastAccessor EXCEPT ![p] = Dead]
  /\ Send(DeleteMotion(p))
  /\ UNCHANGED <<free, lock, region>>

\* The part of removeMotion() that both processes share.
Removed(a, p) ==
  /\ lastAccessor' = [lastAccessor EXCEPT ![p] = Dead]
  /\ region' = [region EXCEPT ![a][p] = None]
  /\ Send(DeleteMotion(p))
  /\ UNCHANGED <<free, lock>>

IsAttached(a, p) == lastAccessor[p] # Dead /\ region[a][p] # None

\* removeMotion() in Main: a motion that was removed already gets a warning.
RemoveMotion(p) ==
  /\ At(Main, "removing", p) /\ MMlock = None /\ ~Holds(Motion, p)
  /\ Become(Main)
  /\ IF IsAttached(Main, p)
     THEN Removed(Main, p) /\ known' = [known EXCEPT ![p] = None]
     ELSE UNCHANGED <<table, inbox, known>>
  /\ UNCHANGED <<MMlock, mc_id, started, calls, todo>>

\* Mutant: who waited for the lock does not ask again.
CheckoutMotionBlindly(p) ==
  /\ At(Main, "checkout", p) /\ ~Holds(Motion, p)
  /\ Become(Main)
  /\ lock' = [lock EXCEPT ![p] = [by |-> Main, n |-> lock[p].n + 1]]
  /\ lastAccessor' = [lastAccessor EXCEPT ![p] = Main]
  /\ UNCHANGED <<free, region, MMlock, inbox, mc_id, started, known, calls, todo>>

\* The end of checkoutMotion(): gets the lock, asks again, converts.
CheckoutMotion(p) ==
  /\ At(Main, "checkout", p) /\ ~Holds(Motion, p)
  /\ Become(Main)
  /\ IF lastAccessor[p] = Dead
     THEN UNCHANGED <<lock, lastAccessor>>
     ELSE /\ lock' = [lock EXCEPT ![p] = [by |-> Main, n |-> lock[p].n + 1]]
          /\ lastAccessor' = [lastAccessor EXCEPT ![p] = Main]
  /\ UNCHANGED <<free, region, MMlock, inbox, mc_id, started, known, calls, todo>>

CheckinMotion(p) ==
  /\ calls # None /\ IsIdle(Main) /\ Holds(Main, p)
  /\ lock' = [lock EXCEPT ![p] = IF @.n = 1 THEN Unlocked ELSE [by |-> Main, n |-> @.n - 1]]
  /\ UNCHANGED <<free, region, lastAccessor, MMlock, inbox, mc_id, started, known, calls, todo, pc>>

-----------------------------------------------------------------------------
(* getOutputs() in Motion, all of it under MMlock. *)

GetOutputs ==
  /\ IsIdle(Motion) /\ MMlock = None
  /\ MMlock' = Motion
  /\ todo' = {p \in Used : IsAttached(Motion, p)}
  /\ Goto(Motion, "outputs", None)
  /\ UNCHANGED <<table, inbox, mc_id, started, known, calls>>

\* checkoutMotion() without blocking.
TryCheckout(p) ==
  /\ At(Motion, "outputs", None) /\ p \in todo
  /\ lastAccessor[p] # Dead /\ lock[p] = Unlocked
  /\ lock' = [lock EXCEPT ![p] = [by |-> Motion, n |-> 1]]
  /\ lastAccessor' = [lastAccessor EXCEPT ![p] = Motion]
  /\ Goto(Motion, "updating", p)
  /\ UNCHANGED <<free, region, MMlock, inbox, mc_id, started, known, calls, todo>>

UpdateOutputs(p) ==
  /\ At(Motion, "updating", p)
  /\ lock' = [lock EXCEPT ![p] = Unlocked]
  /\ todo' = todo \ {p}
  /\ Goto(Motion, "outputs", None)
  /\ UNCHANGED <<free, region, lastAccessor, MMlock, inbox, mc_id, started, known, calls>>

\* shouldPrune(): checks the motion in, and only then calls removeMotion().
Prune(p) ==
  /\ At(Motion, "updating", p)
  /\ lock' = [lock EXCEPT ![p] = Unlocked]
  /\ Goto(Motion, "pruning", p)
  /\ UNCHANGED <<free, region, lastAccessor, MMlock, inbox, mc_id, started, known, calls, todo>>

\* DoStop() also clears the id in the region.
DoStop(p) ==
  /\ started' = started \ {region[Motion][p]}
  /\ mc_id' = [mc_id EXCEPT ![region[Motion][p]] = None]

RemovePruned(p) ==
  /\ At(Motion, "pruning", p) /\ lock[p] = Unlocked
  /\ Goto(Motion, "outputs", None)
  /\ todo' = todo \ {p}
  /\ DoStop(p) /\ Removed(Motion, p)
  /\ UNCHANGED <<MMlock, known, calls>>

\* What a behavior has checked out is tried again and again, at last in vain:
\* time is up before the next try.
TryInVain(p) ==
  /\ At(Motion, "outputs", None) /\ p \in todo /\ Holds(Main, p)
  /\ todo' = todo \ {p}
  /\ UNCHANGED <<table, MMlock, inbox, mc_id, started, known, calls, pc>>

EndOutputs ==
  /\ At(Motion, "outputs", None) /\ todo = {}
  /\ MMlock' = None
  /\ Become(Motion)
  /\ UNCHANGED <<table, inbox, mc_id, started, known, calls, todo>>

-----------------------------------------------------------------------------
(* receivedMsg() takes the lock of the process, processMsg() then MMlock. *)

ReceivedMsg(a) ==
  /\ IsIdle(a) /\ inbox[a] # <<>> /\ (a = Main => calls = None)
  /\ Goto(a, "receiving", None)
  /\ UNCHANGED <<table, MMlock, inbox, mc_id, started, known, calls, todo>>

Processes(a, msg) ==
  /\ At(a, "receiving", None) /\ MMlock = None
  /\ msg = Head(inbox[a])
  /\ inbox' = [inbox EXCEPT ![a] = Tail(@)]

\* Motion starts what it attached, once it has the motion's lock.
ReceiveAdd(a, m) ==
  /\ Processes(a, AddMotion(m))
  /\ LET p == mc_id[m] IN
     /\ region' = IF p # None /\ region[a][p] = None THEN [region EXCEPT ![a][p] = m] ELSE region
     /\ IF a = Motion /\ p # None /\ lastAccessor[p] # Dead
        THEN MMlock' = Motion /\ Goto(Motion, "starting", p)
        ELSE UNCHANGED MMlock /\ Become(a)
  /\ UNCHANGED <<free, lastAccessor, lock, mc_id, started, known, calls, todo>>

DoStart(p) ==
  /\ At(Motion, "starting", p) /\ lock[p] = Unlocked
  /\ lastAccessor' = [lastAccessor EXCEPT ![p] = Motion]
  /\ started' = started \cup {region[Motion][p]}
  /\ MMlock' = None
  /\ Become(Motion)
  /\ UNCHANGED <<free, region, lock, inbox, mc_id, known, calls, todo>>

\* Mutant: no process frees the slot.
LetGoAndKeep(a, p) ==
  /\ region' = [region EXCEPT ![a][p] = None]
  /\ lock' = [lock EXCEPT ![p] = Unlocked]
  /\ lastAccessor' = [lastAccessor EXCEPT ![p] = IF a = Motion THEN Dead ELSE @]
  /\ UNCHANGED free

\* Lets go of the region; the last of the processes frees the slot, which
\* constructs its entry anew.
LetGo(a, p) ==
  /\ region' = [region EXCEPT ![a][p] = None]
  /\ lock' = [lock EXCEPT ![p] = Unlocked]
  /\ IF \A b \in Procs \ {a} : region[b][p] = None
     THEN /\ free' = Append(free, p)
          /\ lastAccessor' = [lastAccessor EXCEPT ![p] = Dead]
     ELSE /\ UNCHANGED free
          /\ lastAccessor' = [lastAccessor EXCEPT ![p] = IF a = Motion THEN Dead ELSE @]

\* Who has no region has nothing to do: it is the echo of its own removal.
IgnoreDelete(a, p) ==
  /\ Processes(a, DeleteMotion(p)) /\ region[a][p] = None
  /\ Become(a)
  /\ UNCHANGED <<table, MMlock, mc_id, started, known, calls, todo>>

\* Main lets go, and posts deactivate.
ReceiveDelete(p) ==
  /\ Processes(Main, DeleteMotion(p)) /\ region[Main][p] # None /\ ~Holds(Motion, p)
  /\ LetGo(Main, p)
  /\ known' = [known EXCEPT ![p] = None]
  /\ Become(Main)
  /\ UNCHANGED <<MMlock, mc_id, started, calls, todo>>

\* Motion waits for the motion's lock,
AwaitDelete(p) ==
  /\ Processes(Motion, DeleteMotion(p)) /\ region[Motion][p] # None
  /\ MMlock' = Motion
  /\ Goto(Motion, "stopping", p)
  /\ UNCHANGED <<table, mc_id, started, known, calls, todo>>

\* converts and stops the motion, which is not dead for a moment,
StopDeleted(p) ==
  /\ At(Motion, "stopping", p) /\ lock[p] = Unlocked
  /\ lock' = [lock EXCEPT ![p] = [by |-> Motion, n |-> 1]]
  /\ lastAccessor' = [lastAccessor EXCEPT ![p] = Motion]
  /\ DoStop(p)
  /\ Goto(Motion, "stopped", p)
  /\ UNCHANGED <<free, region, MMlock, inbox, known, calls, todo>>

\* and lets go.
EndDelete(p) ==
  /\ At(Motion, "stopped", p)
  /\ LetGo(Motion, p)
  /\ MMlock' = None
  /\ Become(Motion)
  /\ UNCHANGED <<inbox, mc_id, started, known, calls, todo>>

-----------------------------------------------------------------------------
Behavior ==
  \/ BeginHandler \/ EndHandler
  \/ \E m \in Motions : CallAdd(m) \/ DoAddMotion(m)
  \/ \E p \in Slots : CallRemove(p) \/ RemoveMotion(p)
  \/ \E p \in Slots : CallCheckout(p) \/ CheckoutMotion(p) \/ CheckinMotion(p)

Outputs ==
  \/ GetOutputs \/ EndOutputs
  \/ \E p \in Slots : TryCheckout(p) \/ TryInVain(p) \/ UpdateOutputs(p)
  \/ \E p \in Slots : Prune(p) \/ RemovePruned(p)

ProcessMsg(a) ==
  \/ \E m \in Motions : ReceiveAdd(a, m)
  \/ \E p \in Slots : IgnoreDelete(a, p)
  \/ a = Main /\ \E p \in Slots : ReceiveDelete(p)
  \/ a = Motion /\ \E p \in Slots : AwaitDelete(p)

Started == \E p \in Slots : DoStart(p)
Stopped == \E p \in Slots : StopDeleted(p) \/ EndDelete(p)

Next == Behavior \/ Outputs \/ Started \/ Stopped \/ \E a \in Procs : ReceivedMsg(a) \/ ProcessMsg(a)

(***************************************************************************)
(* Fairness.  A handler returns what it checked out and ends; the output   *)
(* loop ends a round, for prunes are decided once per motion.  The lock of *)
(* a process and MMlock are left between rounds and handlers, which gives  *)
(* the receivers their turn; a slot's lock is granted in order of arrival  *)
(* (MutexLock!FirstComeFirstServed), so who waits for it gets it although  *)
(* behaviors come back for it.                                             *)
(***************************************************************************)
HandlersEnd ==
  /\ SF_vars(EndHandler)
  /\ WF_vars(\E p \in Slots : CheckinMotion(p))
  /\ SF_vars(\E p \in Slots : RemoveMotion(p) \/ CheckoutMotion(p))
  /\ SF_vars(\E m \in Motions : DoAddMotion(m))

RoundsEnd ==
  /\ WF_vars(\E p \in Slots : TryCheckout(p) \/ TryInVain(p) \/ UpdateOutputs(p))
  /\ SF_vars(\E p \in Slots : RemovePruned(p))
  /\ WF_vars(EndOutputs)

MessagesArrive ==
  /\ \A a \in Procs : SF_vars(ReceivedMsg(a)) /\ SF_vars(ProcessMsg(a))
  /\ SF_vars(Started) /\ SF_vars(Stopped)

Spec == Init /\ [][Next]_vars
FairSpec == Spec /\ HandlersEnd /\ RoundsEnd /\ MessagesArrive

-----------------------------------------------------------------------------
TypeOK ==
  /\ free \in Seq(Slots)
  /\ region \in [Procs -> [Slots -> Motions \cup {None}]]
  /\ lastAccessor \in [Slots -> Procs \cup {Dead}]
  /\ lock \in [Slots -> [by : Procs \cup {None}, n : 0..MaxCalls]]
  /\ MMlock \in Procs \cup {None}
  /\ inbox \in [Procs -> Seq({AddMotion(m) : m \in Motions} \cup {DeleteMotion(p) : p \in Slots})]
  /\ mc_id \in [Motions -> Slots \cup {None}]
  /\ started \subseteq Motions
  /\ known \in [Slots -> Motions \cup {None}]
  /\ calls \in 0..MaxCalls \cup {None}
  /\ todo \subseteq Slots

(* What a behavior has checked out is the motion it added, and nobody has  *)
(* removed it or is about to hear that it was.                             *)
HeldIsAttached ==
  \A p \in Slots : Holds(Main, p) =>
    /\ lastAccessor[p] # Dead /\ known[p] # None /\ region[Main][p] = known[p]
    /\ \A a \in Procs : DeleteMotion(p) \notin Range(inbox[a])

(* Motion calls updateOutputs() of a motion that has started and not been  *)
(* stopped, with its lock held.                                            *)
UpdatedIsStarted ==
  \A p \in Slots : At(Motion, "updating", p) =>
    Holds(Motion, p) /\ region[Motion][p] \in started

(* An id that was announced and not called back names the motion it was    *)
(* given for, even when that one is dead already.                          *)
IdsAreRight ==
  \A p \in Slots : known[p] # None => p \in Used /\ region[Main][p] = known[p]

(* Only the last process to hear of a removal frees the slot: nobody has   *)
(* the region of a free slot, and no process frees one again.              *)
FreeIsUnused ==
  /\ \A p \in Range(free) : lastAccessor[p] = Dead /\ \A a \in Procs : region[a][p] = None
  /\ \A i, j \in DOMAIN free : free[i] = free[j] => i = j

(* The table is sound: what is held, updated or named by an id is there,   *)
(* and what is free is not.                                                *)
TableIsSound == TypeOK /\ HeldIsAttached /\ UpdatedIsStarted /\ IdsAreRight /\ FreeIsUnused

(* A dead slot is free, or a process that holds its region has yet to hear *)
(* of the removal.                                                         *)
NoSlotLost ==
  \A p \in Used : lastAccessor[p] = Dead =>
    \E a \in Procs :
      /\ DeleteMotion(p) \in Range(inbox[a]) \/ At(a, "stopping", p) \/ At(a, "stopped", p)
      /\ region[a][p] # None \/ \E m \in Motions : mc_id[m] = p /\ AddMotion(m) \in Range(inbox[a])

(* A motion in the table that Motion does not run is about to be started.  *)
AddedWillStart ==
  \A p \in Used : lastAccessor[p] # Dead /\ region[Main][p] \notin started =>
    \/ \E m \in Motions : mc_id[m] = p /\ AddMotion(m) \in Range(inbox[Motion])
    \/ At(Motion, "starting", p) \/ At(Motion, "stopped", p)

(* Whatever is left to do for a motion or a slot is in somebody's hands or *)
(* inbox: no message is ignored that nobody will send again.               *)
NothingForgotten == NoSlotLost /\ AddedWillStart

(* Behaviors hear once that a motion is gone: Main lets go of a region in  *)
(* the step that calls back its id.                                        *)
GoneIsToldOnce ==
  [][\A p \in Slots : region[Main][p] # None /\ region'[Main][p] = None => known[p] # None]_vars

(* The slot of a removed motion becomes free, whatever behaviors have      *)
(* checked out and however often the outputs are computed.                 *)
SlotsComeBack ==
  \A p \in Slots : (p \in Used /\ lastAccessor[p] = Dead) ~> (p \notin Used)
=============================================================================
