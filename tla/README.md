# Formal models of Tekkotsu 4.0.1 (AIventure Aibo)

TLA+ models of the concurrent and re-entrant core of Tekkotsu, the robot framework
under `src/Tekkotsu_4.0.1/`, with TLC configurations that check them on small
instances and TLAPS proofs of the locks, the event router with its generators and timers, the
message queue with its receivers, the allocator under it, the table of motions, the
pool of world states and state machines. Paths below are relative to
`src/Tekkotsu_4.0.1/`. `PROJECT.json` lists the components, the runs, the mutants that
each property catches, the source lines of every definition, the theorems and the hazards.

    tlc -workers 2 -config MCEventRouter.cfg MCEventRouter     # any run of the table below
    tlapm MutexLock_proofs.tla      # proofs, also of SemLock, EventRouter, EventTimers,
                                    # MessageReceiver, MotionManager, StateMachine, WorldStatePool

## 1. The system

Several processes (Main, Motion, Sound, and in the simulator one more) share memory
regions. Main runs behaviors: state machines that talk through one event router. The
processes send each other regions through message queues and share locks.

| Part | State | Operations | What is hard | What makes it correct |
| --- | --- | --- | --- | --- |
| `EventRouter` dispatch (`Events/EventRouter.cc`) | mappings of trappers and listeners, the queue `postings` of pointers into the stack | `processEvent`, add/remove listener/trapper, `hasListeners`, `isListening*` | handlers post and subscribe while an event is delivered; every change posts an event itself, so calls nest | the queue points to live postings; every subscriber gets each event once, in order; trapped events go no further; generators learn truly whether they have listeners |
| timers (`Events/EventRouter.cc:52-152`) | a sorted vector of pointers to entries | `addTimer`, `removeTimer*`, `processTimers` | listeners change the vector in the middle of a round | sorted, unique, no leak; a timer goes off once due, not before, not after its removal |
| `EventMapper` | vectors per generator, maps per source and type | add, remove, has, get, verify | three overloads of everything | the queries agree with the deliveries |
| `EventGeneratorBase` | `isListening`, subscription to its source | `DoStart`, `DoStop`, `processEvent` | chains of generators subscribe by nested posts | listens exactly while it is listened to |
| `MutexLock` (`IPC/MutexLock.h`) | doors with flags and turns, owner, count | `lock`, `try_lock`, `unlock`, `releaseAll` | interleavings of single reads and writes between processes | exclusion, first come first served, balanced recursion |
| the same, with a semaphore (`IPC/MutexLock.h:214-348`) | a System V semaphore, two plain members that name the owner | as above | the members are written after the semaphore was taken and read without it | it is a recursive lock |
| `ListMemBuf` (`IPC/ListMemBuf.h`) | two chains in an array | insertions, removals, `swap`, `clear` | links left stale on purpose, ends of chains | it is a list, with a queue of free entries |
| `MessageQueue` (`IPC/MessageQueue.h`) | entries with read flags, receivers, policy | `sendMessage`, `markRead`, receivers come and go | full queue, senders that sleep, slots that are reused | a message stays until its readers have read it |
| `MessageReceiver`, `Thread` (`IPC/`) | `curit`, `nextMessage`, the thread | peek, process, mark, `finish` | state read under the lock and used without it, semaphore counts | in order, once, no missed wakeup, `finish` ends |
| `SemaphoreManager`, `RCRegion` (`IPC/`) | System V semaphores, reference counts | raise/lower, attach/release | counts changed by several processes | no count is lost, a region outlives its users |
| `MotionManager` (`Motion/`) | a table of motions shared by Main and Motion | add, remove, check out and in, prune | two locks, messages that arrive late, slots that are reused | a motion is deleted once, by nobody while it is in use |
| `StateNode`, `Transition` (`Behaviors/`) | active flags, reference counts | `DoStart`, `DoStop`, `fire` | transitions fire inside the posts of others | as many nodes active as the machine says |
| `WorldStatePool` (`Shared/`) | buffers, counts of readers and writers | select, read, complete | a writer recycles buffers | no reader sees a buffer that is being written |
| `SoundManager` (`Sound/`) | sounds, play list, channels | load, play, chain, stop | messages in flight to the sound process | references balance, channels drain |
| `EventTranslator`, `RemoteRouter` (`Events/`) | queues of encoded events | encode, send, decode | other processes, other robots | events arrive once |
| `Simulator` (`local/tekkotsu/`) | run levels of the processes | advance, command queue | processes that wait for each other | every level is reached |
| Controller, Vision, DualCoding, Wireless, numerics | | | sequential, or input and output | not modelled |

Interactions: behaviors and generators call the router and are called back by it;
the router's timers call listeners outside of the dispatch queue and then post the
same event through it; a `MessageReceiver` owns a thread that takes messages of a
`MessageQueue`, which stores its entries in a `ListMemBuf` and is guarded by a
`MutexLock`; `EventTranslator` carries events over a queue. The table of motions is
guarded by one `MutexLock` for all of it and one per slot, and changes to it are told
over a queue. Behaviors in Main and the update of sensors in both processes meet in the
`WorldStatePool`. Transitions of state machines are listeners, and starting, stopping
and firing post events whose listeners run before the post returns.

## 2. Modules

| Module | Models | State and actions |
| --- | --- | --- |
| `EventMapper` | the subscriptions | operators on `[all, filtered]`; a pattern is a prefix of an event's key, one length per overload of the code |
| `EventRouter` (extends `EventMapper`) | dispatch | `frames` is the call stack of `processEvent`, each with its `PostingStatus`; `postings` is the queue, naming frames by their place in the stack. `Serve`, `OfferTrapper`, `OfferListener`, `TrapperReturns`, `ListenerReturns`, `Exhausted`, `Return` are the loops of `processEvent` and `PostingStatus::process`; `PostEvent`, `Subscribe`, `Unsubscribe`, `UnsubscribeAll`, `TrapEverything` are what the program may call at any depth |
| `EventGenerator` (extends `EventRouter`) | generators composed with the router | `isListening`, `started`; `DoStart`, `DoStop`, `React`, and what they have left to do after a post |
| `StateMachine` | nodes and transitions on top of the router | `stack` holds the calls of `fire`, `DoStart`, `DoStop` and `postEvent` that have not returned, `pending` the deliveries the router owes over all the posts. Of the router it takes what `DeliveredInOrder` says: a post first delivers what the posts below it have left. `WellMade` says of which machines the theorems are |
| `EventTimers` | timers | heap cells hold entries, `timers` and `process` are vectors of pointers; freed memory keeps its contents until reused, and several `phase`s let listeners run inside a round. `sort` may leave entries of equal time in any order that the comparison allows (`Resorts`) |
| `MutexLock` | the software lock | one action per read or write of shared memory; a process is named by its door |
| `RecursiveLock` | what a lock promises | `holder` and `level`; acquire, re-enter, release, release all |
| `SemLock` | the semaphore lock | one action per semaphore operation and per read or write of the owner's members; refines `RecursiveLock`: the level is the semaphore, the holder whoever has taken it and not yet written its name, or else the owner that is named |
| `ListMemBuf`, `MemBuf`, `EntryList` | the allocator; any sequence of calls on it; the list it promises | operators on the record of links; `MemBuf` refines `EntryList` by `INSTANCE ... WITH list <- InUse(buf), free <- Free(buf)`. Each step of either bears the name of its call and its arguments (`call`) and what it returns (`result`), so that a step of the one implements only the operation of the same name in the other |
| `MessageQueue` (extends `ListMemBuf`) | the queue's calls | operators, as each call holds the queue's lock all through, but for the wait of a sender. The loop of `removeReceiver` is a recursive function of the number of messages it has been through; the receivers are finitely many, as the code's `MAX_RECEIVERS` has it |
| `MessageReceiver` (extends `MessageQueue`) | senders, receivers' threads, `finish()` | one action per stretch of code between two lock operations, or per unlocked read; `Overwrite` is the moment in which DROP_OLDEST has a slot with serial number 0. `findCurrentMessage`'s loops are walks along links, a step longer than there are entries, so that a walk that goes round shows |
| `MotionManager` | the table of motions of Main and Motion | per slot the two regions, `lastAccessor` and a lock; `inbox` per process; `pc` says where each process is between taking `MMlock` and a slot's lock. Behaviors add, remove, check out and in; `getOutputs` tries, updates and prunes; `processMsg` adds and deletes. Both kinds of lock are taken as `RecursiveLock` has them: one step when it is free, and not before |
| `WorldStatePool` | buffers and the requests of Main and Motion | what a call does under the pool's lock is one step, each read or write outside of it another; a process reads, or reads, asks for a buffer, waits for its lock, verifies, writes and completes it |
| `..._proofs`, of the eight modules that section 5 names | | inductive invariants, theorems, proofs |
| `MC...` | | constants for TLC |

How control is kept and data abstracted: an event is `<<generator, source, type>>`;
listeners, trappers, receivers, senders and motions are model values; a message is its
serial number; a sensor frame is its number, and the values of a buffer the frame they
are of; texts, logging and magnitudes are left out. Calls that change nothing (a
removal that finds nothing) are no steps.

History variables serve the properties only: `posted`, `latest`, `news` and the fields
after `then` of a frame; `armed` and `due`; `call`, `result` and `odd` of a buffer (`odd` changes with each call, so that a call that does nothing where it should is not taken for a stutter); `before` and `depth`; `levels`; `processed`,
`marked`, `owed` and `since`; `known`; `seen`; `scarce`.

Definitions with a comment "Mutant:" are no part of a model. Each is a plausible bug
(a dropped reset, a swapped order, an off-by-one) in the definition that follows it;
`PROJECT.json` names the property that fails when it takes that definition's place.

## 3. Runs

| Run | Module, cfg | Question and bounds |
| --- | --- | --- |
| `mutex` | `MCMutexLock`, `MCMutexLock.cfg` | Two doors, recursion two deep, no bound on calls: exclusion, order, `owner()`, count, flags, and that `lock()` is granted while no `try_lock()` fails. Proofs cover more doors. |
| `semlock` | `MCSemLock`, `MCSemLock.cfg` | Three processes of one thread, recursion three deep: it implements `RecursiveLock`, and its owner never waits for itself. |
| `router` | `MCEventRouter`, `MCEventRouter.cfg` | Trapper, listener and a monitor of the router's own events, two generators, three calls of the program (each posts an event of its own, so six postings nest three deep). Trappers may call too. The trapper is subscribed twice to one event of the router, so that it may be offered it again while it has it. |
| `generator` | `MCEventGenerator`, `MCEventGenerator.cfg` | A chain of two generators, one listener at its end and one that calls in the middle, five calls. The router's own generator has a source on either side, since `removeListener(el)` goes through the generators in order. |
| `machine` | `MCStateMachine`, `MCStateMachine.cfg` | Six nodes, six transitions: a fork, a join on completions, an alternative, and a second part that follows any two events of the first, which makes 144 wirings. No bound on events; deadlock is checked, and that these machines are `WellMade`. |
| `timers` | `MCEventTimers`, `MCEventTimers.cfg` | Two listeners, two sources, two heap cells, delays 0 and 1, three calls, a clock of two ticks: re-arming in the round, removal, cells that are used again. |
| `membuf` | `MCMemBuf`, `MCMemBuf.cfg` | Every sequence of calls on four entries: ends, neighbours, pairs that are not neighbours, `swap` with `end()` or of an entry with itself, a full buffer; each does what the list operation of its name does with its arguments, and returns the same entry. |
| `queue_wait` | `MCMessageReceiver`, `MCMessageReceiver.cfg` | Two senders, two entries, WAIT, three messages; a receiver that is subscribed and one that comes late; the queue may close. |
| `queue_policies` | `MCMessageReceiver`, `MCMessageReceiverPolicies.cfg` | Liveness: one receiver, subscribed from the start, two senders, two entries, five messages, and a policy that changes to a dropping one while a sender waits. |
| `motion` | `MCMotionManager`, `MCMotionManager.cfg` | Two motions, two calls in each handler of a behavior, any number of handlers and rounds of outputs, messages that arrive late and in between; deadlock is checked. |
| `motion_live` | `MCMotionManager`, `MCMotionManagerLive.cfg` | One motion, two slots, three calls in a handler: removed slots come back. |
| `pool` | `MCWorldStatePool`, `MCWorldStatePool.cfg` | Three buffers, as in the code (`WORLDSTATEPOOL_NUM_STATES`), four frames, the second with data that `loadBuffer` cannot read, and Motion's feedback; deadlock is checked. |

Bounds. `MaxCalls` limits what the program calls, in `motion` what one handler calls; the
nesting depth, the number of postings and of timers follow from it. Three calls are
enough for a call within a call within a call, which is where a resumed posting meets an
empty queue. Two heap cells make `new` return the cell freed last. `MaxMessages` above
`MAX_ENTRIES` fills a queue and reuses its slots. `numSIDs`, `Never` (15, the largest
unsigned value) and `MaxTime` only need to be larger than what the calls can reach.
`MaxMotions` is 4 in `motion` because with fewer slots one is given to a new motion while
the messages about the last one are under way, and then `TableIsSound` does not hold
(section 4); `QueueLen` is more than can be under way. Both are just the `Room` for which
section 5 has the proofs. Four frames for three buffers
make the pool use each buffer and take one back, also after a load that failed; the proofs cover more of both. Senders
are symmetric in `queue_wait` and motions in `motion`, which check no liveness. Runs
whose program stops at its bound say so with `CHECK_DEADLOCK FALSE`; the others are
checked for deadlock.

What the passing runs assume, because the code is not right without it, is in section 4.

Fairness.
- `mutex`: a process inside a call runs on, and whoever has the lock gives it back;
  nobody has to ask for it.
- `router`: the dispatch loops go on and handlers return; the program need not call
  anything.
- `machine`: a call that has begun goes on (it is one thread); the world need not post.
- `timers`: the clock runs and the main loop calls `processTimers` again and again.
- `queue_policies`: threads that can run do, a `finish()` that was begun is carried on,
  subscribed receivers are started (`Thread::stop` itself waits for a thread that is not
  running yet), and a sender that polls gets the lock when there is room from some time
  on.
- `motion_live`: handlers of behaviors and rounds of the output loop end, and messages are
  taken up. What waits for a lock is strongly fair, as a `MutexLock` is granted in order of
  arrival (`FirstComeFirstServed`, proved).
- `pool`: a process goes on with what it has begun. Strong fairness for the lock of a
  buffer, for the reason above, and for taking up the newest frame, as each process reads
  its messages between two other tasks.

All the rest is weak fairness: it asks nothing of a step that is disabled now and then.

## 4. Where the code needs its callers' help

Each line is a behaviour of the code that the passing runs leave out or condition. To see
it, change the constant, or check the property, in the cfg of the run.

| Run, and what to change | Code | What happens |
| --- | --- | --- |
| `mutex`: `LockIsGranted` instead of `GrantedUnlessTriesFail` | `IPC/MutexLock.h:595-601` | Four failed `try_lock()`s bring a door's two-bit turn back to the copied value; the next `lock()` there and the one that waits wait for each other. Line 412 says `lock()` blocks until a lock is achieved. |
| `semlock`: `Threads <- TwoOfOne`, `process <- SameProcess` | `IPC/MutexLock.h:254` | Two threads of one process: between the writes of `owner_index` and `owner_thread` the new owner's thread is the old one's, who enters as if recursively. |
| `router`: `TrappedUnlessReentered` and `DeliveredInOrder` except for an event whose own trapper calls the router while it has it (`reentered`) | `Events/EventRouter.cc:508` | Such a trapper does not keep the event from the listeners, though it returns true (`Events/EventTrapper.h:21`): the loop of its own call delivers it. |
| `router`: `Heard(...)` instead of `"trapped"` for a trapped event that reaches the monitor | `Events/EventRouter.cc:508` | Inside the call of a trapper another trapper takes the event; the first one then returns false, and its loop goes on to the listeners with an event that is old by now. `NewsIsTrue` therefore counts it as trapped. |
| `generator`: `Overlapping = TRUE` | `Events/EventGeneratorBase.cc:9-12`, `16-21` | A generator that is stopped by a listener to the event that its start posts stays subscribed; one that is started by a listener to the events that its stop posts loses its new subscription to what is left of the loop. |
| `machine`: `Wirings <- Shared` | `Behaviors/Transition.cc:15` | Two transitions of a node that one event makes fire both do, as the first only stops the node after it has posted: two nodes of one part are active. |
| `machine`: `"e"` before `"b"` in `MCNodes`, without the `ASSUME` | `Behaviors/StateNode.cc:57` | A reaction to the stop of a subnode may start one that the loop of the parent's stop has passed: it stays active, with its transitions, below a parent that is not. |
| `machine`: `follow` listens for `Z` in `Wired`, without the `ASSUME` | `Behaviors/Transition.cc:15` | The event that stops the root also fires a transition: the stop is delivered in the middle of `fire()`, which then starts its destination below a stopped root. |
| `machine`: `join` listens for `Event("start", "c")` and starts `"f"`, without the `ASSUME` | `Behaviors/StateNode.cc:43-50` | A transition of `b` and `c` stops `c` while it posts its start. `DoStart()` enables the next transition before it looks whether it was stopped: that one, of nodes none of which is active, listens from then on. |
| `timers`: `TouchesPending = TRUE` | `Events/EventRouter.cc:71` | A timer removed in the round in which it is due goes off all the same, from memory that was freed. |
| `queue_wait`: `InitialPolicy = "DROP_OLDEST"` | `IPC/MessageReceiver.cc:131` | A message that took the slot of the one being processed is marked read unseen. |
| `queue_policies`: a receiver outside `Subscribed` | `IPC/MessageQueue.h:305` | It is counted as a reader of the messages that wait but not woken for them, so a sender may wait for it for good. |
| `motion`: `Habits <- Hasty` | `Motion/MotionManager.cc:655` | Removed before Main heard the echo of its addition, a motion is attached again by the echo, and its slot freed twice. |
| `motion`: `Habits <- Nests` | `Motion/MotionManager.cc:899` | A behavior that adds or removes while it has a motion checked out takes the two locks in the other order: Main and Motion wait for each other. |
| `motion`: `Habits <- Readds`, or fewer slots | `Motion/MotionManager.cc:687` | Messages name a slot or a region, not what was in it: those about the last one are taken for the next. |
| `pool`: `scarce` taken out of `BuffersAreRight` | `Shared/WorldStatePool.cc:377` | With all buffers in use a writer takes one that is being written for an older frame; the assertions at `Shared/WorldStatePool.cc:163` and `Motion/Motion.cc:212` then fail. |

Also found in `pool`, and no property says otherwise: with three buffers the oldest unused
one may be the newest that is complete. The writer then finds its source older than
before and throws the frame away, and what behaviors see may go back in time, without
`scarce` ever being true. `NeverScarce` holds with five buffers (TLC, six frames), so it is the number that the code has which makes buffers scarce.

## 5. Proofs

All proofs assume only what the modules assume of their constants, but for what is said
below.

`MutexLock_proofs` proves, for every `num_doors` and `MaxLevel` in `Nat \ {0}`, that
`Spec` implies `[]TypeOK`, `[]MutualExclusion`, `[]FirstComeFirstServed` and
`[]Bookkeeping` (whose parts are `OwnerIsHolder`, `LevelsBalanced`, `NoFlagLeftBehind`).
None of these is inductive, so `IndInv` adds:
- `FlagsInv`: a flag is up exactly between the lines that raise and lower it, and
  `CounterInv`: where the loop counter is in each loop;
- `OneSeesTheOther`: of two processes in the Burns-Lamport part, the lower one cannot have
  passed the higher door while the higher one has passed the lower door, because each
  raises its own flag before it reads the other's. Exclusion follows from it at the point
  where both have passed all doors;
- `CountInv`: the count is the holder's own, and is not zero only while there is one;
- `AheadInv`, `NobodyAhead`: who was past the doorway earlier still shows the turn that
  was copied from its door, so those who came later do not pass that door.

`SemLock_proofs` assumes one thread per process (`OneThreadEach`; section 4 has what
happens otherwise). Its invariant says that one thread is inside at most and the semaphore
is zero when none is, that its value is the depth of whoever is inside, also between the
two looks of `unlock()`, and that `owner_index` names a process exactly while its thread
has the lock or is about to write `owner_thread`. From it follow
exclusion, that an owner does not wait for itself, the balance of levels, and
`ImplementsLock`: each step is one of `RecursiveLock` or none.

`EventRouter_proofs` holds for any subscribers, depth and number of calls. The argument is
about the stack: the numbers in the queue increase, the topmost loop serves the front
(`QueueInv`), every loop below waits for a handler (`StackInv`), an event is with its
trappers or with its listeners (`TrapInv`), and nobody was given an event newer than one
that is queued (`OrderInv`). `IndInv`, the conjunction of these, knows nothing of the
members of the vectors of subscribers, and gives `TrappedUnlessReentered`
and the half of `QueueIsSound` that is about the queue. The others take
the vectors too:
- `TypeInv` is `TypeOK` with the continuations that a loop over the generators can have:
  nobody adds or removes the Monitor. `QueriesAgree` is a fact about any two mappers of
  their type (`QueriesTell`). `DeliveredInOrder` follows from `OrderInv` with the sorting of
  steps below, as only a delivery gives a listener anything (`SentBySending`), and it has
  asked `verifyMapping`.
- `DeliveryInv`: in each posting, `l` is the end of those due, those sent the event are its
  beginning, but for who has unsubscribed (`Delivered`); what has left the queue was
  trapped or has no listener left; and who is in `l` and has not unsubscribed is still
  subscribed, so that `verifyMapping` passes over nobody else. `DeliveredToAll` follows.
- `NewsInv`: the latest queued event about a generator says what `hasListeners` says, and
  has yet to go to the Monitor unless the Monitor knows; when none is queued, it knows. A
  queued event that is not the first has not been given to it, so an old event cannot
  overtake. `NewsIsTrue` follows, if the program posts no events in the name of the router
  (`TrueNews`), which the configuration of `router` has too.

`StepIs` sorts the steps of the router into six kinds (a post with the change it announces, a return, a
move of the topmost loop, the end of a posting, a trapping, a delivery), and each invariant
is preserved by each kind. `Without`, the code's `std::remove`, counts the places that are
kept (`WithoutIs`); that it removes in steps as at once (`WithoutTwice`) is proved by the
least prefix for which it does not.

The same module has the proofs about `EventGenerator`, for any generators, chains of them,
listeners and calls, under three conditions: `~Overlapping` (section 4 has what happens
otherwise), `RouterIsUntrapped` (nobody may trap the events of the router itself, from
which generators learn of their listeners) and `SourcesAreOthers` (generators are
listeners, not of the router's events, and start without subscriptions). The
configuration of `generator` satisfies all three.
- A step of a generator is for the router one of the six kinds, or changes nothing
  (`Usual`), so the invariants above hold with generators on top (`GeneratorsAreServed`).
- What `SubscriptionsAgree` says of a router at rest is, in the middle of a nest of posts, a
  matter of what is under way. `LiveInv`: between its start and its stop, a generator is
  subscribed as it believes (`Exact`), and if that is not what is wanted, an event about its
  listeners is on its way to it or at hand, or its start has yet to look. An event on its
  way is not lost, because each change posts an event after it was made, and who is due an
  event and still subscribed gets it (`DeliveryInv`).
- `StopInv`: the loops of `DoStop()` have left nothing of the generators that they have
  been through, even though each removal posts an event that others react to, as nobody but
  the generator itself subscribes it. `PlaceInv`: it handles an event on top of the stack
  only, so that no second call of it is below.

`BeliefsAgree` and `StoppedHearsNothing` follow.

`WorldStatePool_proofs` holds for any number of buffers and frames. `IndInv` (what each
process has at each place, who has the locks, the counts, the order of the list) is
inductive whatever happens and gives `PoolIsSound`. `QuietInv` relates what is in a buffer
to what its writer has done so far and what others may do with it meanwhile; it is
inductive as long as no buffer was scarce, which gives `BuffersAreRight` and
`ReadersUndisturbed` under that condition, whatever frames are corrupted.

`StateMachine_proofs` holds for any nodes, transitions, thresholds and wirings of a machine
that is `WellMade`, which the configuration of `machine` is, however its transitions react
to the events of the machine itself:
- nodes are named once, and the sources of a transition are the nodes that have it, with
  all their transitions if they share one (`NamedOnce`, `Connected`);
- what stops the root is an event from outside that no transition listens for
  (`StopIsForRoot`);
- a transition that reacts to the machine itself has one source, and starts only nodes that
  come after those it hears of, share no transition, and are not among those the root
  starts, but for the first two (`ReactionsGoForward`).

Section 4 has what TLC finds without the order of the nodes, without `StopIsForRoot`, and
for a reaction of two sources. That a reaction starts no node that shares a transition, and
none that the root starts later, the proof needs; no machine was found that is wrong without
it. `ActivityAgrees` is about a machine at rest. In between, its parts fail in ways that only
the calls under way explain, so `IndInv` is about the stack:
- `StackInv`: what may be directly above a call (`OnTop`) and anywhere above it (`Over`).
  Within a start or a stop only reactions fire, and they do not stop or start the node
  in question; and while the root stops its subnodes, whatever goes on is about nodes that
  it has not passed (`Late`). That is where the order of the nodes is needed.
- `KnowInv`: what a call that is under way may rely on when those above it have returned: a node
  being stopped is active, with the transitions before the current one disabled; a source
  that `fire()` has passed is not active, or somebody below is stopping it.
- `WaitInv`, `RootInv`: the first subnodes wait below the root, and nothing goes on while the
  root is not active. `PendingInv`: who is owed an event, and that nothing is owed while a
  call is in between two of its posts.
- `EnabledInv`: the transitions that listen are those enabled and not just being disabled;
  and a transition of an active node is enabled, unless a call under way is about to
  enable it or to stop the node (`Excused`). `SeenInv`: who follows the events is behind only
  where a node has told of its stop and not ended it.

Each action preserves each part; with the stack empty, nothing is excused and
`ActivityHolds` follows.

`EventTimers_proofs` holds for any listeners, sources, delays, heap and clock, under
two conditions: no listener touches a timer whose turn in the round is still to come
(`TouchesPending = FALSE`; section 4 has what happens otherwise), and no time to come is out
of the range of an `unsigned int` (`NoWrap`). The invariant says that the vector points to
just the allocated entries, each once, sorted by time, one entry of a key (`VectorInv`);
that the copy which a round works through has only allocated entries (`ProcessInv`); and
how the entries relate to the timers that are expected (`ArmedInv`): one whose turn in the
round is to come is due and has been moved on by its delay, any other is not early, or is
used up until the end of the round. It gives `VectorIsSound` and `FiresOnlyWhenDue`.

Of a buffer of any size, `MessageReceiver_proofs` proves first what concerns `ListMemBuf` and
`MemBuf`. The links are
described by two sequences of entries, the list and the free queue: `Is(b, u, f)` says that
every entry is in one of them, once, that `next` and `prev` link `u` in both directions and
`next` links `f`. One lemma per call of the buffer gives the sequences after it, and that
the chains read off the links (`InUse`, `Free`) are `u` and `f`. `ChainsAgree` follows, and
`ImplementsList`: each call on the links does to the sequences what the operation of its
name does with its arguments, and returns the same entry (`NewStep`, `GoneStep`, `SwapStep`,
`ListStep`). The recursion that
reads a chain is a function on numbers; where a fact needs induction over it, the proof
takes the least number for which it fails (`NatLessThanWellFounded`, `WFMin`), as the
library's induction theorems cannot be used here.

The same module has the proofs about `MessageReceiver`, for any senders, receivers, number of
entries and of messages, with two invariants.
- `Base` holds under every policy. The queue's links are those of a buffer (as above), the
  counts of readers are those of the flags, and each receiver's `curit` is `Near`: at the
  end, in the list, or in a part of the free queue that it has read to its end. That is
  what makes an iterator into freed slots harmless: the links of that part lead to the last
  freed entry, and from there into the list or to its end (`LastLink`). `TypeOK` and
  `ScanEnds` follow.
- `Orderly` adds what holds if no message that was sent is dropped (`NoDrop`: `DROP_OLDEST`
  is neither the first policy nor a later one; section 4 has what happens otherwise). The
  numbers increase along the list, a receiver that has read a message has read those before
  it, and none is read by all (`InOrder`). For each receiver, `Reader` says where in the
  list it has read up to, in terms of `nextMessage` and of the message at `curit` between
  `markRead`'s two steps; that `curit` is at its first unread message while it is processed
  (`AtFirst`), and, before it is moved on, at its last read one, or at the slot that this
  left as, which is the last freed one or holds the newest message (`Passed`, `LeftBehind`);
  and that with its semaphore at 0 a thread about to wait has read what was sent since it
  registered. `Past` says that the numbers it processed increase and stay below the one it
  is at. `MarkedIsProcessed`, `EachOnceInOrder`, `LeavesWhenReadByAll` and `NoMissedWakeup`
  follow, and so does a fact about the code: `markRead`'s search for a later message never
  goes a step (`markFindNextNever`).

  Three facts carry the steps that change the list: a new message is one that nobody has
  read; the message that `markRead` takes out is the oldest; and those that `removeReceiver`
  takes out, because only the one who leaves had not read them, are the oldest ones.

`MotionManager_proofs` holds for any slots and any number of calls, of behaviors that have
none of the `Habits` (section 4 has what happens otherwise), for as many motions as there
is `Room` for: the table has twice as many slots, and the queue is longer than three
messages for each. The code has 64 slots (`Motion/MotionManager.h:91`) and a queue of 50
(`local/tekkotsu/sim.h:24`), so that is 16 motions at a time, those counted that were
removed while a message about them is under way; a motion of the model is a region, which
may be added again when there is none. What the table promises is not
inductive, as it does not say which messages about a slot are under way. `IInv` does: a
slot is in one of six phases, in each of which it is determined what Main, Motion, their
inboxes and Motion's next lines have of it.
- `FreeSlot`, of which nothing is known and nobody has anything, except that somebody may
  still hear that it was given up;
- `Added`: Main has it and Motion has yet to hear of it or to start it; `Running`: both
  have it;
- `Revoked`: Main removed it and Motion has yet to hear so, and perhaps even of the
  addition, which comes first; `Ended`: Motion stopped the motion and is about to let go;
- `Pruned`: Motion removed it and Main has yet to hear so.

`MotionsInv` and `RegionsInv` say that a motion has one slot and one phase, `InboxInv` that
nothing is told twice and in which order, and `Places` what each process may rely on
between two steps: what a behavior looked at when it called is still so when it has the
lock, a slot that Main holds is not removed, a round of outputs goes through running motions.
`SlotStep` reduces each step to the one slot whose life goes on; the others have the same
regions and the same messages.

`IInv` is inductive while no message is lost (`NoDrop`) and no slot is used again before
all have heard that it was given up (`ReusedLate`). Both depend on sizes, since slots are
used again in the order they were given up, and follow from `Room` by counting. A slot that
is given up goes to the end of the free ones, and there are at least as many free as there
are motions; before its turn comes, each motion was added, and the additions wait behind
the message about the slot (`ReuseInv`), but the one that takes the slot does not wait. So
too, the messages in an inbox are additions, at most one of a motion, and removals, whose
slots are in use or were given up since (`QuotaInv`); that is three of a motion at most.
`RoomIsEnough` says so, and `TableStaysSound`, `NothingIsForgotten` and `ToldOnce` are the
three properties of `motion` under `Room`.

Only model-checked: `OneStateEach`, which is about the machine of the configuration, and all
liveness, as fairness and `ENABLED` are out of the provers' reach. What a recursive operator
computes for every input is, too, so the models proved about have none: `Those` in
`StateMachine` selects by places. Of the queue with `DROP_OLDEST` only what `Base` gives is
proved, as its order and marks are not what they are without.

## 6. Not modelled

- Of the router: vectors and maps that are empty rather than absent, which `clean()` deletes
  and every query takes for absent; events for other processes and robots; exceptions that are rethrown
  (the default handler reports and continues); `reset()`; several threads in one router.
- Of the locks: `lookup()` and `forget()`, which assign doors and whose comment (line 649)
  admits a race; the memory order of the processor, as the lock was written for one core;
  a semaphore manager that has failed; the `pthread` variant of builds without shared
  memory.
- Of the queue: `readMessage`, filters, status listeners and their thread, a callback that
  refuses a message; reference counts of regions; signals.
- Of the motions: `RemoveAccess`, priorities and the mixing of outputs, other processes
  that add motions.
- Of state machines: setup and teardown, nodes that are not retained, the other kinds of
  transitions. Subscribing is one step here; module `EventRouter` has its details.
- Of the pool: reads that block and writes that do not, which nobody uses; heartbeats
  without sensor data.
- `RCRegion`, `SoundManager`, `EventTranslator`, `RemoteRouter`, `Simulator`, Controller
  and demonstrations, Wireless, Vision, numerics and decoders: see `PROJECT.json`. Nearly all
  of the repository's lines are in the last four and in copied libraries, and have no
  protocol to check.

The hazards of these parts are in `PROJECT.json`, each with a note.

## 7. Plan

1. Done: both locks, the router and its timers, allocator, queue with receivers and pool
   of world states, motions, generators and state machines, all with proofs.
2. `RCRegion` under the queue (counts that several processes change), then
   `SoundManager` and `EventTranslator` on `MessageQueue`, and the run levels of `Simulator`.
3. `StateMachine` over `EventRouter` itself in place of its order of delivery, and `MutexLock`
   shown to implement `RecursiveLock` with order of arrival.
4. Proofs: what `OneStateEach` says of the machine of the configuration, for any machine
   whose parts are told apart in `WellMade`; and whether `ReactionsGoForward` can ask less.
