---------------------------- MODULE WorldStatePool ----------------------------
(***************************************************************************)
(* WorldStatePool: the buffers for the state of the world that the         *)
(* processes Main and Motion share, and the sensor updates that both of    *)
(* them write into it.                                                     *)
(*                                                                         *)
(* A process does one thing at a time, under the lock of its EntryPoint:   *)
(* a behavior reads the newest complete buffer; gotSensors() and the       *)
(* update of PIDs ask for a second one to read from and one to write to.   *)
(* What getCurrentReadState(), getCurrentWriteState() and the two          *)
(* done...State() do under the lock of the pool is a step; all else is     *)
(* read and written between such steps.                                    *)
(***************************************************************************)
EXTENDS Integers, Sequences, FiniteSets, SequencesExt, FiniteSetsExt

CONSTANTS
  NumStates,   \* NUM_STATES, the buffers
  FeedbackGenerated,  \* whether Motion has to add feedback to each frame
  MaxFrame,    \* bound: the last sensor frame
  Corrupted,   \* the frames whose data loadBuffer() cannot read
  None

ASSUME PoolAssumption ==
  /\ NumStates \in Nat \ {0, 1} /\ MaxFrame \in Nat
  /\ FeedbackGenerated \in BOOLEAN /\ Corrupted \subseteq Nat
  /\ None \notin Int \cup {"Main", "Motion"}

Main == "Main"
Motion == "Motion"
Procs == {Main, Motion}
Buffers == 0..NumStates - 1
NoFrame == -1       \* before the first frame, which is 0; values of no one frame

VARIABLES
  order,      \* the buffers in the order their writing began
  frames,     \* the frame each buffer is for
  reading, writing,  \* how many read each buffer, write it or wait to write it
  status,     \* what has been applied to each buffer
  complete,   \* the buffers whose semaphore is zero
  writeLocks, \* per buffer, the process that has its lock
  sensors,    \* per buffer, the frame its sensor values are of
  frameNumber,  \* per buffer, the frame it says it is of: WorldState::frameNumber
  newest,     \* motion.frameNumber, of the last message sent
  received,   \* per process, the last message it took up
  pc, task, msg,  \* per process, where it is, in what, and the frame at hand
  held,       \* the buffer that defaultRead has got it
  src, buf,   \* those of its WriteRequest
  cache,      \* the request's [status, complete]
  scarce      \* history: a writer has found no buffer that nobody used

pool == <<order, frames, reading, writing, status, complete, writeLocks>>
states == <<sensors, frameNumber>>
world == <<newest, received>>
mine == <<pc, task, msg, held, src, buf, cache>>
vars == <<pool, states, world, mine, scarce>>

Sensors == "SENSORS_APPLIED"
Feedback == "FEEDBACK_APPLIED"
Blank == [status |-> {}, complete |-> FALSE]

Init ==
  /\ order = [k \in 1..NumStates |-> k - 1]
  /\ frames = [b \in Buffers |-> 0]
  /\ reading = [b \in Buffers |-> 0] /\ writing = [b \in Buffers |-> 0]
  /\ status = [b \in Buffers |-> {}]
  /\ complete = Buffers \ {NumStates - 1}
  /\ writeLocks = [b \in Buffers |-> None]
  /\ sensors = [b \in Buffers |-> NoFrame]
  /\ frameNumber = [b \in Buffers |-> NoFrame]
  /\ newest = NoFrame /\ received = [p \in Procs |-> NoFrame]
  /\ pc = [p \in Procs |-> "idle"] /\ task = [p \in Procs |-> None]
  /\ msg = [p \in Procs |-> None]
  /\ held = [p \in Procs |-> None]
  /\ src = [p \in Procs |-> None] /\ buf = [p \in Procs |-> None]
  /\ cache = [p \in Procs |-> Blank]
  /\ scarce = FALSE

Labels == {"idle", "reading", "isUnread", "request", "source", "choose", "wait", "verify",
           "retry", "load", "apply", "store", "done", "releaseSource"}
At(p, label) == pc[p] = label
Goto(p, label) == pc' = [pc EXCEPT ![p] = label]

-----------------------------------------------------------------------------
(* Which buffer to read and which to write. *)

\* getCurrentReadState() without blocking: the newest complete buffer, or else
\* the last one (whose place in the list's array is its own number).
newestComplete ==
  LET done == {k \in DOMAIN order : order[k] \in complete}
  IN  order[IF done = {} THEN NumStates ELSE Max(done)]

\* The places before the first buffer of frame n or a newer one.
Older(n) == {k \in DOMAIN order : \A j \in 1..k : frames[order[j]] < n}
UnusedByWriters(n) == {k \in Older(n) : writing[order[k]] = 0}  \* mutant
Unused(n) == {k \in Older(n) : writing[order[k]] = 0 /\ reading[order[k]] = 0}
Written(n) == {k \in Older(n) : writing[order[k]] > 0}

\* selectWriteState() with blocking, as a place in order: that of the buffer that
\* has frame n already, none if a newer frame is there, or that of the oldest
\* buffer that nobody uses, or else of the oldest that somebody writes.
selectWriteState(n) ==
  LET least(places) == IF places = {} THEN None ELSE Min(places)
  IN  IF frames[Last(order)] = n THEN NumStates
      ELSE IF frames[Last(order)] > n THEN None
      ELSE least(IF Unused(n) # {} THEN Unused(n) ELSE Written(n))

-----------------------------------------------------------------------------
(* A process takes the EntryPoint's lock and the buffer to read. *)

\* The simulator or the robot sends the next sensor frame.
SendFrame ==
  /\ newest < MaxFrame
  /\ newest' = newest + 1
  /\ UNCHANGED <<pool, states, received, mine, scarce>>

\* getCurrentReadState(), for a behavior, for the PIDs or for a message.
Begin(p, what, n, next) ==
  /\ At(p, "idle")
  /\ held' = [held EXCEPT ![p] = newestComplete]
  /\ reading' = [reading EXCEPT ![newestComplete] = @ + 1]
  /\ task' = [task EXCEPT ![p] = what]
  /\ msg' = [msg EXCEPT ![p] = n]
  /\ Goto(p, next)
  /\ UNCHANGED <<order, frames, writing, status, complete, writeLocks, states, newest, src, buf, cache, scarce>>

Behave(p) == Begin(p, "behave", None, "reading") /\ UNCHANGED received

UpdatePIDs(p) == p = Motion /\ Begin(p, "pids", None, "request") /\ UNCHANGED received

\* Messages come in order; older ones may have been dropped.
GotSensors(p) ==
  \E n \in received[p] + 1..newest :
    /\ Begin(p, "sensors", n, "isUnread")
    /\ received' = [received EXCEPT ![p] = n]

\* poll() of the MotionExecThread asks for the frame that is the newest now.
RequestNewest(p) ==
  /\ At(p, "request")
  /\ msg' = [msg EXCEPT ![p] = IF newest = NoFrame THEN 0 ELSE newest]
  /\ Goto(p, "source")
  /\ UNCHANGED <<pool, states, world, task, held, src, buf, cache, scarce>>

\* isUnread(), all without the lock: the message is old, or there is no buffer
\* for it, or the other process has completed it.
IsUnread(p) ==
  /\ At(p, "isUnread")
  /\ LET k == selectWriteState(msg[p])
         done == frames[order[k]] = msg[p] /\ order[k] \in complete
         unread == msg[p] = newest /\ k # None /\ ~done
     IN  Goto(p, IF unread THEN "source" ELSE "reading")
  /\ UNCHANGED <<pool, states, world, task, msg, held, src, buf, cache, scarce>>

ReadSource(p) ==
  /\ At(p, "source")
  /\ src' = [src EXCEPT ![p] = newestComplete]
  /\ reading' = [reading EXCEPT ![newestComplete] = @ + 1]
  /\ Goto(p, "choose")
  /\ UNCHANGED <<order, frames, writing, status, complete, writeLocks, states, world, task, msg, held, buf, cache, scarce>>

\* A newer frame is there.
ChooseNothing(p) ==
  /\ At(p, "choose") /\ selectWriteState(msg[p]) = None
  /\ scarce' = (scarce \/ frames[Last(order)] < msg[p])
  /\ Goto(p, "apply")
  /\ UNCHANGED <<pool, states, world, task, msg, held, src, buf, cache>>

ChooseBufferAsItWas(p) ==  \* mutant: the old status and semaphore stay
  /\ At(p, "choose") /\ selectWriteState(msg[p]) # None
  /\ LET k == selectWriteState(msg[p])
         b == order[k]
     IN  /\ buf' = [buf EXCEPT ![p] = b]
         /\ writing' = [writing EXCEPT ![b] = @ + 1]
         /\ IF frames[b] = msg[p]
            THEN UNCHANGED <<order, frames, status, complete, scarce>>
            ELSE /\ order' = Append(RemoveAt(order, k), b)
                 /\ frames' = [frames EXCEPT ![b] = msg[p]]
                 /\ UNCHANGED <<status, complete>>
                 /\ scarce' = (scarce \/ writing[b] > 0)
  /\ Goto(p, "wait")
  /\ UNCHANGED <<reading, writeLocks, states, world, task, msg, held, src, cache>>

\* A buffer for a new frame goes to the back of the list, blank.
ChooseBuffer(p) ==
  /\ At(p, "choose") /\ selectWriteState(msg[p]) # None
  /\ LET k == selectWriteState(msg[p])
         b == order[k]
     IN  /\ buf' = [buf EXCEPT ![p] = b]
         /\ writing' = [writing EXCEPT ![b] = @ + 1]
         /\ IF frames[b] = msg[p]
            THEN UNCHANGED <<order, frames, status, complete, scarce>>
            ELSE /\ order' = Append(RemoveAt(order, k), b)
                 /\ frames' = [frames EXCEPT ![b] = msg[p]]
                 /\ status' = [status EXCEPT ![b] = {}]
                 /\ complete' = complete \ {b}
                 /\ scarce' = (scarce \/ writing[b] > 0)
  /\ Goto(p, "wait")
  /\ UNCHANGED <<reading, writeLocks, states, world, task, msg, held, src, cache>>

LockBuffer(p) ==
  /\ At(p, "wait") /\ writeLocks[buf[p]] = None
  /\ writeLocks' = [writeLocks EXCEPT ![buf[p]] = p]
  /\ Goto(p, "verify")
  /\ UNCHANGED <<order, frames, reading, writing, status, complete, states, world, task, msg, held, src, buf, cache, scarce>>

Verify(p) ==
  /\ At(p, "verify")
  /\ Goto(p, IF buf[p] = Last(order) THEN "load" ELSE "retry")
  /\ UNCHANGED <<pool, states, world, task, msg, held, src, buf, cache, scarce>>

DoneWritingIfCompleted(p, completed) ==  \* mutant: a writer that gives up still counts
  /\ writing' = [writing EXCEPT ![buf[p]] = IF completed THEN @ - 1 ELSE @]
  /\ complete' = IF completed THEN complete \cup {buf[p]} ELSE complete
  /\ writeLocks' = [writeLocks EXCEPT ![buf[p]] = None]
  /\ buf' = [buf EXCEPT ![p] = None]
  /\ UNCHANGED <<order, frames, reading, status, states, world, task, msg, held, src, cache, scarce>>

DoneWritingLocked(p, completed) ==  \* mutant: a writer that gives up keeps its lock
  /\ writing' = [writing EXCEPT ![buf[p]] = @ - 1]
  /\ complete' = IF completed THEN complete \cup {buf[p]} ELSE complete
  /\ writeLocks' = [writeLocks EXCEPT ![buf[p]] = IF completed THEN None ELSE @]
  /\ buf' = [buf EXCEPT ![p] = None]
  /\ UNCHANGED <<order, frames, reading, status, states, world, task, msg, held, src, cache, scarce>>

\* doneWritingState(): completed or not.
DoneWriting(p, completed) ==
  /\ writing' = [writing EXCEPT ![buf[p]] = @ - 1]
  /\ complete' = IF completed THEN complete \cup {buf[p]} ELSE complete
  /\ writeLocks' = [writeLocks EXCEPT ![buf[p]] = None]
  /\ buf' = [buf EXCEPT ![p] = None]
  /\ UNCHANGED <<order, frames, reading, status, states, world, task, msg, held, src, cache, scarce>>

\* A newer frame has come meanwhile: back to square one.
Retry(p) == At(p, "retry") /\ DoneWriting(p, FALSE) /\ Goto(p, "choose")

LoadStatus(p) ==
  /\ At(p, "load")
  /\ cache' = [cache EXCEPT ![p] = [status |-> status[buf[p]], complete |-> buf[p] \in complete]]
  /\ Goto(p, "apply")
  /\ UNCHANGED <<pool, states, world, task, msg, held, src, buf, scarce>>

-----------------------------------------------------------------------------
(* gotSensors() applies what it has, and releases what it got. *)

\* state: a request that got no buffer leaves the one that is read already.
Target(p) == IF buf[p] = None THEN held[p] ELSE buf[p]

IsComplete(applied) == Sensors \in applied /\ (FeedbackGenerated => Feedback \in applied)

\* loadBuffer() fails, and leaves the state as it was or a part of it overwritten;
\* the frame's number, if it got as far as that, is not restored either.
LoadFails(t, n) ==
  /\ sensors' \in {sensors, [sensors EXCEPT ![t] = NoFrame]}
  /\ frameNumber' \in {frameNumber, [frameNumber EXCEPT ![t] = n]}

\* read() applies the sensors, then the feedback.  It does nothing if the other
\* process has done all, and stops when the data is corrupted, or when it finds the
\* source older than the buffer, whose sensors it has overwritten by then.
Apply(p) ==
  /\ At(p, "apply")
  /\ LET t == Target(p)
         first == Sensors \notin cache[p].status
         corrupted == first /\ msg[p] \in Corrupted
         fresh == first => ~corrupted /\ frameNumber[t] <= frameNumber[src[p]]
         applied == cache[p].status \cup {Sensors}
                      \cup (IF FeedbackGenerated /\ p = Motion THEN {Feedback} ELSE {})
     IN  IF task[p] # "sensors" \/ msg[p] # newest \/ cache[p].complete
         THEN UNCHANGED <<states, cache>>
         ELSE /\ \/ corrupted /\ LoadFails(t, msg[p])
                 \/ /\ ~corrupted
                    /\ sensors' = IF first THEN [sensors EXCEPT ![t] = msg[p]] ELSE sensors
                    /\ frameNumber' = IF first /\ fresh THEN [frameNumber EXCEPT ![t] = msg[p]] ELSE frameNumber
              /\ cache' = IF fresh
                          THEN [cache EXCEPT ![p] = [status |-> applied, complete |-> IsComplete(applied)]]
                          ELSE cache
  /\ Goto(p, IF buf[p] = None THEN "releaseSource" ELSE "store")
  /\ UNCHANGED <<pool, world, task, msg, held, src, buf, scarce>>

StoreStatus(p) ==
  /\ At(p, "store")
  /\ status' = [status EXCEPT ![buf[p]] = cache[p].status]
  /\ Goto(p, "done")
  /\ UNCHANGED <<order, frames, reading, writing, complete, writeLocks, states, world, task, msg, held, src, buf, cache, scarce>>

Complete(p) == At(p, "done") /\ DoneWriting(p, cache[p].complete) /\ Goto(p, "releaseSource")

ReleaseSource(p) ==
  /\ At(p, "releaseSource")
  /\ reading' = [reading EXCEPT ![src[p]] = @ - 1]
  /\ src' = [src EXCEPT ![p] = None]
  /\ cache' = [cache EXCEPT ![p] = Blank]
  /\ Goto(p, "reading")
  /\ UNCHANGED <<order, frames, writing, status, complete, writeLocks, states, world, task, msg, held, buf, scarce>>

Release(p) ==
  /\ At(p, "reading")
  /\ reading' = [reading EXCEPT ![held[p]] = @ - 1]
  /\ held' = [held EXCEPT ![p] = None]
  /\ msg' = [msg EXCEPT ![p] = None] /\ task' = [task EXCEPT ![p] = None]
  /\ Goto(p, "idle")
  /\ UNCHANGED <<order, frames, writing, status, complete, writeLocks, states, world, src, buf, cache, scarce>>

-----------------------------------------------------------------------------
Write(p) ==
  \/ RequestNewest(p) \/ IsUnread(p) \/ ReadSource(p)
  \/ ChooseNothing(p) \/ ChooseBuffer(p) \/ LockBuffer(p)
  \/ Verify(p) \/ Retry(p) \/ LoadStatus(p) \/ Apply(p)
  \/ StoreStatus(p) \/ Complete(p) \/ ReleaseSource(p)

Process(p) == Behave(p) \/ UpdatePIDs(p) \/ GotSensors(p) \/ Write(p) \/ Release(p)

Next == SendFrame \/ \E p \in Procs : Process(p)

Fairness ==
  \A p \in Procs : /\ WF_vars(Write(p)) /\ WF_vars(Release(p))
                   /\ SF_vars(LockBuffer(p)) /\ SF_vars(GotSensors(p))

Spec == Init /\ [][Next]_vars
FairSpec == Spec /\ Fairness

-----------------------------------------------------------------------------
TypeOK ==
  /\ order \in Seq(Buffers)
  /\ frames \in [Buffers -> 0..MaxFrame]
  /\ reading \in [Buffers -> Nat] /\ writing \in [Buffers -> Nat]
  /\ status \in [Buffers -> SUBSET {Sensors, Feedback}]
  /\ complete \subseteq Buffers
  /\ writeLocks \in [Buffers -> Procs \cup {None}]
  /\ sensors \in [Buffers -> NoFrame..MaxFrame]
  /\ frameNumber \in [Buffers -> NoFrame..MaxFrame]
  /\ newest \in NoFrame..MaxFrame
  /\ received \in [Procs -> NoFrame..MaxFrame]
  /\ pc \in [Procs -> Labels]
  /\ task \in [Procs -> {"behave", "pids", "sensors", None}]
  /\ msg \in [Procs -> 0..MaxFrame \cup {None}]
  /\ held \in [Procs -> Buffers \cup {None}]
  /\ src \in [Procs -> Buffers \cup {None}]
  /\ buf \in [Procs -> Buffers \cup {None}]
  /\ cache \in [Procs -> [status : SUBSET {Sensors, Feedback}, complete : BOOLEAN]]
  /\ scarce \in BOOLEAN

\* The counters are those of the requests under way, so that a buffer nobody uses
\* is never taken for one in use, nor the other way round, after retries too.
Uses(use, b) == {p \in Procs : use[p] = b}

CountsAgree ==
  \A b \in Buffers :
    /\ reading[b] = Cardinality(Uses(held, b)) + Cardinality(Uses(src, b))
    /\ writing[b] = Cardinality(Uses(buf, b))

\* The list has every buffer once, in the order of their frames, though buffers go
\* to the back for the one process while the other writes them for an older frame;
\* getCurrentReadState() and selectWriteState() both search it by that order.
OrderSorted ==
  /\ IsInjective(order) /\ Range(order) = Buffers
  /\ \A j, k \in DOMAIN order : j < k => frames[order[j]] <= frames[order[k]]

\* The bookkeeping of the pool is right.
PoolIsSound == TypeOK /\ CountsAgree /\ OrderSorted

\* There is always something to read, and it is whole: a complete buffer has the
\* sensors of the frame it says it is of, and, as long as nobody had to take a buffer
\* that somebody used, that is the frame the pool keeps it for.
CompleteIsWhole ==
  /\ complete # {}
  /\ \A b \in complete : \/ frameNumber[b] = sensors[b]
                         \/ scarce /\ (sensors[b] = NoFrame \/ frameNumber[b] \in Corrupted)
  /\ scarce \/ \A b \in complete : frameNumber[b] \in {frames[b], NoFrame}

\* The assertions of read() (WorldStatePool.cc:163) and Motion (Motion.cc:212): what
\* has feedback is complete, and only Motion gives it some, as long as nobody had to
\* take a buffer that somebody used.
FeedbackOnce ==
  scarce \/ \A p \in Procs :
    At(p, "apply") /\ task[p] = "sensors" /\ msg[p] = newest /\ Feedback \in cache[p].status
      => p # Motion /\ cache[p].complete

\* What there is to read, and to write on, is what it is said to be.
BuffersAreRight == CompleteIsWhole /\ FeedbackOnce

\* No sensor value changes under a reader, be it a behavior or the source of the
\* other process, as long as nobody had to take a buffer that somebody used.
ReadersUndisturbed ==
  [][\A b \in Buffers : sensors'[b] # sensors[b] =>
       scarce \/ \A p \in Procs : b \notin {held[p], src[p]}]_vars

\* Every call of a process comes to an end: none waits for ever for a buffer, and no
\* writer that finds a newer frame starts again for ever, whatever the other does.
CallsEnd == \A p \in Procs : ~At(p, "idle") ~> At(p, "idle")

\* With more buffers than both processes together can use, none is ever scarce.
NeverScarce == ~scarce
===============================================================================
