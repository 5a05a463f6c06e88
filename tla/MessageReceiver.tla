---------------------------- MODULE MessageReceiver ----------------------------
(***************************************************************************)
(* The threads about a MessageQueue: senders (MessageQueue::sendMessage),  *)
(* MessageReceivers (IPC/MessageReceiver.cc), each with a thread that      *)
(* waits for its semaphore and hands what it finds to a callback, and      *)
(* whoever starts and finishes them.  A call on the queue is one step;     *)
(* between two of them the others run.  Callbacks return true, as those of *)
(* the program do, and call nothing on this queue.                         *)
(***************************************************************************)
EXTENDS MessageQueue

CONSTANTS
  Senders,
  Subscribed,       \* the receivers constructed with startThread=false, subscribe=true
  InitialPolicy,    \* of the queue
  LaterPolicies,    \* those that setOverflowPolicy may be called with
  MayClose          \* whether close() may be called

ASSUME ReceiverAssumption ==
  Subscribed \subseteq Receivers /\ InitialPolicy \in Policies
    /\ LaterPolicies \subseteq Policies /\ MayClose \in BOOLEAN

VARIABLES
  queue,
  sender,      \* where each sender is in sendMessage
  calls,       \* how many calls of sendMessage there have been
  receiver,    \* the members of each MessageReceiver, and where its thread is
  \* history:
  processed,   \* what each receiver's callback was called with, in order
  marked,      \* what each receiver marked read
  owed,        \* what each receiver is counted as a reader of
  since        \* the first message sent after each receiver registered

vars == <<queue, sender, calls, receiver, processed, marked, owed, since>>
history == <<processed, marked, owed, since>>

Locations ==
  {"none", "launching", "wait", "peek", "check", "process", "find", "findNext", "note",
   "mark", "advance", "lower", "looped", "exited", "finished"}
NoMessage == -1   \* and lastProcessedMessage's -1U

ReceiverStates ==
  [at : Locations,
   finish : {"no", "stopping", "joining", "draining"},
   curit : Indices, nextMessage : 0 .. MaxMessages + 1,
   lastProcessedMessage : SerialNumbers \cup {NoMessage},
   msg : SerialNumbers \cup {NoMessage}]

Init ==
  /\ queue = NewQueue(Subscribed, InitialPolicy)
  /\ sender = [s \in Senders |-> "idle"]
  /\ calls = 0
  /\ receiver = [r \in Receivers |->
       [at |-> "none", finish |-> "no", curit |-> end, nextMessage |-> 0,
        lastProcessedMessage |-> NoMessage, msg |-> NoMessage]]
  /\ processed = [r \in Receivers |-> <<>>]
  /\ marked = [r \in Receivers |-> {}]
  /\ owed = [r \in Receivers |-> {}]
  /\ since = [r \in Receivers |-> 0]

-----------------------------------------------------------------------------
(* Senders.  A sender has the queue's lock to itself but for one case: while it *)
(* overwrites the oldest message's slot, receivers read its number without.     *)

Unlocked == \A s \in Senders : sender[s] # "writing"

Becomes(s, state) == sender' = [sender EXCEPT ![s] = state]

Posted(q, s) ==
  /\ queue' = q
  /\ owed' = [r \in Receivers |->
                IF r \in q.rcvrs THEN owed[r] \cup {q.numMessages - 1} ELSE owed[r]]
  /\ Becomes(s, "idle")
  /\ UNCHANGED <<processed, marked, since>>

Ignored(s) == Becomes(s, "idle") /\ UNCHANGED <<queue, history>>

\* sendMessage once it has the lock
Sending(s) ==
  \/ /\ queue.rcvrs = {}
     /\ queue' = CountUnsent(queue) /\ Becomes(s, "idle") /\ UNCHANGED history
  \/ /\ queue.rcvrs # {} /\ queue.isClosed
     /\ Ignored(s)
  \/ /\ queue.rcvrs # {} /\ ~queue.isClosed /\ ~Full(queue)
     /\ Posted(Post(queue), s)
  \/ /\ queue.rcvrs # {} /\ ~queue.isClosed /\ Full(queue)
     /\ \/ /\ queue.overflowPolicy = "DROP_OLDEST"
           /\ queue' = NewSlot(DropOldest(queue)) /\ Becomes(s, "writing") /\ UNCHANGED history
        \/ /\ queue.overflowPolicy \in {"DROP_NEWEST", "THROW_BAD_ALLOC"}
           /\ Ignored(s)
        \/ /\ queue.overflowPolicy = "WAIT"
           /\ Becomes(s, "asleep") /\ UNCHANGED <<queue, history>>

sendMessage(s) ==
  /\ Unlocked /\ sender[s] = "idle"
  /\ calls < MaxMessages /\ calls' = calls + 1
  /\ Sending(s)
  /\ UNCHANGED receiver

Overwrite(s) ==
  /\ sender[s] = "writing"
  /\ Posted(Written(queue), s)
  /\ UNCHANGED <<calls, receiver>>

\* Mutant: a sender that was woken takes the room to be there.
WokenUnchecked(s) ==
  /\ Unlocked /\ sender[s] = "asleep" /\ queue.overflowPolicy = "WAIT"
  /\ Posted(Post(IF Full(queue) THEN DropOldest(queue) ELSE queue), s)
  /\ UNCHANGED <<calls, receiver>>

\* After usleep with the lock back: there is room, and nothing else is asked, ...
Woken(s) ==
  /\ Unlocked /\ sender[s] = "asleep" /\ queue.overflowPolicy = "WAIT" /\ ~Full(queue)
  /\ Posted(Post(queue), s)
  /\ UNCHANGED <<calls, receiver>>

\* ... or the policy is another one: sendMessage again.
Retry(s) ==
  /\ Unlocked /\ sender[s] = "asleep" /\ queue.overflowPolicy # "WAIT"
  /\ Sending(s)
  /\ UNCHANGED <<calls, receiver>>

setOverflowPolicy(op) ==
  /\ queue' = [queue EXCEPT !.overflowPolicy = op]
  /\ UNCHANGED <<sender, calls, receiver, history>>

close ==
  /\ Unlocked /\ MayClose /\ ~queue.isClosed
  /\ queue' = [queue EXCEPT !.isClosed = TRUE]
  /\ UNCHANGED <<sender, calls, receiver, history>>

-----------------------------------------------------------------------------
(* findCurrentMessage *)

\* The walk from x while in going, a step more than there are entries.
Walk(x, going, step) ==
  LET walk[n \in 0 .. MAX_ENTRIES + 1] ==
        IF n = 0 THEN x
        ELSE IF walk[n - 1] \in going THEN step[walk[n - 1]] ELSE walk[n - 1]
  IN  walk[MAX_ENTRIES + 1]

\* Mutant: the scan begins at the oldest message, read or not.
FoundOldest(r) == IF receiver[r].curit = end THEN newer(queue, end) ELSE receiver[r].curit

Unread(r) == {x \in Entries : queue.sn[x] >= receiver[r].nextMessage}

Found(r) ==
  IF receiver[r].curit = end
  THEN newer(queue, Walk(newest(queue), Unread(r), queue.mq.prev))
  ELSE Walk(receiver[r].curit, Entries \ Unread(r), queue.mq.next)

-----------------------------------------------------------------------------
(* The receiver's thread *)

At(r, l) == receiver[r].at = l
Goes(r, l) == receiver' = [receiver EXCEPT ![r].at = l]
Unsent == UNCHANGED <<sender, calls>>

Register(r) ==
  /\ queue' = addReceiver(queue, r)
  /\ owed' = [owed EXCEPT ![r] = Waiting(queue)]
  /\ since' = [since EXCEPT ![r] = queue.numMessages]

start(r) ==
  /\ At(r, "none") /\ receiver[r].finish = "no"
  /\ Goes(r, "launching")
  /\ Unsent /\ UNCHANGED <<queue, history>>

launched(r) ==
  /\ Unlocked /\ At(r, "launching")
  /\ IF r \in queue.rcvrs THEN UNCHANGED <<queue, owed, since>> ELSE Register(r)
  /\ Goes(r, "wait")
  /\ Unsent /\ UNCHANGED <<processed, marked>>

waitNextMessage(r) ==
  /\ At(r, "wait") /\ queue.sem[r] > 0
  /\ queue' = lower(queue, r)
  /\ Goes(r, "peek")
  /\ Unsent /\ UNCHANGED history

\* peekNextMessage, with the queue's lock: on to the message, ...
peekNextMessage(r) ==
  /\ Unlocked /\ At(r, "peek") /\ Found(r) # end
  /\ receiver' = [receiver EXCEPT ![r].at = "check", ![r].curit = Found(r),
                                  ![r].msg = queue.sn[Found(r)]]
  /\ Unsent /\ UNCHANGED <<queue, history>>

\* ... or out of the loop if there is none.
peekNothing(r) ==
  /\ Unlocked /\ At(r, "peek") /\ Found(r) = end
  /\ receiver' = [receiver EXCEPT ![r].at = "looped", ![r].curit = end]
  /\ Unsent /\ UNCHANGED <<queue, history>>

\* processNextMessage reads the serial number again, without the lock, ...
checkNew(r) ==
  /\ At(r, "check")
  /\ Goes(r, IF receiver[r].lastProcessedMessage # queue.sn[receiver[r].curit]
                THEN "process" ELSE "looped")
  /\ Unsent /\ UNCHANGED <<queue, history>>

\* ... and again, and calls the callback with the region.
process(r) ==
  /\ At(r, "process")
  /\ processed' = [processed EXCEPT ![r] = Append(@, receiver[r].msg)]
  /\ receiver' = [receiver EXCEPT ![r].at = "find",
                                  ![r].lastProcessedMessage = queue.sn[receiver[r].curit]]
  /\ Unsent /\ UNCHANGED <<queue, marked, owed, since>>

\* markRead(false), which does not hold the lock but within the queue's own calls:
\* on from curit while its number is less than nextMessage, ...
AfterMarking(r) == IF receiver[r].finish = "draining" THEN "peek" ELSE "lower"

markFind(r) ==
  /\ At(r, "find")
  /\ Goes(r, IF queue.sn[receiver[r].curit] < receiver[r].nextMessage
                THEN "findNext" ELSE "note")
  /\ Unsent /\ UNCHANGED <<queue, history>>

\* ... or to the end, when nothing is marked;
markFindNext(r) ==
  LET x == newer(queue, receiver[r].curit)
  IN  /\ Unlocked /\ At(r, "findNext")
      /\ receiver' = [receiver EXCEPT ![r].at = IF x = end THEN AfterMarking(r) ELSE "find",
                                      ![r].curit = x]
      /\ Unsent /\ UNCHANGED <<queue, history>>

\* Mutant: off by one.
markNoteItself(r) ==
  /\ At(r, "note")
  /\ receiver' = [receiver EXCEPT ![r].at = "mark",
                                  ![r].nextMessage = queue.sn[receiver[r].curit]]
  /\ Unsent /\ UNCHANGED <<queue, history>>

markNote(r) ==
  /\ At(r, "note")
  /\ receiver' = [receiver EXCEPT ![r].at = "mark",
                                  ![r].nextMessage = queue.sn[receiver[r].curit] + 1]
  /\ Unsent /\ UNCHANGED <<queue, history>>

mark(r) ==
  LET x == receiver[r].curit
  IN  /\ Unlocked /\ At(r, "mark")
      /\ queue' = markRead(queue, x, r)
      /\ marked' = IF NewlyRead(queue, x, r)
                   THEN [marked EXCEPT ![r] = @ \cup {queue.sn[x]}] ELSE marked
      /\ Goes(r, "advance")
      /\ Unsent /\ UNCHANGED <<processed, owed, since>>

\* The slot may have been freed, and used again, by now.
markAdvance(r) ==
  /\ Unlocked /\ At(r, "advance")
  /\ receiver' = [receiver EXCEPT ![r].at = AfterMarking(r),
                                  ![r].curit = newer(queue, receiver[r].curit),
                                  ![r].msg = NoMessage]
  /\ Unsent /\ UNCHANGED <<queue, history>>

\* lower(semid, 1, false)
lowerForNext(r) ==
  /\ At(r, "lower")
  /\ queue' = lower(queue, r)
  /\ Goes(r, "peek")
  /\ Unsent /\ UNCHANGED history

AfterLooping(r) == IF receiver[r].finish = "no" THEN "wait" ELSE "exited"

\* Mutant: the semaphore is lowered once more, after the last look.
runAgainLowering(r) ==
  /\ At(r, "looped") /\ receiver[r].finish # "draining"
  /\ receiver' = [receiver EXCEPT ![r].at = AfterLooping(r), ![r].msg = NoMessage]
  /\ queue' = lower(queue, r)
  /\ Unsent /\ UNCHANGED history

\* The end of runloop: run() tests for a cancel, and calls it again.
runAgain(r) ==
  /\ At(r, "looped") /\ receiver[r].finish # "draining"
  /\ receiver' = [receiver EXCEPT ![r].at = AfterLooping(r), ![r].msg = NoMessage]
  /\ Unsent /\ UNCHANGED <<queue, history>>

-----------------------------------------------------------------------------
(* finish() *)

\* Thread::stop, which cancels the thread, ...
finishStop(r) ==
  /\ receiver[r].finish = "no" /\ receiver[r].at # "none"
  /\ receiver' = [receiver EXCEPT ![r].finish = "stopping"]
  /\ Unsent /\ UNCHANGED <<queue, history>>

\* Mutant: nothing has the thread notice.
stopUnnoticed(r) ==
  /\ receiver[r].finish = "stopping"
  /\ receiver' = [receiver EXCEPT ![r].finish = "joining"]
  /\ Unsent /\ UNCHANGED <<queue, history>>

\* ... raise(semid, 1), "so the thread will notice the stop", ...
stop(r) ==
  /\ receiver[r].finish = "stopping"
  /\ queue' = raise(queue, r)
  /\ receiver' = [receiver EXCEPT ![r].finish = "joining"]
  /\ Unsent /\ UNCHANGED history

\* ... join(), and on to the messages that are left,
join(r) ==
  /\ \/ receiver[r].finish = "joining" /\ At(r, "exited")
     \/ receiver[r].finish = "no" /\ At(r, "none") /\ r \in queue.rcvrs
  /\ receiver' = [receiver EXCEPT ![r].finish = "draining", ![r].at = "peek"]
  /\ Unsent /\ UNCHANGED <<queue, history>>

\* until there are none, and removeReceiver.
finishRemove(r) ==
  /\ Unlocked /\ At(r, "looped") /\ receiver[r].finish = "draining"
  /\ queue' = removeReceiver(queue, r)
  /\ receiver' = [receiver EXCEPT ![r].at = "finished", ![r].msg = NoMessage]
  /\ Unsent /\ UNCHANGED history

-----------------------------------------------------------------------------

Thread(r) ==
  \/ launched(r) \/ waitNextMessage(r) \/ peekNextMessage(r) \/ peekNothing(r)
  \/ checkNew(r) \/ process(r)
  \/ markFind(r) \/ markFindNext(r) \/ markNote(r) \/ mark(r) \/ markAdvance(r)
  \/ lowerForNext(r) \/ runAgain(r)

Finish(r) == finishStop(r) \/ stop(r) \/ join(r) \/ finishRemove(r)

Next ==
  \/ \E s \in Senders : sendMessage(s) \/ Overwrite(s) \/ Woken(s) \/ Retry(s)
  \/ \E r \in Receivers : start(r) \/ Thread(r) \/ Finish(r)
  \/ \E op \in LaterPolicies : setOverflowPolicy(op)
  \/ close

Spec == Init /\ [][Next]_vars

\* Threads that can run do; a finish() that was begun is carried on; the receivers
\* that subscribed are started.  A sender that sleeps polls: weak fairness lets it
\* in when there is room from some time on, as there is if no other sender takes it.
FairSpec ==
  /\ Spec
  /\ \A s \in Senders : WF_vars(Overwrite(s)) /\ WF_vars(Woken(s)) /\ WF_vars(Retry(s))
  /\ \A r \in Receivers :
       /\ WF_vars(Thread(r))
       /\ WF_vars(stop(r))
       /\ WF_vars(receiver[r].finish = "joining" /\ join(r))
       /\ WF_vars(finishRemove(r))
       /\ WF_vars(r \in Subscribed /\ start(r))

-----------------------------------------------------------------------------
(* Properties *)

TypeOK ==
  /\ queue \in Queues
  /\ sender \in [Senders -> {"idle", "asleep", "writing"}]
  /\ calls \in SerialNumbers
  /\ receiver \in [Receivers -> ReceiverStates]
  /\ processed \in [Receivers -> Seq(SerialNumbers)]
  /\ marked \in [Receivers -> SUBSET SerialNumbers]
  /\ owed \in [Receivers -> SUBSET SerialNumbers]
  /\ since \in [Receivers -> SerialNumbers]

Processed(r) == {processed[r][n] : n \in DOMAIN processed[r]}

\* What a receiver marks read, its callback was given: the slot that markRead()
\* names still holds the message that peekNextMessage() found there, although
\* neither the callback nor markRead() has the queue's lock.
MarkedIsProcessed ==
  \A r \in Receivers : \A sn \in marked[r] : sn \in Processed(r)

\* Each receiver's callback gets messages in the order they were sent, none of them
\* twice, wherever the slots and links that curit follows have gone meanwhile.
EachOnceInOrder ==
  \A r \in Receivers : \A m, n \in DOMAIN processed[r] :
    m < n => processed[r][m] < processed[r][n]

\* A message that has left the queue was processed by every receiver that is
\* registered now and was counted as one of its readers: whoever comes and goes,
\* numRead = numReceivers only when all of them have read it.
NothingLost ==
  \A r \in queue.rcvrs : \A sn \in owed[r] :
    sn \in Processed(r) \/ sn \in Waiting(queue)

\* The count of readers of a message is that of its flags ("should always equal
\* sum(readFlags)", MessageQueue.h:230), and one of the receivers has yet to read
\* it: none lingers in the queue that nobody will take out.
NoneLingers ==
  \A n \in DOMAIN InUse(queue.mq) :
    LET x == InUse(queue.mq)[n]
    IN  /\ queue.numRead[x] = Cardinality(queue.readFlags[x])
        /\ queue.readFlags[x] \subseteq queue.rcvrs
        /\ queue.rcvrs # {} => queue.readFlags[x] # queue.rcvrs

\* A message stays in the queue until all who are to read it have, and no longer.
LeavesWhenReadByAll == TypeOK /\ NothingLost /\ NoneLingers

\* No wakeup is missed: a receiver that waits, with its semaphore at 0, has read all
\* that was sent since it registered, for runloop lowers the semaphore before it looks.
NoMissedWakeup ==
  \A r \in queue.rcvrs : At(r, "wait") /\ queue.sem[r] = 0 =>
    \A sn \in Waiting(queue) : sn >= since[r] => sn \in marked[r]

\* findCurrentMessage, which peekNextMessage calls with the queue locked, ends: a
\* curit that markRead took from a slot freed meanwhile leads to the end of a chain.
ScanEnds ==
  Unlocked => \A r \in Receivers : At(r, "peek") =>
    Found(r) = end \/ queue.sn[Found(r)] >= receiver[r].nextMessage

\* A sender that waits for room gets it (WAIT, "polls until space is available"), if
\* the receivers are those that subscribed at construction: one that registers while
\* messages wait is counted as their reader and not woken for them.
SenderGetsThrough ==
  Subscribed = Receivers =>
    \A s \in Senders : sender[s] = "asleep" ~> sender[s] # "asleep"

\* finish() of a receiver that the queue knew before its thread ran ends, whatever
\* the senders do meanwhile: stop() wakes a thread that waits, and the messages that
\* are left run out.
FinishEndsIfSubscribed ==
  \A r \in Subscribed : receiver[r].finish # "no" ~> At(r, "finished")

=============================================================================
