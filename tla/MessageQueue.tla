----------------------------- MODULE MessageQueue -----------------------------
(***************************************************************************)
(* MessageQueue (IPC/MessageQueue.h): a queue of shared memory regions     *)
(* between processes, which keeps a message until each of the receivers    *)
(* that are registered has marked it read.  Every call holds the queue's   *)
(* inter-process lock from its beginning to its end, except a sendMessage  *)
(* that waits; so an operator here gives the queue after a call.           *)
(* A region is its message's serial number, and a receiver the semaphore   *)
(* that addReceiver returned to it.                                        *)
(***************************************************************************)
EXTENDS ListMemBuf

CONSTANTS Receivers, MaxMessages

ASSUME MaxMessagesAssumption == MaxMessages \in Nat
ASSUME ReceiversAssumption == IsFiniteSet(Receivers)

Policies == {"DROP_OLDEST", "DROP_NEWEST", "WAIT", "THROW_BAD_ALLOC"}
SerialNumbers == 0 .. MaxMessages

\* sn, readFlags and numRead are the fields of the entries in mq; sem the value
\* of each registered receiver's semaphore.
Queues ==
  [mq : Buffers,
   sn : [Entries -> SerialNumbers],
   readFlags : [Entries -> SUBSET Receivers],
   numRead : [Entries -> 0 .. Cardinality(Receivers)],
   rcvrs : SUBSET Receivers,
   sem : [Receivers -> Nat],
   numMessages : SerialNumbers, messagesRead : SerialNumbers,
   isClosed : BOOLEAN, overflowPolicy : Policies]

NewQueue(subscribed, policy) ==
  [mq |-> NewBuffer,
   sn |-> [x \in Entries |-> 0],
   readFlags |-> [x \in Entries |-> {}],
   numRead |-> [x \in Entries |-> 0],
   rcvrs |-> subscribed,
   sem |-> [r \in Receivers |-> 0],
   numMessages |-> 0, messagesRead |-> 0,
   isClosed |-> FALSE, overflowPolicy |-> policy]

Full(q) == q.mq.cursize = MAX_ENTRIES
Waiting(q) == {q.sn[InUse(q.mq)[n]] : n \in DOMAIN InUse(q.mq)}   \* the messages in it

newest(q) == prev(q.mq, end)
older(q, x) == prev(q.mq, x)
newer(q, x) == next(q.mq, x)

Raised(q) ==
  [q EXCEPT !.sem = [r \in Receivers |-> IF r \in q.rcvrs THEN @[r] + 1 ELSE @[r]]]

\* push_back: a slot behind the others, with an entry() in it, ...
NewSlot(q) ==
  LET x == NewIndex(q.mq)
  IN  [q EXCEPT !.mq = new_back(@), !.sn[x] = 0, !.readFlags[x] = {}, !.numRead[x] = 0]

\* ... which the message is written over; and the receivers are notified.
Written(q) ==
  Raised([q EXCEPT !.sn[newest(q)] = q.numMessages, !.numMessages = @ + 1])

Post(q) == Written(NewSlot(q))

DropOldest(q) == [q EXCEPT !.mq = pop_front(@)]

\* "read by all 0 readers is still read by all readers"
CountUnsent(q) == [q EXCEPT !.messagesRead = @ + 1]

addReceiver(q, r) == [q EXCEPT !.rcvrs = @ \cup {r}, !.sem[r] = 0]

Drop(q, x) == [q EXCEPT !.mq = erase(@, x), !.messagesRead = @ + 1]

Unmarked(q, x, r) == [q EXCEPT !.readFlags[x] = @ \ {r}, !.numRead[x] = @ - 1]

Without(q, r) == [q EXCEPT !.rcvrs = @ \ {r}, !.sem[r] = 0]

\* Mutant: the messages that only r had not read are left.
Leave_lingering(q, x, r) ==
  IF r \in q.readFlags[x] THEN Unmarked(q, x, r) ELSE q

\* What becomes of the message at x when r is no longer a receiver: it is left without
\* r's mark, or dropped if r was the only one that had not read it.
Leave(q, x, r) ==
  CASE r \in q.readFlags[x] -> Unmarked(q, x, r)
    [] r \notin q.readFlags[x] /\ q.numRead[x] = Cardinality(q.rcvrs) -> Drop(q, x)
    [] OTHER -> q

removeReceiver(q, r) ==
  LET messages == InUse(q.mq)
      left[n \in 0 .. Len(messages)] ==
        IF n = 0 THEN Without(q, r) ELSE Leave(left[n - 1], messages[n], r)
  IN  left[Len(messages)]

NewlyRead(q, x, r) == r \in q.rcvrs /\ r \notin q.readFlags[x]

Marked(q, x, r) == [q EXCEPT !.readFlags[x] = @ \cup {r}, !.numRead[x] = @ + 1]

markRead(q, x, r) ==
  IF ~NewlyRead(q, x, r) THEN q
  ELSE IF Marked(q, x, r).numRead[x] = Cardinality(q.rcvrs) THEN Drop(Marked(q, x, r), x)
  ELSE Marked(q, x, r)

lower(q, r) == [q EXCEPT !.sem[r] = IF @ > 0 THEN @ - 1 ELSE 0]
raise(q, r) == [q EXCEPT !.sem[r] = IF r \in q.rcvrs THEN @ + 1 ELSE @]

=============================================================================
