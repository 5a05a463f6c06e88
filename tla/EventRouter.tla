----------------------------- MODULE EventRouter -----------------------------
(***************************************************************************)
(* EventRouter (Events/EventRouter.cc): the dispatch of events to trappers *)
(* and listeners.  All of it runs in one thread, but a listener may post   *)
(* events and subscribe or unsubscribe anybody while it handles an event,  *)
(* and every change of a subscription posts an event of its own; so        *)
(* processEvent() activations nest.  frames is the call stack: each one    *)
(* has its PostingStatus, and runs the loop of processEvent() over the     *)
(* queue of the PostingStatus of all of them.  What the program calls, at  *)
(* the bottom of the stack or inside a trapper or listener, is arbitrary.  *)
(***************************************************************************)
EXTENDS EventMapper, FiniteSetsExt

CONSTANTS
  erouterEGID,        \* the generator of the router's own events
  Trappers, Listeners,
  Monitor,            \* a listener that hears every event of erouterEGID
  Posts,              \* the events the program posts
  Subscriptions,      \* the patterns it adds and removes subscriptions to
  InitialSubscriptions, \* a mapper for "trappers" and one for "listeners"
  ReentrantTrappers,  \* whether trapEvent() calls the router
  MaxCalls            \* bound on the calls the program makes

ASSUME ErouterAssumption == erouterEGID \in Generators /\ Generators \subseteq SIDs
ASSUME ClientsAssumption ==
  /\ Trappers \subseteq Clients /\ Listeners \subseteq Clients
  /\ Monitor \in Listeners
ASSUME PostsAssumption == Posts \subseteq Events /\ Subscriptions \subseteq Patterns
ASSUME InitialAssumption ==
  /\ InitialSubscriptions \in [{"trappers", "listeners"} -> Mappers]
  /\ Holds(InitialSubscriptions["listeners"].all[erouterEGID], Monitor)
ASSUME MaxCallsAssumption == ReentrantTrappers \in BOOLEAN /\ MaxCalls \in Nat

VARIABLES
  mappers,   \* the members trappers and listeners
  frames,    \* the activations of processEvent(), outermost first
  postings,  \* the queue of PostingStatus, named by the frames that hold them
  \* history
  posted,    \* how many events have been posted
  calls,     \* how many calls the program has made
  latest,    \* the number of the last event each listener was given
  news       \* what the Monitor was last told of each generator

vars == <<mappers, frames, postings, posted, calls, latest, news>>

NoCall == <<>>
NoClient == "none"

Top == Len(frames)
Owner(el) == IF el \in Trappers THEN "trappers" ELSE "listeners"

hasListeners(ms, pattern) ==
  hasMapping(ms["trappers"], pattern) \/ hasMapping(ms["listeners"], pattern)

Heard(wanted) == IF wanted THEN "wanted" ELSE "unwanted"

\* What is known of a generator after an event about it came, or was trapped.
Told(e, what) == IF e[1] = erouterEGID THEN [news EXCEPT ![e[2]] = what] ELSE news

Init ==
  /\ mappers = InitialSubscriptions
  /\ frames = <<>>
  /\ postings = <<>>
  /\ posted = 0
  /\ calls = 0
  /\ latest = [el \in Listeners |-> 0]
  /\ news = [g \in Generators |-> Heard(hasListeners(mappers, <<g>>))]

-----------------------------------------------------------------------------
(* processEvent(): the PostingStatus that is pushed.  then is what the caller *)
(* has left to do when this activation returns; id and the fields after it    *)
(* are history: the listeners due, those sent the event, those unsubscribed   *)
(* from anything meanwhile, whether a trapper returned true, and whether one  *)
(* called the router while it had the event.                                  *)

\* Mutant: the snapshot leaves out the subscribers to the whole generator.
PostingStatusFiltered(ms, e, then) ==
  [e |-> e, t |-> getMapping(ms["trappers"], e), l |-> ms["listeners"].filtered[e],
   serving |-> 0, in |-> "router", client |-> NoClient, then |-> then,
   id |-> posted + 1, due |-> getMapping(ms["listeners"], e),
   sent |-> <<>>, cut |-> {}, trapped |-> FALSE, reentered |-> FALSE]

PostingStatus(ms, e, then) ==
  [e |-> e, t |-> getMapping(ms["trappers"], e), l |-> getMapping(ms["listeners"], e),
   serving |-> 0, in |-> "router", client |-> NoClient, then |-> then,
   id |-> posted + 1, due |-> getMapping(ms["listeners"], e),
   sent |-> <<>>, cut |-> {}, trapped |-> FALSE, reentered |-> FALSE]

processEvent(stack, ms, e, then) ==
  /\ frames' = Append(stack, PostingStatus(ms, e, then))
  /\ postings' = Append(postings, Len(stack) + 1)
  /\ posted' = posted + 1

Disturbed(stack, el) ==
  [n \in DOMAIN stack |-> [stack[n] EXCEPT !.cut = @ \cup {el}]]

\* One addListener() or addTrapper(), and the event it posts.
AddOne(stack, el, pattern, then) ==
  LET g == pattern[1]
      type == IF hasListeners(mappers, <<g>>) THEN "status" ELSE "activate"
      ms == [mappers EXCEPT ![Owner(el)] = addMapping(@, el, pattern)]
  IN  /\ mappers' = ms
      /\ processEvent(stack, ms, <<erouterEGID, g, type>>, then)

Removed(el, pattern) == [mappers EXCEPT ![Owner(el)] = removeMapping(@, el, pattern)]

\* Mutant: the event is chosen before the subscription is removed.
RemoveOneEarly(stack, el, pattern, then) ==
  LET type == IF hasListeners(mappers, <<pattern[1]>>) THEN "status" ELSE "deactivate"
  IN  /\ mappers' = Removed(el, pattern)
      /\ processEvent(Disturbed(stack, el), Removed(el, pattern),
                      <<erouterEGID, pattern[1], type>>, then)

\* One removeListener() or removeTrapper() that removes something.
RemoveOne(stack, el, pattern, then) ==
  LET g == pattern[1]
      ms == Removed(el, pattern)
      type == IF hasListeners(ms, <<g>>) THEN "status" ELSE "deactivate"
  IN  /\ mappers' = ms
      /\ processEvent(Disturbed(stack, el), ms, <<erouterEGID, g, type>>, then)

\* removeListener(el), removeTrapper(el): the generators from first on, without
\* a post for those from which nothing is removed.
RemoveFrom(stack, el, first) ==
  LET affected == {g \in first .. numEGIDs - 1 : Removed(el, <<g>>) # mappers}
      g == Min(affected)
  IN  \/ /\ affected # {}
         /\ RemoveOne(stack, el, <<g>>, <<"remove", el, g + 1>>)
      \/ /\ affected = {}
         /\ frames' = stack
         /\ UNCHANGED <<mappers, postings, posted>>

\* addTrapper(el): every generator from first on.
AddFrom(stack, el, first) ==
  \/ /\ first < numEGIDs
     /\ AddOne(stack, el, <<first>>, <<"add", el, first + 1>>)
  \/ /\ first = numEGIDs
     /\ frames' = stack
     /\ UNCHANGED <<mappers, postings, posted>>

-----------------------------------------------------------------------------
(* What the program calls *)

Callers == IF ReentrantTrappers THEN {"listener", "trapper"} ELSE {"listener"}

InProgram == frames # <<>> => frames[Top].in \in Callers

Call ==
  /\ InProgram
  /\ calls < MaxCalls
  /\ calls' = calls + 1
  /\ UNCHANGED <<latest, news>>

\* The stack that is called from.
Calling ==
  IF frames # <<>> /\ frames[Top].in = "trapper"
    THEN [frames EXCEPT ![frames[Top].serving].reentered = TRUE] ELSE frames

PostEvent(e) ==
  /\ Call
  /\ processEvent(Calling, mappers, e, NoCall)
  /\ UNCHANGED mappers

Subscribe(el, pattern) ==
  /\ Call
  /\ AddOne(Calling, el, pattern, NoCall)

\* A call that finds nothing to remove posts nothing and changes nothing.
Unsubscribe(el, pattern) ==
  /\ Call
  /\ Removed(el, pattern) # mappers
  /\ RemoveOne(Calling, el, pattern, NoCall)

UnsubscribeAll(el) ==
  /\ Call
  /\ \E g \in Generators : Removed(el, <<g>>) # mappers
  /\ RemoveFrom(Calling, el, 0)

TrapEverything(et) ==
  /\ Call
  /\ AddFrom(Calling, et, 0)

-----------------------------------------------------------------------------
(* processEvent() and PostingStatus::process() *)

\* Mutant: the newest event is served first.
ServeNewest ==
  /\ frames # <<>> /\ frames[Top].serving = 0
  /\ postings # <<>>
  /\ frames' = [frames EXCEPT ![Top].serving = Last(postings)]
  /\ UNCHANGED <<mappers, postings, posted, calls, latest, news>>

\* The loop of the innermost activation: process() the front of the queue ...
Serve ==
  /\ frames # <<>> /\ frames[Top].serving = 0
  /\ postings # <<>>
  /\ frames' = [frames EXCEPT ![Top].serving = Head(postings)]
  /\ UNCHANGED <<mappers, postings, posted, calls, latest, news>>

\* Mutant: an activation returns although events are still queued.
ReturnEarly ==
  /\ frames # <<>> /\ frames[Top].serving = 0
  /\ frames[Top].then = NoCall
  /\ frames' = Front(frames)
  /\ UNCHANGED <<mappers, postings, posted, calls, latest, news>>

\* ... or return, to a caller that may be in the middle of a loop of its own.
Return ==
  /\ frames # <<>> /\ frames[Top].serving = 0
  /\ postings = <<>>
  /\ LET then == frames[Top].then
         stack == Front(frames)
     IN  \/ /\ then = NoCall
            /\ frames' = stack
            /\ UNCHANGED <<mappers, postings, posted>>
         \/ then # NoCall /\ then[1] = "remove" /\ RemoveFrom(stack, then[2], then[3])
         \/ then # NoCall /\ then[1] = "add" /\ AddFrom(stack, then[2], then[3])
  /\ UNCHANGED <<calls, latest, news>>

InProcess(p) == frames # <<>> /\ p = frames[Top].serving /\ p # 0 /\ frames[Top].in = "router"

\* Mutant: the queue is not popped.
CompletedWithoutPop(stack) ==
  /\ frames' = [stack EXCEPT ![Top].serving = 0, ![Top].in = "router", ![Top].client = NoClient]
  /\ UNCHANGED postings

\* process() returns, and the loop pops the queue unless it is empty.
Completed(stack) ==
  /\ frames' = [stack EXCEPT ![Top].serving = 0, ![Top].in = "router", ![Top].client = NoClient]
  /\ postings' = IF postings = <<>> THEN <<>> ELSE Tail(postings)

\* The next trapper of posting p, unless it has unsubscribed since.
OfferTrapper(p) ==
  /\ InProcess(p) /\ frames[p].t # <<>>
  /\ LET et == Head(frames[p].t)
         next == [frames EXCEPT ![p].t = Tail(@)]
     IN  \/ /\ verifyMapping(mappers["trappers"], et, frames[p].e)
            /\ frames' = [next EXCEPT ![Top].in = "trapper", ![Top].client = et]
         \/ /\ ~verifyMapping(mappers["trappers"], et, frames[p].e)
            /\ frames' = next
  /\ UNCHANGED <<mappers, postings, posted, calls, latest, news>>

\* Mutant: what the trapper returns is ignored.
TrapperIgnored(trapped) ==
  /\ frames # <<>> /\ frames[Top].in = "trapper"
  /\ frames' = [frames EXCEPT ![Top].in = "router", ![Top].client = NoClient,
                              ![frames[Top].serving].trapped = @ \/ trapped]
  /\ UNCHANGED <<mappers, postings, posted, calls, latest, news>>

TrapperReturns(trapped) ==
  /\ frames # <<>> /\ frames[Top].in = "trapper"
  /\ LET p == frames[Top].serving
     IN  \/ /\ trapped
            /\ Completed([frames EXCEPT ![p].trapped = TRUE])
            /\ news' = Told(frames[p].e, "trapped")
         \/ /\ ~trapped
            /\ frames' = [frames EXCEPT ![Top].in = "router", ![Top].client = NoClient]
            /\ UNCHANGED <<postings, news>>
  /\ UNCHANGED <<mappers, posted, calls, latest>>

\* The next listener of posting p, unless it has unsubscribed since.
OfferListener(p) ==
  /\ InProcess(p) /\ frames[p].t = <<>> /\ frames[p].l # <<>>
  /\ LET el == Head(frames[p].l)
         next == [frames EXCEPT ![p].l = Tail(@)]
     IN  \/ /\ verifyMapping(mappers["listeners"], el, frames[p].e)
            /\ frames' = [next EXCEPT ![p].sent = Append(@, el),
                                      ![Top].in = "listener", ![Top].client = el]
            /\ latest' = [latest EXCEPT ![el] = frames[p].id]
            /\ news' = IF el = Monitor
                         THEN Told(frames[p].e, IF frames[p].trapped THEN "trapped"
                                                ELSE Heard(frames[p].e[3] # "deactivate"))
                         ELSE news
         \/ /\ ~verifyMapping(mappers["listeners"], el, frames[p].e)
            /\ frames' = next
            /\ UNCHANGED <<latest, news>>
  /\ UNCHANGED <<mappers, postings, posted, calls>>

\* An exception that displayException() reports counts as a return.
ListenerReturns ==
  /\ frames # <<>> /\ frames[Top].in = "listener"
  /\ frames' = [frames EXCEPT ![Top].in = "router", ![Top].client = NoClient]
  /\ UNCHANGED <<mappers, postings, posted, calls, latest, news>>

Exhausted(p) ==
  /\ InProcess(p) /\ frames[p].t = <<>> /\ frames[p].l = <<>>
  /\ Completed(frames)
  /\ UNCHANGED <<mappers, posted, calls, latest, news>>

Dispatch ==
  \/ Serve
  \/ Return
  \/ \E p \in 1 .. Top : OfferTrapper(p) \/ OfferListener(p) \/ Exhausted(p)
  \/ \E trapped \in BOOLEAN : TrapperReturns(trapped)
  \/ ListenerReturns

\* The Monitor keeps its subscription; everybody else is at the program's mercy.
Program ==
  \/ \E e \in Posts : PostEvent(e)
  \/ \E el \in (Listeners \ {Monitor}) \cup Trappers :
       \/ UnsubscribeAll(el)
       \/ \E pattern \in Subscriptions : Subscribe(el, pattern) \/ Unsubscribe(el, pattern)
  \/ \E et \in Trappers : TrapEverything(et)

Next == Dispatch \/ Program

Spec == Init /\ [][Next]_vars

\* A dispatch that has begun goes on: the router's loops run, and trappers and
\* listeners return.
FairSpec == Spec /\ WF_vars(Dispatch)

-----------------------------------------------------------------------------
(* Properties *)

Frames(continuations) ==
  [e : Events, t : Vectors, l : Vectors, serving : Nat,
   in : {"router", "trapper", "listener"}, client : Clients \cup {NoClient},
   then : continuations,
   id : Nat, due : Vectors, sent : Vectors, cut : SUBSET Clients,
   trapped : BOOLEAN, reentered : BOOLEAN]

TypesOK(continuations) ==
  /\ mappers \in [{"trappers", "listeners"} -> Mappers]
  /\ frames \in Seq(Frames(continuations))
  /\ postings \in Seq(1 .. Top)
  /\ posted \in Nat
  /\ calls \in 0 .. MaxCalls
  /\ latest \in [Listeners -> 0 .. posted]
  /\ news \in [Generators -> {"wanted", "unwanted", "trapped"}]

Continuations == {NoCall} \cup ({"add", "remove"} \X Clients \X (0 .. numEGIDs))

TypeOK == TypesOK(Continuations)

\* The assertion "partial queue completion?" (EventRouter.cc:492) and what the
\* pop after it relies on: the activation whose turn it is to go on with a
\* posting finds it at the front of the queue, or finds the queue finished off.
NoPartialCompletion ==
  \A p \in 1 .. Top : InProcess(p) => postings = <<>> \/ Head(postings) = p

\* The queue holds pointers into the stack (EventRouter.cc:487): each is to an
\* activation that has not returned, and no activation is queued twice.
NoDanglingPosting ==
  /\ \A n \in DOMAIN postings : postings[n] \in 1 .. Top
  /\ \A m, n \in DOMAIN postings : m < n => postings[m] < postings[n]

\* The queue of postings is sound, however the posts nest.
QueueIsSound == TypeOK /\ NoPartialCompletion /\ NoDanglingPosting

Returning(n) == n = Top /\ frames[n].serving = 0 /\ postings = <<>>

\* When postEvent() returns, an event that was not trapped has gone, in their
\* order and once per subscription, to all the listeners subscribed when it was
\* posted, except that one unsubscribed meanwhile may have missed it
\* (EventRouter.h:447-451), however the postings nested.
DeliveredToAll ==
  \A n \in 1 .. Top :
    Returning(n) /\ ~frames[n].trapped =>
      Without(frames[n].sent, frames[n].cut) = Without(frames[n].due, frames[n].cut)

\* EventTrapper.h:19-22: an event whose trapper returns true "shouldn't be sent to
\* listeners".  It is not, unless the trapper has called the router while it had
\* the event: the loop of that call has then delivered it.
TrappedUnlessReentered ==
  \A n \in 1 .. Top :
    frames[n].trapped /\ ~frames[n].reentered => frames[n].sent = <<>>

\* A listener is given events in the order in which they were posted, even the
\* ones posted while others were on their way (EventRouter.h:511), unless a
\* trapper has called the router while it had the event; and each only while it
\* is subscribed to it, though it was subscribed when the event was posted
\* (EventRouter.cc:531).
DeliveredInOrder ==
  [][\A n \in 1 .. Top, el \in Listeners :
       Top' = Top /\ frames'[n].sent = Append(frames[n].sent, el) =>
         /\ latest[el] <= frames[n].id \/ frames[n].reentered
         /\ Holds(getMapping(mappers["listeners"], frames[n].e), el)]_vars

\* Once every post has been dealt with, the last activate, status or deactivate
\* event of each generator is true, unless it was trapped: the generator has
\* listeners or trappers exactly if the event said so (EventRouter.h:230-232).
\* One that a trapper took counts as trapped even if it was delivered: that is,
\* belatedly and out of order, when another trapper has called the router in it.
NewsIsTrue ==
  frames = <<>> =>
    \A g \in Generators : news[g] \in {Heard(hasListeners(mappers, <<g>>)), "trapped"}

\* hasListeners() is how a generator decides not to generate an event
\* (EventRouter.h:229-236): it never says no for an event somebody would get,
\* or yes for one that nobody would.
NoEventWithheld ==
  \A e \in Events :
    hasListeners(mappers, e) <=>
      \E kind \in DOMAIN mappers : getMapping(mappers[kind], e) # <<>>

\* isListeningAny(), isListeningAll() and their trapper versions tell whether
\* "the specified listener/trapper would receive any events that match"
\* (EventRouter.h:211, 460-472): they agree with what dispatch would do,
\* as seen between two dispatches.
RecallAgrees ==
  frames = <<>> => \A kind \in DOMAIN mappers, el \in Clients, pattern \in Patterns :
    LET m == mappers[kind]
        gets(e) == Holds(getMapping(m, e), el)
        matching == {e \in Events : Matches(e, pattern)}
    IN  /\ verifyMappingAny(m, el, pattern) <=> \E e \in matching : gets(e)
        /\ verifyMappingAll(m, el, pattern) => \A e \in matching : gets(e)
        /\ Len(pattern) = 2 /\ (\A e \in matching : gets(e)) => verifyMappingAll(m, el, pattern)

\* The queries are right about the subscriptions.
QueriesAgree == NoEventWithheld /\ RecallAgrees

\* The dispatch of an event comes to an end, if trappers and listeners return.
DispatchEnds == frames # <<>> ~> frames = <<>>

=============================================================================
