--------------------------- MODULE EventGenerator ---------------------------
(***************************************************************************)
(* EventGeneratorBase (Events/EventGeneratorBase.cc) on top of the router: *)
(* a stage of the vision pipeline that listens to its source only while    *)
(* somebody listens to it.  Every started generator hears the router's     *)
(* events about its own listeners; a subscription or its end at the far    *)
(* end of a chain of generators ripples up the chain by nested posts.      *)
(* All generators here auto-listen, to a source that does not change.      *)
(***************************************************************************)
EXTENDS EventRouter

CONSTANTS
  EventGenerators,  \* the EventGeneratorBase objects
  myGenID, mySourceID, \* what each of them broadcasts on
  source,           \* the pattern each of them listens to
  Overlapping       \* whether DoStop() is called while DoStart() is under way, or
                    \* DoStart() while DoStop() is

ASSUME EventGeneratorsAssumption ==
  EventGenerators \subseteq Listeners \ {Monitor} /\ NoClient \notin EventGenerators
ASSUME SourcesAssumption ==
  /\ myGenID \in [EventGenerators -> Generators \ {erouterEGID}]
  /\ mySourceID \in [EventGenerators -> SIDs]
  /\ source \in [EventGenerators -> Patterns]
  /\ Overlapping \in BOOLEAN

VARIABLES isListening, started

generatorVars == <<isListening, started>>
allVars == <<vars, generatorVars>>

wanted(gen) == hasListeners(mappers, <<myGenID[gen], mySourceID[gen]>>)

GeneratorInit ==
  /\ Init
  /\ isListening = [gen \in EventGenerators |-> FALSE]
  /\ started = [gen \in EventGenerators |-> FALSE]

Unmoved(stack) == frames' = stack /\ UNCHANGED <<mappers, postings, posted>>

addSrcListener(gen, stack) ==
  \/ /\ ~isListening[gen]
     /\ isListening' = [isListening EXCEPT ![gen] = TRUE]
     /\ AddOne(stack, gen, source[gen], NoCall)
  \/ /\ isListening[gen]
     /\ UNCHANGED isListening
     /\ Unmoved(stack)

\* Mutant: the generator still believes that it listens.
removeSrcListenerUnnoted(gen, stack) ==
  /\ UNCHANGED isListening
  /\ \/ isListening[gen] /\ RemoveOne(stack, gen, source[gen], NoCall)
     \/ ~isListening[gen] /\ Unmoved(stack)

removeSrcListener(gen, stack) ==
  \/ /\ isListening[gen]
     /\ isListening' = [isListening EXCEPT ![gen] = FALSE]
     /\ \/ /\ Removed(gen, source[gen]) # mappers
           /\ RemoveOne(stack, gen, source[gen], NoCall)
        \/ /\ Removed(gen, source[gen]) = mappers
           /\ Unmoved(stack)
  \/ /\ ~isListening[gen]
     /\ UNCHANGED isListening
     /\ Unmoved(stack)

\* processEvent().  What it posts is the last thing it does: once that dispatch
\* is over, all that is left is to return.
React(gen) ==
  /\ frames # <<>> /\ frames[Top].in = "listener" /\ frames[Top].client = gen
  /\ LET e == frames[frames[Top].serving].e
         stack == [frames EXCEPT ![Top].client = NoClient]
     IN  \/ e[1] = erouterEGID /\ wanted(gen) /\ addSrcListener(gen, stack)
         \/ e[1] = erouterEGID /\ ~wanted(gen) /\ removeSrcListener(gen, stack)
         \/ e[1] # erouterEGID /\ Unmoved(stack) /\ UNCHANGED isListening
  /\ UNCHANGED <<started, calls, latest, news>>

\* One of the loops of DoStop() is under way.
Stopping(gen) ==
  \E n \in DOMAIN frames :
    /\ frames[n].then # NoCall
    /\ frames[n].then[1] \in {"stop", "remove"} /\ frames[n].then[2] = gen

\* DoStart(): listens for its own listeners, and once that post is done ...
DoStart(gen) ==
  /\ Call
  /\ ~started[gen]
  /\ Stopping(gen) => Overlapping
  /\ started' = [started EXCEPT ![gen] = TRUE]
  /\ AddOne(Calling, gen, <<erouterEGID, myGenID[gen]>>, <<"start", gen>>)
  /\ UNCHANGED isListening

Continuing(operation) ==
  /\ frames # <<>> /\ frames[Top].serving = 0 /\ postings = <<>>
  /\ frames[Top].then # NoCall /\ frames[Top].then[1] = operation
  /\ UNCHANGED <<calls, latest, news>>

\* ... to its source if it has any.
ContinueStart ==
  /\ Continuing("start")
  /\ LET gen == frames[Top].then[2]
         stack == Front(frames)
     IN  \/ wanted(gen) /\ addSrcListener(gen, stack)
         \/ ~wanted(gen) /\ Unmoved(stack) /\ UNCHANGED isListening
  /\ UNCHANGED started

\* Mutant: only the subscription to the source is removed.
StopFromSource(stack, gen, first) ==
  /\ started' = [started EXCEPT ![gen] = FALSE]
  /\ removeSrcListener(gen, stack)

\* DoStop(): removeListener(this), then BehaviorBase::DoStop() and with it, unless
\* a DoStop() that was called meanwhile has done so, removeListener(this) once more.
StopFrom(stack, gen, first) ==
  LET affected == {g \in first .. numEGIDs - 1 : Removed(gen, <<g>>) # mappers}
      g == Min(affected)
  IN  \/ /\ affected # {}
         /\ RemoveOne(stack, gen, <<g>>, <<"stop", gen, g + 1>>)
         /\ UNCHANGED generatorVars
      \/ /\ affected = {}
         /\ isListening' = [isListening EXCEPT ![gen] = FALSE]
         /\ started' = [started EXCEPT ![gen] = FALSE]
         /\ \/ started[gen] /\ RemoveFrom(stack, gen, 0)
            \/ ~started[gen] /\ Unmoved(stack)

Starting(gen) == \E n \in DOMAIN frames : frames[n].then = <<"start", gen>>

DoStop(gen) ==
  /\ Call
  /\ started[gen]
  /\ Starting(gen) => Overlapping
  /\ StopFrom(Calling, gen, 0)

ContinueStop ==
  /\ Continuing("stop")
  /\ StopFrom(Front(frames), frames[Top].then[2], frames[Top].then[3])

\* Whoever is neither a generator nor the monitor subscribes as it likes.
Others == (Listeners \cup Trappers) \ ({Monitor} \cup EventGenerators)

GeneratorProgram ==
  \/ /\ \/ \E e \in Posts : PostEvent(e)
        \/ \E el \in Others, pattern \in Subscriptions :
             Subscribe(el, pattern) \/ Unsubscribe(el, pattern)
     /\ UNCHANGED generatorVars
  \/ \E gen \in EventGenerators : DoStart(gen) \/ DoStop(gen)

\* The router's own steps; a generator handles its events by React.
Routing ==
  /\ frames # <<>>
  /\ frames[Top].client \notin EventGenerators
  /\ Dispatch
  /\ UNCHANGED generatorVars

InGenerator ==
  /\ frames # <<>> /\ frames[Top].in = "listener"
  /\ frames[Top].client \in EventGenerators \cup {NoClient}

GeneratorNext ==
  \/ Routing
  \/ \E gen \in EventGenerators : React(gen)
  \/ ContinueStart
  \/ ContinueStop
  \/ ~InGenerator /\ GeneratorProgram

GeneratorSpec == GeneratorInit /\ [][GeneratorNext]_allVars

-----------------------------------------------------------------------------
(* Properties *)

GeneratorTypeOK ==
  /\ TypesOK(Continuations \cup ({"start"} \X EventGenerators)
               \cup ({"stop"} \X EventGenerators \X (0 .. numEGIDs)))
  /\ isListening \in [EventGenerators -> BOOLEAN]
  /\ started \in [EventGenerators -> BOOLEAN]

Settled == frames = <<>>

\* EventGeneratorBase.h:34: no chain of events without an end listener, and none
\* cut short: once all posts are done, a started generator listens to its source
\* exactly if it has listeners, whoever came and went meanwhile.
ListensIfWanted ==
  Settled => \A gen \in EventGenerators :
    started[gen] => (isListening[gen] <=> wanted(gen))

\* isListening, which addSrcListener() and removeSrcListener() trust instead of
\* asking the router (EventGeneratorBase.cc:100, 120), is what the router knows:
\* it gives the generator all events of its source, or none of them.
BeliefIsTrue ==
  Settled => \A gen \in EventGenerators, e \in Events :
    Matches(e, source[gen]) => (isListening[gen] <=> verifyMapping(mappers["listeners"], gen, e))

\* Each generator's belief, what it wants and what the router knows agree.
SubscriptionsAgree == GeneratorTypeOK /\ ListensIfWanted /\ BeliefIsTrue

\* A stopped generator is given no more events of any kind
\* (EventGeneratorBase.cc:18, BehaviorBase.cc:58).
StoppedIsUnsubscribed ==
  Settled => \A gen \in EventGenerators :
    ~started[gen] =>
      \A g \in Generators : ~verifyMappingAny(mappers["listeners"], gen, <<g>>)

=============================================================================
