----------------------------- MODULE StateMachine -----------------------------
(***************************************************************************)
(* State machines: a StateNode (the root) with subnodes, and Transitions   *)
(* between them that listen for events and fire().  All of it runs in one  *)
(* thread, but starting and stopping anything posts events, the listeners  *)
(* of which run before the post returns; and a post first delivers what    *)
(* the posts below it on the stack have left (EventRouter,                 *)
(* DeliveredInOrder).  stack holds the calls of fire(), DoStart(),         *)
(* DoStop() and postEvent() that have not returned, pending the deliveries *)
(* the router still owes, over all the posts.                              *)
(***************************************************************************)
EXTENDS Integers, Sequences, FiniteSets, SequencesExt

CONSTANTS
  Nodes,        \* the subnodes, in the order they were added
  Outgoing,     \* Outgoing[n]: the transitions of subnode n, in order
  Sources, Destinations,  \* per transition, its srcs and dsts
  Wirings,      \* what the transitions may listen for, see trigger
  Threshold,    \* per transition: minsrcs, 0 for all
  Inputs,       \* the events the world posts
  StopOn,       \* the event on which a behavior stops the root
  First         \* the subnodes the root starts

Transitions == DOMAIN Sources

ASSUME ShapeAssumption ==
  /\ Nodes \in Seq(Range(Nodes)) /\ First \in Seq(Range(Nodes))
  /\ Outgoing \in [Range(Nodes) -> Seq(Transitions)]
  /\ Sources \in [Transitions -> Seq(Range(Nodes))]
  /\ Destinations \in [Transitions -> Seq(Range(Nodes))]
  /\ \A n \in Range(Nodes) : \A t \in Range(Outgoing[n]) : n \in Range(Sources[t])
  /\ \A w \in Wirings : DOMAIN w = Transitions
  /\ "root" \notin Range(Nodes) \cup Transitions

All == Range(Nodes) \cup {"root"}
TransitionsOf(n) == IF n = "root" THEN <<>> ELSE Outgoing[n]
SubnodesOf(n) == IF n = "root" THEN Nodes ELSE <<>>

VARIABLES
  trigger,     \* per transition, set once: the event an EventTrans listens for,
               \* or "completion" for a CompletionTrans
  active,      \* the nodes that are started
  enabled,     \* the transitions that are started
  listening,   \* the transitions that are subscribed, in that order
  completions, \* per transition, the sources that signalled completion
  pending,     \* deliveries: [to, of]
  stack,       \* the calls that have not returned, innermost last
  seen         \* history: the nodes whose last event was an activation

vars == <<trigger, active, enabled, listening, completions, pending, stack, seen>>

Init ==
  /\ trigger \in Wirings
  /\ active = {} /\ enabled = {} /\ listening = <<>>
  /\ completions = [t \in Transitions |-> {}]
  /\ pending = <<>> /\ stack = <<>>
  /\ seen = {}

AtRest == stack = <<>>
Top == stack[Len(stack)]
Below == Front(stack)

Frame(op, of, at) == [op |-> op, of |-> of, at |-> at, i |-> 1]
Runs(op, at) == ~AtRest /\ Top.op = op /\ Top.at = at
Moved(at, i) == [Top EXCEPT !.at = at, !.i = i]

\* What is in S of a sequence, in the same order (written by places, as the provers
\* know nothing of SelectSeq)
Those(s, S) ==
  LET kept == {n \in DOMAIN s : s[n] \in S}
      rank(i) == Cardinality({j \in kept : j <= i})
  IN  [k \in 1 .. Cardinality(kept) |-> s[CHOOSE i \in kept : rank(i) = k]]

Event(kind, of) == <<kind, of>>
Quiet == Event("router", "subscriptions")   \* an event of erouterEGID

Hears(t, e) ==
  IF trigger[t] = "completion"
  THEN e[1] = "done" /\ e[2] \in Range(Sources[t])
  ELSE trigger[t] = e

Deliveries(e) ==
  LET due == Those(listening, {t \in Transitions : Hears(t, e)})
      stop == IF e = StopOn THEN <<[to |-> "root", of |-> e]>> ELSE <<>>
  IN  [k \in DOMAIN due |-> [to |-> due[k], of |-> e]] \o stop

\* postEvent(), called by what frames says is left of the caller.
Post(frames, e) ==
  /\ stack' = Append(frames, Frame("post", e, "deliver"))
  /\ pending' = pending \o Deliveries(e)

-----------------------------------------------------------------------------
(* The router: owes nothing, or calls the next listener, unless it has been *)
(* removed meanwhile.                                                       *)

PostReturns ==
  /\ Runs("post", "deliver") /\ pending = <<>>
  /\ stack' = Below
  /\ UNCHANGED <<trigger, active, enabled, listening, completions, pending, seen>>

\* Mutant: the next listener is not moved on to before this one is called.
DeliverAgain ==
  /\ Runs("post", "deliver") /\ pending # <<>> /\ Head(pending).to \in Range(listening)
  /\ stack' = Append(stack, Frame("process", Head(pending).to, Head(pending).of))
  /\ UNCHANGED <<trigger, active, enabled, listening, completions, pending, seen>>

Deliver ==
  /\ Runs("post", "deliver") /\ pending # <<>>
  /\ LET d == Head(pending) IN
     /\ pending' = Tail(pending)
     /\ IF d.to = "root"
        THEN /\ stack' = IF "root" \in active THEN Append(stack, Frame("stop", "root", "transitions")) ELSE stack
             /\ UNCHANGED completions
        ELSE IF d.to \notin Range(listening)
        THEN UNCHANGED <<stack, completions>>
        ELSE /\ stack' = Append(stack, Frame("process", d.to, d.of))
             /\ UNCHANGED completions
  /\ UNCHANGED <<trigger, active, enabled, listening, seen>>

\* processEvent() of an EventTrans or a CompletionTrans.
ProcessEvent ==
  /\ ~AtRest /\ Top.op = "process"
  /\ LET t == Top.of
         done == IF trigger[t] = "completion" THEN completions[t] \cup {Top.at[2]} ELSE {}
         needed == IF Threshold[t] > 0 THEN Threshold[t] ELSE Len(Sources[t])
     IN  /\ completions' = [completions EXCEPT ![t] = done]
         /\ stack' = IF trigger[t] = "completion" /\ Cardinality(done) < needed
                     THEN Below
                     ELSE Append(Below, Frame("fire", t, "announce"))
  /\ UNCHANGED <<trigger, active, enabled, listening, pending, seen>>

-----------------------------------------------------------------------------
(* Transition::fire(): announces, stops the sources that are active, starts *)
(* the destinations that are not, announces again.                          *)

FireAnnounce ==
  /\ Runs("fire", "announce")
  /\ Post(Append(Below, Moved("sources", 1)), Event("firing", Top.of))
  /\ UNCHANGED <<trigger, active, enabled, listening, completions, seen>>

\* Mutant: off by one.
FireSourceButLast ==
  /\ Runs("fire", "sources")
  /\ LET srcs == Sources[Top.of] IN
     IF Top.i >= Len(srcs)
     THEN stack' = Append(Below, Moved("destinations", 1))
     ELSE stack' = Append(Append(Below, Moved("sources", Top.i + 1)),
                          Frame("stop", srcs[Top.i], "transitions"))
  /\ UNCHANGED <<trigger, active, enabled, listening, completions, pending, seen>>

FireSource ==
  /\ Runs("fire", "sources")
  /\ LET srcs == Sources[Top.of] IN
     IF Top.i > Len(srcs)
     THEN stack' = Append(Below, Moved("destinations", 1))
     ELSE LET n == srcs[Top.i] rest == Append(Below, Moved("sources", Top.i + 1)) IN
          stack' = IF n \in active THEN Append(rest, Frame("stop", n, "transitions")) ELSE rest
  /\ UNCHANGED <<trigger, active, enabled, listening, completions, pending, seen>>

FireDestination ==
  /\ Runs("fire", "destinations")
  /\ LET dsts == Destinations[Top.of] IN
     IF Top.i > Len(dsts)
     THEN Post(Below, Event("fired", Top.of))
     ELSE LET n == dsts[Top.i] rest == Append(Below, Moved("destinations", Top.i + 1)) IN
          /\ stack' = IF n \in active THEN rest ELSE Append(rest, Frame("start", n, "begin"))
          /\ UNCHANGED pending
  /\ UNCHANGED <<trigger, active, enabled, listening, completions, seen>>

-----------------------------------------------------------------------------
(* StateNode::DoStart(): starts the node, posts, enables its transitions    *)
(* until it finds itself stopped.                                           *)

StartBegin ==
  /\ Runs("start", "begin")
  /\ active' = active \cup {Top.of}
  /\ seen' = seen \cup {Top.of}
  /\ Post(Append(Below, Moved("enable", 1)), Event("start", Top.of))
  /\ UNCHANGED <<trigger, enabled, listening, completions>>

\* Adding a listener posts an event of the router.
StartEnable ==
  /\ Runs("start", "enable")
  /\ LET ts == TransitionsOf(Top.of) IN
     \/ /\ Top.i > Len(ts)
        /\ stack' = Below
        /\ UNCHANGED <<enabled, listening, completions, pending>>
     \/ /\ Top.i <= Len(ts) /\ ts[Top.i] \in enabled
        /\ stack' = Append(Below, Moved("look", Top.i))
        /\ UNCHANGED <<enabled, listening, completions, pending>>
     \/ /\ Top.i <= Len(ts) /\ ts[Top.i] \notin enabled
        /\ enabled' = enabled \cup {ts[Top.i]}
        /\ listening' = Append(listening, ts[Top.i])
        /\ completions' = [completions EXCEPT ![ts[Top.i]] = {}]
        /\ Post(Append(Below, Moved("look", Top.i)), Quiet)
  /\ UNCHANGED <<trigger, active, seen>>

StartLook ==
  /\ Runs("start", "look")
  /\ stack' = IF Top.of \in active THEN Append(Below, Moved("enable", Top.i + 1)) ELSE Below
  /\ UNCHANGED <<trigger, active, enabled, listening, completions, pending, seen>>

-----------------------------------------------------------------------------
(* StateNode::DoStop(): disables the transitions, stops the subnodes, posts *)
(* and is stopped only then.                                                *)

StopTransition ==
  /\ Runs("stop", "transitions")
  /\ LET ts == TransitionsOf(Top.of) IN
     \/ /\ Top.i > Len(ts)
        /\ stack' = Append(Below, Moved("subnodes", 1))
        /\ UNCHANGED <<listening, pending>>
     \/ /\ Top.i <= Len(ts) /\ ts[Top.i] \notin enabled
        /\ stack' = Append(Below, Moved("transitions", Top.i + 1))
        /\ UNCHANGED <<listening, pending>>
     \/ /\ Top.i <= Len(ts) /\ ts[Top.i] \in enabled
        /\ listening' = Those(listening, Transitions \ {ts[Top.i]})
        /\ Post(Append(Below, Moved("disable", Top.i)), Quiet)
  /\ UNCHANGED <<trigger, active, enabled, completions, seen>>

\* Mutant: a transition that is stopped stays as it is.
StopDisableNot ==
  /\ Runs("stop", "disable")
  /\ stack' = Append(Below, Moved("transitions", Top.i + 1))
  /\ UNCHANGED <<trigger, active, enabled, listening, completions, pending, seen>>

StopDisable ==
  /\ Runs("stop", "disable")
  /\ enabled' = enabled \ {TransitionsOf(Top.of)[Top.i]}
  /\ stack' = Append(Below, Moved("transitions", Top.i + 1))
  /\ UNCHANGED <<trigger, active, listening, completions, pending, seen>>

StopSubnode ==
  /\ Runs("stop", "subnodes")
  /\ LET nodes == SubnodesOf(Top.of) IN
     IF Top.i > Len(nodes)
     THEN /\ seen' = seen \ {Top.of}
          /\ Post(Append(Below, Moved("end", 1)), Event("stop", Top.of))
     ELSE LET n == nodes[Top.i] rest == Append(Below, Moved("subnodes", Top.i + 1)) IN
          /\ stack' = IF n \in active THEN Append(rest, Frame("stop", n, "transitions")) ELSE rest
          /\ UNCHANGED <<pending, seen>>
  /\ UNCHANGED <<trigger, active, enabled, listening, completions>>

StopEnd ==
  /\ Runs("stop", "end")
  /\ active' = active \ {Top.of}
  /\ stack' = Below
  /\ UNCHANGED <<trigger, enabled, listening, completions, pending, seen>>

-----------------------------------------------------------------------------
(* What starts it all: the root is started, and starts its first subnodes;  *)
(* the world posts an event; a subnode completes.                           *)

StartRoot ==
  /\ AtRest /\ "root" \notin active
  /\ stack' = Append([k \in DOMAIN First |-> Frame("start", First[Len(First) + 1 - k], "begin")],
                     Frame("start", "root", "begin"))
  /\ UNCHANGED <<trigger, active, enabled, listening, completions, pending, seen>>

World(e) ==
  /\ AtRest
  /\ Post(<<>>, e)
  /\ UNCHANGED <<trigger, active, enabled, listening, completions, seen>>

Input == \E e \in Inputs : World(e)
Complete == \E n \in active \ {"root"} : World(Event("done", n))

Fire == FireAnnounce \/ FireSource \/ FireDestination
Start == StartBegin \/ StartEnable \/ StartLook
Stop == StopTransition \/ StopDisable \/ StopSubnode \/ StopEnd
Call == PostReturns \/ Deliver \/ ProcessEvent \/ Fire \/ Start \/ Stop

Next == StartRoot \/ Input \/ Complete \/ Call

Spec == Init /\ [][Next]_vars /\ WF_vars(Call)

-----------------------------------------------------------------------------
TypeOK ==
  /\ active \subseteq All /\ seen \subseteq All
  /\ enabled \subseteq Transitions /\ Range(listening) \subseteq Transitions
  /\ completions \in [Transitions -> SUBSET Range(Nodes)]

(* Between events the transitions that listen are those of active nodes: a *)
(* node that was left has none that could still fire, an active one has    *)
(* all of its own.                                                         *)
EnabledWhereActive ==
  AtRest => /\ Range(listening) = enabled
            /\ enabled = {t \in Transitions : Range(Sources[t]) \cap active # {}}

(* Stopping the root leaves no subnode behind, whatever was under way.     *)
NoneSurvivesRoot == AtRest /\ "root" \notin active => active = {}

(* Who follows the events of a node knows whether it is active.            *)
EventsTell == AtRest => seen = active

(* Subnodes, transitions and whoever hears of them agree with the nodes.   *)
ActivityAgrees == TypeOK /\ EnabledWhereActive /\ NoneSurvivesRoot /\ EventsTell

(* Everything a step of the machine started comes to an end.               *)
ComesToRest == ~AtRest ~> AtRest

-----------------------------------------------------------------------------
(* What a machine must be like for that: any machine of this kind is proved *)
(* to agree (StateMachine_proofs), and the README tells what others do.    *)

\* The events that a machine posts of itself, and the transitions that react to them
OfMachine(e) == e[1] \in {"start", "stop", "firing", "fired"}
IsReaction(trig) == trig # "completion" /\ OfMachine(trig)

\* The nodes such an event is about
About(e) == IF e[1] \in {"start", "stop"} THEN {e[2]} ELSE Range(Sources[e[2]])

\* A node that shares its transitions with none
Alone(n) == \A t \in Transitions : n \in Range(Sources[t]) => Range(Sources[t]) = {n}

Before(m, n) == \E i, j \in 1 .. Len(Nodes) : i < j /\ Nodes[i] = m /\ Nodes[j] = n

NamedOnce ==
  /\ \A i, j \in 1 .. Len(Nodes) : Nodes[i] = Nodes[j] => i = j
  /\ \A i, j \in 1 .. Len(First) : First[i] = First[j] => i = j

\* A transition is one of each of its sources (StateNode::addTransition()), and those
\* that share a source share them all.
Connected ==
  /\ \A n \in Range(Nodes) : \A t \in Transitions : n \in Range(Sources[t]) => t \in Range(Outgoing[n])
  /\ \A t, u \in Transitions : \A n \in Range(Sources[t]) :
       n \in Range(Sources[u]) => Range(Sources[t]) = Range(Sources[u])

\* What stops the root comes from outside, and nobody else listens to it.  No transition
\* listens to the router's own events.
StopIsForRoot ==
  /\ ~OfMachine(StopOn) /\ StopOn[1] # "done" /\ StopOn # Quiet
  /\ \A w \in Wirings : \A t \in Transitions : w[t] # "completion" => w[t] # StopOn /\ w[t] # Quiet

\* A transition that reacts to the machine itself has one source, and starts only nodes
\* that come after those it hears of, that share no transition, and that the root does
\* not start itself, but for the first two.
ReactionsGoForward ==
  \A w \in Wirings : \A t \in Transitions : IsReaction(w[t]) =>
    /\ \E n \in Range(Nodes) : Range(Sources[t]) = {n}
    /\ \A d \in Range(Destinations[t]) :
         /\ Alone(d)
         /\ \A n \in About(w[t]) \ {"root"} : Before(n, d)
         /\ \A k \in 3 .. Len(First) : First[k] # d

WellMade == NamedOnce /\ Connected /\ StopIsForRoot /\ ReactionsGoForward
===============================================================================
