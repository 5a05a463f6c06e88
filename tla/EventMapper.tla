----------------------------- MODULE EventMapper -----------------------------
(***************************************************************************)
(* EventRouter::EventMapper (Events/EventRouter.h:409-487 and              *)
(* EventRouter.cc:555-837): who subscribed to which events, in which order.*)
(*                                                                         *)
(* An event is the key <<generator, source, type>>.  A pattern is a prefix *)
(* of a key: <<g>>, <<g, s>> or <<g, s, t>>, one for each overload of      *)
(* addListener(), removeListener(), hasListeners() and isListening*().     *)
(* allevents is a vector per generator, filteredevents a vector per key; a *)
(* key whose vector or map does not exist has the empty one, so clean(),   *)
(* which deletes empty vectors and maps, leaves the abstract value alone.  *)
(***************************************************************************)
EXTENDS Integers, Sequences, FiniteSets, SequencesExt

CONSTANTS numEGIDs,  \* generators are 0 .. numEGIDs - 1
          numSIDs,   \* bound: the sources that occur; a size_t in the code
          Clients    \* the listeners and trappers, the pointers of the code

ASSUME NumEGIDsAssumption == numEGIDs \in Nat \ {0}
ASSUME NumSIDsAssumption == numSIDs \in Nat \ {0}

Generators == 0 .. numEGIDs - 1
SIDs == 0 .. numSIDs - 1
Types == {"activate", "status", "deactivate"}
Events == Generators \X SIDs \X Types
Patterns == {<<g>> : g \in Generators} \cup (Generators \X SIDs) \cup Events

Matches(e, pattern) == IsPrefix(pattern, e)

Vectors == Seq(Clients)
Mappers == [all : [Generators -> Vectors], filtered : [Events -> Vectors]]

NoMapping ==
  [all |-> [g \in Generators |-> <<>>], filtered |-> [e \in Events |-> <<>>]]

Holds(vector, el) == \E n \in DOMAIN vector : vector[n] = el

\* std::remove(): what is left of a vector without some elements, in the same order
\* (written by places, as the provers know nothing of SelectSeq)
Without(vector, gone) ==
  LET kept == {n \in DOMAIN vector : vector[n] \notin gone}
      rank(i) == Cardinality({j \in kept : j <= i})
  IN  [k \in 1 .. Cardinality(kept) |-> vector[CHOOSE i \in kept : rank(i) = k]]

\* addMapping() for a generator, and for every type that a longer pattern covers
addMapping(m, el, pattern) ==
  IF Len(pattern) = 1
    THEN [m EXCEPT !.all[pattern[1]] = Append(@, el)]
    ELSE [m EXCEPT !.filtered = [e \in Events |->
            IF Matches(e, pattern) THEN Append(@[e], el) ELSE @[e]]]

\* removeMapping() of a generator takes the filtered subscriptions too; that of
\* a longer pattern leaves a subscription to the whole generator alone.
removeMapping(m, el, pattern) ==
  [all |-> IF Len(pattern) = 1
             THEN [m.all EXCEPT ![pattern[1]] = Without(@, {el})]
             ELSE m.all,
   filtered |-> [e \in Events |->
             IF Matches(e, pattern) THEN Without(m.filtered[e], {el}) ELSE m.filtered[e]]]

hasMapping(m, pattern) ==
  \/ m.all[pattern[1]] # <<>>
  \/ \E e \in Events : Matches(e, pattern) /\ m.filtered[e] # <<>>

\* Who is to receive e: the specific subscribers first, then the general ones.
getMapping(m, e) == m.filtered[e] \o m.all[e[1]]

verifyMapping(m, el, e) == Holds(m.all[e[1]], el) \/ Holds(m.filtered[e], el)

verifyMappingAny(m, el, pattern) ==
  \/ Holds(m.all[pattern[1]], el)
  \/ \E e \in Events : Matches(e, pattern) /\ Holds(m.filtered[e], el)

\* Mutant: one type of the source is taken for all of them.
verifyMappingSome(m, el, pattern) ==
  \/ Holds(m.all[pattern[1]], el)
  \/ Len(pattern) = 2 /\ \E e \in Events : Matches(e, pattern) /\ Holds(m.filtered[e], el)

verifyMappingAll(m, el, pattern) ==
  \/ Holds(m.all[pattern[1]], el)
  \/ /\ Len(pattern) = 2
     /\ \A e \in Events : Matches(e, pattern) => Holds(m.filtered[e], el)

=============================================================================
