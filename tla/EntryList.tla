------------------------------ MODULE EntryList ------------------------------
(***************************************************************************)
(* What ListMemBuf promises (IPC/ListMemBuf.h:5-19): a list of the entries *)
(* in use, in the order that its caller gives it, and a queue of the free  *)
(* ones, so that an entry that was freed is reused as late as possible.    *)
(* Each call is named, with its arguments (call) and what it returns       *)
(* (result, which is end for a call that returns nothing); odd changes     *)
(* with each call, so that one that changes nothing else is a step too.    *)
(***************************************************************************)
EXTENDS Integers, Sequences, SequencesExt

CONSTANT MAX_ENTRIES

end == -1

VARIABLES list, free, call, result, odd

Init ==
  /\ list = <<>>
  /\ free = [n \in 1 .. MAX_ENTRIES |-> n - 1]
  /\ call = <<>>
  /\ result = end
  /\ odd = 0

\* The entry at the n-th place, and end on either side of the list
At(n) == IF n \in DOMAIN list THEN list[n] ELSE end

Asked(c, r) == call' = c /\ result' = r /\ odd' = 1 - odd

\* A new entry as the n-th of the list, if one is free
New(n, c) ==
  \/ /\ free # <<>>
     /\ Asked(c, Head(free))
     /\ list' = InsertAt(list, n, Head(free))
     /\ free' = Tail(free)
  \/ /\ free = <<>>
     /\ Asked(c, end)
     /\ UNCHANGED <<list, free>>

NewFront == New(1, <<"new_front">>)
NewBack == New(Len(list) + 1, <<"new_back">>)
NewBefore(n) == New(n, <<"new_before", At(n)>>)
NewAfter(n) == New(n + 1, <<"new_after", At(n)>>)

TakeOut(n, c) ==
  /\ Asked(c, end)
  /\ list' = RemoveAt(list, n)
  /\ free' = Append(free, list[n])

PopFront == list # <<>> /\ TakeOut(1, <<"pop_front">>)
PopBack == list # <<>> /\ TakeOut(Len(list), <<"pop_back">>)
Erase(n) == TakeOut(n, <<"erase", At(n)>>)

Clear ==
  /\ Asked(<<"clear">>, end)
  /\ list' = <<>>
  /\ free' = free \o list

\* The entries at two places change places; with end nothing does.
Swap(m, n) ==
  /\ Asked(<<"swap", At(m), At(n)>>, end)
  /\ list' = IF 0 \in {m, n} THEN list ELSE [list EXCEPT ![m] = list[n], ![n] = list[m]]
  /\ UNCHANGED free

Next ==
  \/ NewFront \/ NewBack \/ PopFront \/ PopBack \/ Clear
  \/ \E n \in 1 .. Len(list) + 1 : NewBefore(n)
  \/ \E n \in 0 .. Len(list) : NewAfter(n)
  \/ \E n \in 1 .. Len(list) : Erase(n)
  \/ \E m, n \in 0 .. Len(list) : Swap(m, n)

Spec == Init /\ [][Next]_<<list, free, call, result, odd>>
=============================================================================
