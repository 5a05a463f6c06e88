-------------------------------- MODULE MemBuf --------------------------------
(***************************************************************************)
(* A ListMemBuf (IPC/ListMemBuf.h) and whoever uses it: any sequence of    *)
(* calls with entries that are in use, or end() where the code allows it.  *)
(* call is the last call made, with its arguments, and result what it      *)
(* returned (end for void); odd, which changes with each call, makes a     *)
(* step of a call too that leaves the buffer alone.                        *)
(***************************************************************************)
EXTENDS ListMemBuf

VARIABLES buf, call, result, odd

bufVars == <<buf, call, result, odd>>

BufInit == buf = NewBuffer /\ call = <<>> /\ result = end /\ odd = 0

Used == {x \in Entries : \E n \in DOMAIN InUse(buf) : InUse(buf)[n] = x}

Asked(c, r) == call' = c /\ result' = r /\ odd' = 1 - odd

NewFront == buf' = new_front(buf) /\ Asked(<<"new_front">>, NewIndex(buf))
NewBack == buf' = new_back(buf) /\ Asked(<<"new_back">>, NewIndex(buf))
NewBefore(x) == buf' = new_before(buf, x) /\ Asked(<<"new_before", x>>, NewIndex(buf))
NewAfter(x) ==
  buf' = new_before(buf, next(buf, x)) /\ Asked(<<"new_after", x>>, NewIndex(buf))
PopFront == buf.cursize > 0 /\ buf' = pop_front(buf) /\ Asked(<<"pop_front">>, end)
PopBack == buf.cursize > 0 /\ buf' = pop_back(buf) /\ Asked(<<"pop_back">>, end)
Erase(x) == buf' = erase(buf, x) /\ Asked(<<"erase", x>>, end)
Clear == buf' = clear(buf) /\ Asked(<<"clear">>, end)
Swap(x, y) == buf' = swap(buf, x, y) /\ Asked(<<"swap", x, y>>, end)

BufNext ==
  \/ NewFront \/ NewBack \/ PopFront \/ PopBack \/ Clear
  \/ \E x \in Used \cup {end} : NewBefore(x) \/ NewAfter(x)
  \/ \E x \in Used : Erase(x)
  \/ \E x, y \in Used \cup {end} : Swap(x, y)

BufSpec == BufInit /\ [][BufNext]_bufVars

-----------------------------------------------------------------------------
(* Properties *)

BufTypeOK == buf \in Buffers

\* The two chains and the count agree: the links back are those forward reversed,
\* size() is how many there are (countf() and countb(), ListMemBuf.h:35-36, say
\* that they should equal it), and each entry is in exactly one of the chains.
ChainsAgree ==
  LET used == InUse(buf)
      free == Free(buf)
  IN  /\ BufTypeOK
      /\ Len(used) = buf.cursize
      /\ Len(free) = MAX_ENTRIES - buf.cursize
      /\ \A n \in DOMAIN used : InUseBackwards(buf)[Len(used) + 1 - n] = used[n]
      /\ {used[n] : n \in DOMAIN used} \cup {free[n] : n \in DOMAIN free} = Entries

\* It is the list of entries in use that its callers think of, with a queue of the
\* free ones ("hopefully more robust with multi-threads", ListMemBuf.h:313-315): each
\* call does to the two what the call of its name with its arguments does in
\* EntryList, and returns the entry that this returns.
TheList == INSTANCE EntryList WITH list <- InUse(buf), free <- Free(buf)
ImplementsList == TheList!Spec

=============================================================================
