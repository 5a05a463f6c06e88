\* Two processes, lock() and try_lock() mixed, recursion two deep.
CONSTANTS
  num_doors = 2
  MaxLevel = 2
SPECIFICATION FairSpec
INVARIANTS
  Bookkeeping
  MutualExclusion
  FirstComeFirstServed
PROPERTY GrantedUnlessTriesFail
