\* Every sequence of calls on a buffer of four entries.
CONSTANT MAX_ENTRIES = 4
SPECIFICATION BufSpec
INVARIANT ChainsAgree
PROPERTY ImplementsList
