CONSTANTS
    c1 = c1
    c2 = c2
    a1 = a1
    a2 = a2
    t1 = t1
    t2 = t2
    CNames <- MCCNames
    Addrs <- MCAddrs
    Txns <- MCTxns
    MaxCreates <- MCMaxCreates
    None = None
    Null = Null
    MaxBatch = 2
SYMMETRY Symm
SPECIFICATION Spec
INVARIANT CommitReachesOwnCollections
