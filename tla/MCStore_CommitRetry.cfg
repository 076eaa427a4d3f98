CONSTANTS
    Keys = {k1, k2}
    Vals = {v1}
    Empty = Empty
    Txns = {t1, t2}
    NoEntry = NoEntry
    NoValue = NoValue
    NoTxn = NoTxn
    Unread = Unread
    Hints <- MCHints
    SeqBits <- MCSeqBits
    InitYoungest <- MCInitYoungest
    MaxBumps = 3
    MaxBatch = 1
    CommitOOM = TRUE
SYMMETRY Symm
SPECIFICATION Spec
INVARIANT StoresCallerBytes
