CONSTANTS
    Keys = {k1, k2}
    Vals = {v1}
    Empty = Empty
    Txns = {t1, t2}
    NoEntry = NoEntry
    NoValue = NoValue
    NoTxn = NoTxn
    Unread = Unread
    Hints <- MCHints
    SeqBits <- MCSeqBits
    InitYoungest <- MCInitYoungest
    MaxBumps <- MCMaxBumps
    MaxBatch = 1
    CommitOOM = FALSE
SYMMETRY Symm
SPECIFICATION Spec
PROPERTY FirstCommitterWins
