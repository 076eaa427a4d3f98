CONSTANTS
    NoVal = NoVal
    Corrupt = Corrupt
    w1 = w1
    w2 = w2
    Writers = {w1, w2}
    Names <- MCNames
    Values <- MCValues
    Garbage <- MCGarbage
    MaxMembers <- MCMaxMembers
    Own <- MCOwn
    InitBuckets <- MCInitBuckets
SPECIFICATION Spec
INVARIANT NoLostPathWrites
