CONSTANTS
    NoVal = NoVal
    Corrupt = Corrupt
    Names <- MCNames
    Values <- MCValues
    Garbage <- MCGarbage
    MaxMembers <- MCMaxMembers
SPECIFICATION SpecInsertOrRemove
INVARIANT TypeOK
PROPERTY RefinesPathsMap
