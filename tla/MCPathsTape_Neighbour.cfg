CONSTANTS
    Names <- MCNames
    Values <- MCValues
    NoVal = NoVal
    Corrupt = Corrupt
    Garbage <- MCGarbage
    MaxMembers <- MCMaxMembers
    Layouts <- MCLayouts
    Hash <- MCHash
    MaxTasks <- MCMaxTasks
SPECIFICATION Spec
CHECK_DEADLOCK FALSE
INVARIANT WrittenBackAsExpected
