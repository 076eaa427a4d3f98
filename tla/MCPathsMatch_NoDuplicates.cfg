CONSTANTS
    Unknown = Unknown
    Layouts <- MCLayouts
    HashValues <- MCHashValues
    PrefixArgs <- MCPrefixes
    MaxLimit <- MCMaxLimit
SPECIFICATION Spec
CHECK_DEADLOCK FALSE
INVARIANT NoDuplicatePaths
