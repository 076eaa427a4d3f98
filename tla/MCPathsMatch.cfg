CONSTANTS
    Unknown = Unknown
    Layouts <- MCLayouts
    HashValues <- MCHashValues
    PrefixArgs <- MCPrefixes
    MaxLimit <- MCMaxLimit
SPECIFICATION Spec
INVARIANT TypeOK
CHECK_DEADLOCK FALSE
