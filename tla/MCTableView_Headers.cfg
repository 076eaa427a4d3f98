CONSTANTS
    Keys = {0}
    DefaultKey = 0
    Fields = {f1, f2}
    Types = {i32, bin}
    BinType = bin
    AnyType = any
    NoField = NoField
    Garbage = Garbage
    Orders = {"forward", "reverse"}
    InitRows = {0, 8}
    MaxRows = 9
    MaxCols = 2
    MaxCells = 9
    ByteVals = {0, 85, 170}
    None = None
SPECIFICATION Spec
INVARIANT HeadersAsDeclared
CHECK_DEADLOCK FALSE
