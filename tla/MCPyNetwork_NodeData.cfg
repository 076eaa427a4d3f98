CONSTANTS
    Nodes = {1, 2}
    Attrs = {a1}
    NoAttrs = NoAttrs
    MaxArg = 2
    MaxCalls = 3
SPECIFICATION Spec
CHECK_DEADLOCK FALSE
PROPERTY NodeDataAsGiven
