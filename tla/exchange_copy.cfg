SPECIFICATION Spec
CONSTANTS
    Node = {a, b, c}
    a = a
    b = b
    c = c
    root = root
    c1 = c1
    File <- OneChunk
    ReplFactor = 1
    Bits = 3
    KeyOf <- Keys
    Uploaders = {a}
    Downloaders = {b}
    CliUsers = {}
INVARIANTS FailsWithoutCopy
