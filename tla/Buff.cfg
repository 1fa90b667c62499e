SPECIFICATION Spec
CONSTANTS
    Byte = {a, b}
    ReplyByte = {c}
    Junk = Junk
    InitCap = 2
    IntMax = 7
    MaxReply = 1
SYMMETRY ByteSymmetry
INVARIANTS TypeOK WriteBuffBounded
PROPERTY IsQueue
