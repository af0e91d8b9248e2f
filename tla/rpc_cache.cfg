SPECIFICATION Spec
CONSTANTS
    Server = {s1}
    Tensor = {t1, t2}
    Blocks = 3
    Buffered = 1
    Inode = {i1, i2, i3, i4}
    None = None
INVARIANT CommittedIsClosed
PROPERTY ImplementsStore
CHECK_DEADLOCK FALSE
