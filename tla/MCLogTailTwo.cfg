CONSTANTS
    i1 = i1
    i2 = i2
    i3 = i3
    Inodes = {i1, i2, i3}
    NoFile = NoFile
    Workers = {w1, w2}
    MaxLines = 3
    MaxRotations = 2
    MaxCrashes = 1
    Noise <- SomeNoise
    Env <- RenameOnly
SPECIFICATION FairSpec
INVARIANTS DeliveryInv UnreadIsReachable KeyNamesItsLine
PROPERTIES DeliverySpec
CHECK_DEADLOCK FALSE
