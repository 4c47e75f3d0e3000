CONSTANTS
    i1 = i1
    i2 = i2
    i3 = i3
    Inodes = {i1, i2, i3}
    NoFile = NoFile
    Workers = {w1}
    MaxLines = 4
    MaxRotations = 2
    MaxCrashes = 1
    Noise <- NoNoise
    Env <- AnyRotation
SPECIFICATION Spec
SYMMETRY InodeSymmetry
INVARIANTS NoDoubleCount
CHECK_DEADLOCK FALSE
