CONSTANTS
    i1 = i1
    i2 = i2
    i3 = i3
    Inodes = {i1, i2, i3}
    NoFile = NoFile
    Workers = {w1}
    MaxLines = 4
    MaxRotations = 2
    MaxCrashes = 0
    Noise <- NoNoise
    Env <- Truncating
SPECIFICATION Spec
PROPERTIES ReadLinesAreStored
CHECK_DEADLOCK FALSE
