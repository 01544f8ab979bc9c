SPECIFICATION Spec
CONSTANTS
    big = big  blank = blank  i1 = i1  i2 = i2  i3 = i3  i4 = i4
    w1 = w1  w2 = w2  r1 = r1
    Writers = {w1, w2}
    Readers = {r1}
    Records = {big, blank}
    Blank = blank
    Blocks <- RecordBlocks
    Inodes = {i1, i2, i3, i4}
SYMMETRY Symmetry
INVARIANTS
    TypeOK
    PublishedIsWhole
    TempsAreOwned
    NoTempLeftBehind
PROPERTIES
    ImplementsRegister
