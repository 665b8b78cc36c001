SPECIFICATION MCSpec
CONSTANTS
    Bytes = {b1, b2}
    Keys = {k1, k2}
    MaxChunk = 2
    MaxMessage = 3
    \* two chunks, so that their order shows, in at most three calls of
    \* update(): before, between and after two calls of digest()
    Chunks = {"x", "y"}
    MaxChunks = 3
    \* integers of four bits, with the counts at the ends of both ranges; two
    \* results are a pair to compare
    Objects = {"o1", "o2"}
    Hashes = {"SHA256"}
    Inputs = {"i1", "i2"}
    Width = 4
    Iterations = {0, 1, 2, 7, 8, 15}
    MaxKeys = 2
INVARIANTS
    ResultCoversMessage
    VerdictIsRight
    DerivedKeysAreRight
PROPERTIES
    DigestsAreRight
