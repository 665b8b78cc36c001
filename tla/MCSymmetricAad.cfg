SPECIFICATION MCSpec
CONSTANTS
    IntMax = 63
    ChunkSizes = {0, 15, 16, 17, 32}
    AadSizes = {0, 5, 133}
    ReadSizes = {16}
    TagLengths = {0, 12, 16, 17}
    IVLengths = {0, 12, 16}
    PeerLengths = {15, 16}
    MaxData = 33
    MaxAad = 200
    \* three builds are two after a change of settings
    BuilderTagLengths = {12, 16}
    MaxBuilds = 3
    \* requests of more than all bytes, and blocks that one request spans
    MaxBytes = 6
    MaxBlocks = 4
    MaxRequest = 7
INVARIANT AllAssociatedDataAuthenticated
