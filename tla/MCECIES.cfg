SPECIFICATION MCSpec
CONSTANTS
    Bytes = {b1}
    Keys = {k1, k2}
    NoKey = NoKey
    Pad = Pad
    MacSalts <- MCMacSalts
    MaxPlain = 2
    MaxFed = 4
    MaxChunk = 2
    \* no key size and one; a builder that is used again
    KeySizes = {0, 16}
    MaxBuilds = 2
INVARIANTS
    ReleasedIsSenders
    MacCoversCiphertext
    RejectionIsFinal
    GenuineMessageAccepted
    BuiltContextsAreSound
