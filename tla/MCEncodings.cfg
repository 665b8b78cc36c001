SPECIFICATION MCSpec
CONSTANTS
    Day = 4
    IntMax = 9
    Int64Max = 46
    MinTime <- MCMinTime
    MaxTime = 20
    AdjMin <- MCAdjMin
    TimeTMin <- MCTimeTMin
    TimeTMax = 30
    TimePointMin <- MCTimePointMin
    TimePointMax = 6
    Samples <- MCSamples
    Exception = Exception
    \* digits of both kinds and cases, the x of the prefix, a letter that is
    \* no digit, and what strtoul() treats in its own way; four characters
    \* hold a prefix and a pair, or two pairs
    Alphabet = {"0", "1", "f", "F", "x", "g", " ", "+", "-", "NUL"}
    Octets = {0, 1, 15, 16, 128, 255}
    HexLength = 4
    \* lines shorter and longer than the buffer, an empty line and a last line
    \* without a line feed
    MaxBytes = 8
    Newlines = {2, 3, 7}
    BuffSize = 3
    \* all texts of up to seven tokens: two elements, one of which is longer
    \* than a line, or one element with white space anywhere
    PemLength = 7
    LineLength = 2
    SizeMod = 64
INVARIANTS
    TimesAreExact
    HexMeansItsBytes
    ChainsAreLoadedWhole
PROPERTIES
    BioKeepsBytes
    LoopsEnd
