SPECIFICATION MCSpec
CONSTANTS
    LongMax = 3
    Keys = {k1, k2}
    Serials = {0, 2, 4}
    Starts <- MCStarts
    Validities <- MCValidities
    MaxNow = 3
    MaxIssued = 3
    \* two usages, so that none, one and both can be set; three setter calls,
    \* so that an extension is replaced behind another setting
    Usages = {"cRLSign", "keyCertSign"}
    PathLengths = {0, 1}
    Lifetimes = {1, 2}
    Digests = {"SHA256", "SHA512"}
    Times = {5, 9}
    MaxSettings = 3
    \* one key of each type with its own rule for the digest
    KeyType <- MCKeyType
    Subjects = {"s1"}
    RequestDigests = {"SHA256", "NONE"}
    \* two names of up to two attributes, which may be the same one twice; the
    \* values have the lengths around the limit of a country name
    Slots = {1, 2}
    NIDs = {"CommonName", "CountryName"}
    Values <- MCValues
    MaxAttributes = 2
    \* a long of five bits and bytes of two, so that numbers of one to four
    \* bytes, the limits of long and unsigned long and numbers beyond both are
    \* among the serials
    CertLongMax = 15
    Radix = 4
    CertSerials <- MCSerials
INVARIANTS
    TypeOK
    SerialsConsecutive
    SerialsInRange
    IssuedVerifiesThroughout
    CertificateIsAsAsked
    RequestsProveTheirKey
    NamesSurviveEncoding
    SerialNumbersAreExact
CHECK_DEADLOCK FALSE
