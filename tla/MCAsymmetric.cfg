SPECIFICATION MCSpec
CONSTANTS
    k88 = k88
    k1040 = k1040
    k1041 = k1041
    ec = ec
    short = short
    long = long
    none = none
    noLabel = noLabel
    label = label
    rsaKey = rsaKey
    ecKey1 = ecKey1
    ecKey2 = ecKey2
    edKey = edKey
    sha = sha
    sha3 = sha3
    noDigest = noDigest
    noSalt = noSalt
    noMgf = noMgf
    Keys <- MCKeys
    KeyType <- MCKeyType
    Bits <- MCBits
    Digests = {short, long}
    DigestSize <- MCDigestSize
    NoDigest = none
    Labels = {noLabel, label}
    NoLabel = noLabel
    Objects <- MCObjects
    InitialPadding <- MCInitialPadding
    Assigned <- MCAssigned
    Slots = {s1, s2}
    Sizes <- MCSizes
    IntMax = 32767
    SizeMod = 1048576
    SignKeys = {rsaKey, ecKey1, ecKey2, edKey}
    SignKeyType <- MCSignKeyType
    SignBits <- MCSignBits
    SignDigests = {sha, sha3, long}
    SignDigestSize <- MCSignDigestSize
    Messages = {m1, m2}
    PssPaddings <- MCPssPaddings
    Numbers = {1, 5}
    ByteBits = 2
    Radix = 4
    Order <- MCOrder
    DigestInfo = 4
    \* two keys; fields that are and that are not a whole number of octets
    RSASizes = {2048}
    Curves = {"PRIME_256v1", "SECP_521r1", "SECT_283k1", "Ed25519"}
    Passwords <- MCPasswords
    PemBufSize = 3
    MaxKeys = 2
INVARIANTS
    SizeCheckIsExact
    DecryptInvertsEncrypt
    SignaturesAreSound
    KeysKeepTheirMeaning
