SPECIFICATION Spec
CONSTANTS
    root = root
    int1 = int1
    int2 = int2
    leaf = leaf
    rootOld = rootOld
    int1Crl = int1Crl
    int2Crl = int2Crl
    forged = forged
    rootNew = rootNew
    never = never
    unset = unset
    Certs <- MCCerts
    Crls <- MCCrls
    Issuer <- MCIssuer
    NotBefore <- MCNotBefore
    NotAfter <- MCNotAfter
    IsCA <- MCIsCA
    PathLen <- MCPathLen
    CrlIssuer <- MCCrlIssuer
    CrlSigner <- MCCrlSigner
    LastUpdate <- MCLastUpdate
    NextUpdate <- MCNextUpdate
    Revoked <- MCRevoked
    Times <- MCTimes
    OutOfRange = {never}
    Now = 2
    NotSet = unset
INVARIANT
    NoRevokedCertificateInChain
