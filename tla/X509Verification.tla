-------------------------- MODULE X509Verification --------------------------
(***************************************************************************)
(* X509Certificate::VerificationContext and X509Certificate::verify()      *)
(* (x509.cpp, x509.h), CertificateRevocationList::verify() (crl.cpp).      *)
(*                                                                         *)
(* The certificates and CRLs that exist are constants; the state is the    *)
(* context a caller fills.  Every certificate has one issuing certificate, *)
(* so there is one path upwards from each; a self-signed one issues        *)
(* itself.  OpenSSL's chain building and checking is external.             *)
(***************************************************************************)
EXTENDS Integers, FiniteSets, FiniteSetsExt

CONSTANTS
    Certs, Crls,
    Issuer,             \* certificate -> the certificate whose key signed it
    NotBefore, NotAfter,
    IsCA, PathLen,
    CrlIssuer,          \* CRL -> the certificate whose subject it names
    CrlSigner,          \* CRL -> the certificate whose key signed it
    LastUpdate, NextUpdate, Revoked,
    Times,              \* the values of std::time_t
    OutOfRange,         \* Asn1Times that std::time_t cannot hold
    Now, NotSet

ASSUME PkiAssumption ==
    /\ IsFiniteSet(Certs) /\ IsFiniteSet(Crls)
    /\ LastUpdate \in [Crls -> Int]
    /\ Issuer \in [Certs -> Certs]
    /\ IsCA \in [Certs -> BOOLEAN]
    /\ CrlIssuer \in [Crls -> Certs] /\ CrlSigner \in [Crls -> Certs]
    /\ Revoked \in [Crls -> SUBSET Certs]
    /\ Now \in Times /\ NotSet \notin Times
    /\ \A r, s \in Crls : CrlIssuer[r] = CrlIssuer[s] /\ r # s
                            => LastUpdate[r] # LastUpdate[s]

VARIABLES
    trustedCerts, intermediateCerts, crls,
    enforceSelfSignedRootCertificate, enforceCrlForWholeChain,
    verificationCheckTime,
    verdict             \* of the last call, if the context is still the same

context == <<trustedCerts, intermediateCerts, crls,
             enforceSelfSignedRootCertificate, enforceCrlForWholeChain,
             verificationCheckTime>>
vars == <<context, verdict>>

NoVerdict == [call |-> "none"]
-----------------------------------------------------------------------------
(* OpenSSL: the path upwards and what X509_verify_cert() makes of it.      *)
Height == 0 .. Cardinality(Certs)

Path(cert) ==
    LET up[n \in Height] == IF n = 0 THEN cert ELSE Issuer[up[n - 1]]
    IN  up

SelfSigned(cert) == Issuer[cert] = cert

(* The first trusted certificate above cert (a self-signed one is its own  *)
(* issuer) that is reached through the intermediate certificates.          *)
Anchors(cert, trusted, intermediates) ==
    {n \in Height :
        /\ n > 0 \/ SelfSigned(cert)
        /\ Path(cert)[n] \in trusted
        /\ \A i \in 1 .. n - 1 : Path(cert)[i] \in intermediates \ trusted}

(* From there on only trusted certificates are taken, up to a self-signed. *)
Roots(cert, trusted, from) ==
    {n \in Height :
        /\ n >= from /\ SelfSigned(Path(cert)[n])
        /\ \A i \in from .. n : Path(cert)[i] \in trusted}

(* A trusted certificate without a trusted issuer is accepted as it is in  *)
(* a partial chain; the intermediates found above it stay in the chain.    *)
Leftovers(cert, intermediates) ==
    Max({n \in Height : \A i \in 1 .. n :
            Path(cert)[i] \in intermediates /\ Path(cert)[i] # Path(cert)[i - 1]})

(* Positions of the last certificate of the chain that is built *)
ChainEnds(cert, trusted, intermediates, partial) ==
    LET anchors == Anchors(cert, trusted, intermediates)
        first   == Min(anchors)
        roots   == Roots(cert, trusted, first)
    IN  CASE anchors # {} /\ partial      -> {first}
          [] anchors # {} /\ ~partial     -> IF roots = {} THEN {} ELSE {Min(roots)}
          [] anchors = {} /\ partial /\ cert \in trusted ->
                {Leftovers(cert, intermediates)}
          [] OTHER                        -> {}

(* X509_cmp_time() counts the very instant of notAfter as expired, and of  *)
(* nextUpdate below.                                                       *)
ValidAt(cert, time) == NotBefore[cert] <= time /\ time < NotAfter[cert]

(* Dates, CA flags and path lengths along the chain *)
ChainValid(cert, end, time) ==
    \A i \in 0 .. end :
        /\ ValidAt(Path(cert)[i], time)
        /\ i > 0 => IsCA[Path(cert)[i]] /\ i - 1 <= PathLen[Path(cert)[i]]

CrlValidAt(crl, time) == LastUpdate[crl] <= time /\ time < NextUpdate[crl]

(* The CRL OpenSSL picks for an issuer: one that is valid at the time if   *)
(* there is one, and the latest of those.                                  *)
ChosenCrl(issuer, lists, time) ==
    LET named   == {r \in lists : CrlIssuer[r] = issuer}
        current == {r \in named : CrlValidAt(r, time)}
        pool    == IF current # {} THEN current ELSE named
    IN  {r \in pool : \A s \in pool : LastUpdate[s] <= LastUpdate[r]}

CrlCheck(cert, i, end, lists, time) ==
    /\ i < end \/ SelfSigned(Path(cert)[i])
    /\ \E r \in ChosenCrl(Issuer[Path(cert)[i]], lists, time) :
            /\ CrlSigner[r] = CrlIssuer[r]
            /\ CrlValidAt(r, time)
            /\ Path(cert)[i] \notin Revoked[r]

X509VerifyCert(cert, trusted, intermediates, lists, flags, time) ==
    \E end \in ChainEnds(cert, trusted, intermediates, "PARTIAL_CHAIN" \in flags) :
        /\ ChainValid(cert, end, time)
        /\ "CRL_CHECK" \in flags => CrlCheck(cert, 0, end, lists, time)
        /\ "CRL_CHECK_ALL" \in flags =>
                \A i \in 0 .. end : CrlCheck(cert, i, end, lists, time)
-----------------------------------------------------------------------------
(* validityCheck() returns without an exception *)
ValidityCheck(selfSignedRoot, wholeChain, lists) ==
    /\ ~(wholeChain /\ ~selfSignedRoot)
    /\ ~(wholeChain /\ lists = {})

(* mutation: CRLs are only consulted when all CAs must have one *)
FlagsCrlOnlyIfEnforced(selfSignedRoot, wholeChain, lists, checkTime) ==
    (IF selfSignedRoot THEN {} ELSE {"PARTIAL_CHAIN"}) \union
    (IF wholeChain THEN {"CRL_CHECK", "CRL_CHECK_ALL"} ELSE {}) \union
    (IF checkTime = NotSet THEN {} ELSE {"USE_CHECK_TIME"})

(* mutation: the flag for a partial chain is set by the wrong setting *)
FlagsPartialInverted(selfSignedRoot, wholeChain, lists, checkTime) ==
    (IF selfSignedRoot THEN {"PARTIAL_CHAIN"} ELSE {}) \union
    (IF lists # {} \/ wholeChain THEN {"CRL_CHECK"} ELSE {}) \union
    (IF wholeChain THEN {"CRL_CHECK_ALL"} ELSE {}) \union
    (IF checkTime = NotSet THEN {} ELSE {"USE_CHECK_TIME"})

(* mutation: a partial chain is never accepted *)
FlagsNoPartial(selfSignedRoot, wholeChain, lists, checkTime) ==
    (IF lists # {} \/ wholeChain THEN {"CRL_CHECK"} ELSE {}) \union
    (IF wholeChain THEN {"CRL_CHECK_ALL"} ELSE {}) \union
    (IF checkTime = NotSet THEN {} ELSE {"USE_CHECK_TIME"})

(* The verification flags verify() derives from the context *)
Flags(selfSignedRoot, wholeChain, lists, checkTime) ==
    (IF selfSignedRoot THEN {} ELSE {"PARTIAL_CHAIN"}) \union
    (IF lists # {} \/ wholeChain THEN {"CRL_CHECK"} ELSE {}) \union
    (IF wholeChain THEN {"CRL_CHECK_ALL"} ELSE {}) \union
    (IF checkTime = NotSet THEN {} ELSE {"USE_CHECK_TIME"})

(* verify(ctx) of a certificate returns without an exception *)
Verifies(cert, trusted, others, lists, selfSigned, wholeChain, checkTime) ==
    LET flags == Flags(selfSigned, wholeChain, lists, checkTime)
        time  == IF "USE_CHECK_TIME" \in flags THEN checkTime ELSE Now
    IN  /\ ValidityCheck(selfSigned, wholeChain, lists)
        /\ X509VerifyCert(cert, trusted, others, lists, flags, time)

(* CertificateRevocationList::verify(signer): the names are compared first *)
CrlVerifies(crl, signer) ==
    /\ CrlIssuer[crl] = signer
    /\ CrlSigner[crl] = signer
-----------------------------------------------------------------------------
Init ==
    /\ trustedCerts = {} /\ intermediateCerts = {} /\ crls = {}
    /\ enforceSelfSignedRootCertificate = FALSE
    /\ enforceCrlForWholeChain = FALSE
    /\ verificationCheckTime = NotSet
    /\ verdict = NoVerdict

AddTrustedCertificates(added) ==
    /\ trustedCerts' = trustedCerts \union added
    /\ verdict' = NoVerdict
    /\ UNCHANGED <<intermediateCerts, crls, enforceSelfSignedRootCertificate,
                   enforceCrlForWholeChain, verificationCheckTime>>

AddIntermediateCertificates(added) ==
    /\ intermediateCerts' = intermediateCerts \union added
    /\ verdict' = NoVerdict
    /\ UNCHANGED <<trustedCerts, crls, enforceSelfSignedRootCertificate,
                   enforceCrlForWholeChain, verificationCheckTime>>

AddCertificateRevocationLists(added) ==
    /\ crls' = crls \union added
    /\ verdict' = NoVerdict
    /\ UNCHANGED <<trustedCerts, intermediateCerts, enforceCrlForWholeChain,
                   enforceSelfSignedRootCertificate, verificationCheckTime>>

EnforceSelfSignedRootCertificate ==
    /\ enforceSelfSignedRootCertificate' = TRUE
    /\ verdict' = NoVerdict
    /\ UNCHANGED <<trustedCerts, intermediateCerts, crls,
                   enforceCrlForWholeChain, verificationCheckTime>>

EnforceCrlsForAllCAs ==
    /\ enforceCrlForWholeChain' = TRUE
    /\ verdict' = NoVerdict
    /\ UNCHANGED <<trustedCerts, intermediateCerts, crls,
                   enforceSelfSignedRootCertificate, verificationCheckTime>>

(* toTimeT() throws outside the range of time_t; the context stays as it is *)
SetVerificationCheckTime(time) ==
    /\ verificationCheckTime' = IF time \in Times THEN time
                                ELSE verificationCheckTime
    /\ verdict' = NoVerdict
    /\ UNCHANGED <<trustedCerts, intermediateCerts, crls,
                   enforceSelfSignedRootCertificate, enforceCrlForWholeChain>>

(* The calls below are const; the model takes one of them per context, and *)
(* CRLs are verified while the context, which plays no part, is empty.     *)
Verify(cert) ==
    /\ verdict = NoVerdict
    /\ verdict' = [call |-> "verify", cert |-> cert,
                   accepted |-> Verifies(cert, trustedCerts, intermediateCerts,
                                    crls, enforceSelfSignedRootCertificate,
                                    enforceCrlForWholeChain,
                                    verificationCheckTime)]
    /\ UNCHANGED context

(* verify(trustStore, intermediateCAs): a context with just these *)
VerifyTrustStore(cert) ==
    /\ verdict = NoVerdict
    /\ verdict' = [call |-> "verify trust store", cert |-> cert,
                   accepted |-> Verifies(cert, trustedCerts, intermediateCerts,
                                    {}, FALSE, FALSE, NotSet)]
    /\ UNCHANGED context

VerifyCrl(crl, signer) ==
    /\ verdict = NoVerdict /\ trustedCerts \union intermediateCerts = {}
    /\ verdict' = [call |-> "verify CRL", crl |-> crl, cert |-> signer,
                   accepted |-> CrlVerifies(crl, signer)]
    /\ UNCHANGED context

Next ==
    \/ \E c \in Certs : AddTrustedCertificates({c})
    \/ \E c \in Certs : AddIntermediateCertificates({c})
    \/ \E r \in Crls : AddCertificateRevocationLists({r})
    \/ EnforceSelfSignedRootCertificate
    \/ EnforceCrlsForAllCAs
    \/ \E t \in Times \union OutOfRange : SetVerificationCheckTime(t)
    \/ \E c \in Certs : Verify(c)
    \/ \E c \in Certs : VerifyTrustStore(c)
    \/ \E r \in Crls, c \in Certs : VerifyCrl(r, c)

Spec == Init /\ [][Next]_vars
-----------------------------------------------------------------------------
(* The context holds certificates, CRLs, two flags and a time. *)
TypeOK ==
    /\ trustedCerts \subseteq Certs
    /\ intermediateCerts \subseteq Certs
    /\ crls \subseteq Crls
    /\ enforceSelfSignedRootCertificate \in BOOLEAN
    /\ enforceCrlForWholeChain \in BOOLEAN
    /\ verificationCheckTime \in Times \union {NotSet}
    /\ verdict.call \in {"none", "verify", "verify trust store", "verify CRL"}

Accepted(call) == verdict.call = call /\ verdict.accepted

CheckTime == IF verificationCheckTime = NotSet THEN Now ELSE verificationCheckTime

(* The contract of verify() in x509.h, told by positions on the path: a    *)
(* chain from a trusted certificate down to the one that is verified.      *)
ContractChain(cert, n, between) ==
    /\ Path(cert)[n] \in trustedCerts
    /\ \A i \in 1 .. n - 1 : Path(cert)[i] \in between
    /\ enforceSelfSignedRootCertificate => SelfSigned(Path(cert)[n])
    /\ ChainValid(cert, n, CheckTime)

(* Issued by a CA of which the context holds a current CRL that passes     *)
(* CertificateRevocationList::verify() and does not list the certificate   *)
CoveredByCrl(cert) ==
    \E r \in crls : /\ CrlVerifies(r, Issuer[cert])
                    /\ CrlValidAt(r, CheckTime)
                    /\ cert \notin Revoked[r]

(* verify() accepts only in a valid context, and only a certificate below  *)
(* a trusted one, all valid at the time of the check, covered by a CRL if  *)
(* the context holds any, and for all of the chain if that was asked for.  *)
(* The form without a context accepts nothing else.                        *)
AcceptedMeetsContract ==
    /\ Accepted("verify trust store") =>
          \E n \in Height :
              /\ Path(verdict.cert)[n] \in trustedCerts
              /\ \A i \in 1 .. n - 1 : Path(verdict.cert)[i] \in intermediateCerts
              /\ ChainValid(verdict.cert, n, Now)
    /\ Accepted("verify") =>
        /\ enforceCrlForWholeChain =>
                enforceSelfSignedRootCertificate /\ crls # {}
        /\ crls # {} => CoveredByCrl(verdict.cert)
        /\ \E n \in Height :
              /\ ContractChain(verdict.cert, n, intermediateCerts \union trustedCerts)
              /\ enforceCrlForWholeChain =>
                    \A i \in 0 .. n : CoveredByCrl(Path(verdict.cert)[i])

(* The converse, the "if" of the contract: a certificate with such a chain *)
(* whose inner certificates are not trusted ones themselves is accepted,   *)
(* when no CRL of the context lists any certificate or is out of date.     *)
ContractIsAccepted ==
    verdict.call = "verify" /\ ~verdict.accepted =>
        ~(/\ enforceCrlForWholeChain => enforceSelfSignedRootCertificate /\ crls # {}
          /\ \A r \in crls : /\ Revoked[r] = {} /\ CrlSigner[r] = CrlIssuer[r]
                             /\ CrlValidAt(r, CheckTime)
          /\ \E n \in Height :
                /\ n > 0 \/ SelfSigned(verdict.cert)
                /\ ContractChain(verdict.cert, n, intermediateCerts \ trustedCerts)
                /\ \A i \in 0 .. (IF enforceCrlForWholeChain THEN n ELSE 0) :
                      crls # {} => CoveredByCrl(Path(verdict.cert)[i]))

(* The enforce calls only ever make verify() reject more: what a context   *)
(* accepts, the same context without the two flags accepts as well.        *)
FlagsOnlyRestrict ==
    Accepted("verify") =>
        /\ Verifies(verdict.cert, trustedCerts, intermediateCerts, crls,
                    FALSE, FALSE, verificationCheckTime)
        /\ enforceCrlForWholeChain =>
              Verifies(verdict.cert, trustedCerts, intermediateCerts, crls,
                       TRUE, FALSE, verificationCheckTime)

(* The context holds certificates, CRLs, two flags and a time in range,    *)
(* and the flags only restrict.                                            *)
ContextIsSound == TypeOK /\ FlagsOnlyRestrict

(* The contract's last item: no certificate of the chain is on its         *)
(* predecessor's (latest) CRL.  The predecessor of a certificate is the    *)
(* one that issued it, so the claim is about those below the trusted one   *)
(* in which the chain ends, and says nothing of that one itself.           *)
NoRevokedCertificateInChain ==
    Accepted("verify") =>
        \A n \in Height :
            (/\ \A i \in 1 .. n : Path(verdict.cert)[i] # Path(verdict.cert)[i - 1]
             /\ \A i \in 0 .. n : Path(verdict.cert)[i] \notin trustedCerts)
            => \A r \in ChosenCrl(Issuer[Path(verdict.cert)[n]], crls, CheckTime) :
                    Path(verdict.cert)[n] \notin Revoked[r]
=============================================================================
