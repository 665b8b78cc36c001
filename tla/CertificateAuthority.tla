------------------------ MODULE CertificateAuthority ------------------------
(***************************************************************************)
(* CertificateAuthority (ca.cpp): creating a root certificate,             *)
(* constructing a CA from one, and signing requests with the CA's default  *)
(* parameters while time passes.  A certificate is a record of what        *)
(* verification looks at; names are abstracted to `chainOk', which says    *)
(* whether OpenSSL accepts the certificate below the root apart from       *)
(* signature and time (names, key usage, extensions).                      *)
(* A call that throws changes nothing here and is a stuttering step.       *)
(***************************************************************************)
EXTENDS Integers, Sequences, FiniteSets

CONSTANTS
    LongMax,        \* std::numeric_limits<long>::max()
    Keys,           \* key pairs
    Serials,        \* serial numbers a caller starts from
    Starts,         \* explicit _notBefore times of signing parameters
    Validities,     \* _certificateValidity, in seconds (may be negative)
    MaxNow,         \* bound: the latest wall clock time
    MaxIssued       \* bound: certificates issued by one CA

UInt64Max == 2 * LongMax + 1

ASSUME CAAssumption ==
    /\ LongMax \in Nat
    /\ Serials \subseteq 0 .. UInt64Max
    /\ Starts \subseteq Int /\ Validities \subseteq Int
    /\ MaxNow \in Nat /\ MaxIssued \in Nat

VARIABLES
    now,            \* Asn1Time::now()
    roots,          \* certificates a CA can be constructed from
    ca,             \* the CertificateAuthority object, or NoCA
    firstSerial,    \* the nextSerialNumber given to its constructor
    issued          \* the certificates it has returned, in order

vars == <<now, roots, ca, firstSerial, issued>>

(* boost::optional<Asn1Time> *)
Unset == [initialized |-> FALSE, value |-> 0]
OptionalStart == {Unset} \cup [initialized : {TRUE}, value : Starts]

NoCA == [constructed |-> FALSE]

SignParams ==
    [notBefore : OptionalStart, certificateValidity : Validities,
     basicConstraints : {"none", "CA", "notCA"}]

notBeforeAsn1(params, t) ==
    IF params.notBefore.initialized THEN params.notBefore.value ELSE t - 1

(* mutation: every uint64_t is accepted *)
SerialUnchecked(serial) == TRUE

(* _X509_set_serialNumber throws above LONG_MAX; the number then travels   *)
(* as a long.                                                              *)
SetSerialNumberOk(serial) == serial <= LongMax
AsLong(serial) == IF serial <= LongMax THEN serial ELSE serial - (UInt64Max + 1)

(* _signCertificate on a certificate for key `subject' *)
SignedCertificate(subject, serial, params, t, signer, chainOk) ==
    [key |-> subject, serial |-> AsLong(serial),
     notBefore |-> notBeforeAsn1(params, t),
     notAfter |-> notBeforeAsn1(params, t) + params.certificateValidity,
     isCA |-> params.basicConstraints = "CA", signedBy |-> signer, chainOk |-> chainOk]

(* X509Certificate::verify with `root' trusted and the check time t: both  *)
(* certificates must have begun and not have ended (notAfter is exclusive).*)
ValidAt(cert, t) == cert.notBefore <= t /\ t < cert.notAfter
VerifiesAt(root, cert, t) ==
    /\ root.isCA
    /\ cert.signedBy = root.key /\ cert.chainOk
    /\ ValidAt(root, t) /\ ValidAt(cert, t)

(* mutation: verification at the beginning of the validity only *)
SanityCheckAtBeginning(root, cert) == VerifiesAt(root, cert, cert.notBefore)

(* The checks _signCSR makes before it hands a certificate out. *)
SanityCheck(root, cert) ==
    /\ ~(root.notBefore > cert.notBefore)
    /\ ~(root.notAfter < cert.notAfter)
    /\ VerifiesAt(root, cert, cert.notBefore)
    /\ VerifiesAt(root, cert, cert.notAfter - 1)

(* mutation: _nextSerialNumber is a long *)
IncrementedAsLong(serial) == IF serial = LongMax THEN -(LongMax + 1) ELSE serial + 1

(* _nextSerialNumber++ on a uint64_t *)
Incremented(serial) == (serial + 1) % (UInt64Max + 1)
-----------------------------------------------------------------------------
(* Certificates from elsewhere that are not CA certificates. *)
ForeignCertificates ==
    {[key |-> k, serial |-> 0, notBefore |-> 0, notAfter |-> MaxNow, isCA |-> FALSE,
      signedBy |-> k, chainOk |-> TRUE] : k \in Keys}

Init ==
    /\ now = 0
    /\ roots = ForeignCertificates
    /\ ca = NoCA
    /\ firstSerial = 0
    /\ issued = <<>>

CreateRootCertificate(key, serial, params) ==
    /\ ~ca.constructed
    /\ params.basicConstraints = "CA"
    /\ SetSerialNumberOk(serial)
    /\ roots' = {SignedCertificate(key, serial, params, now, key, TRUE)}
    /\ UNCHANGED <<now, ca, firstSerial, issued>>

Construct(params, serial, root, key) ==
    /\ ~ca.constructed
    /\ key = root.key
    /\ ca' = [constructed |-> TRUE, defaultSignParams |-> params,
              nextSerialNumber |-> serial, rootCert |-> root, privateKey |-> key]
    /\ firstSerial' = serial
    /\ UNCHANGED <<now, roots, issued>>

(* mutation: the serial number is taken before the checks *)
SignCSRSerialFirst(subject, chainOk) ==
    /\ ca.constructed
    /\ Len(issued) < MaxIssued
    /\ SetSerialNumberOk(ca.nextSerialNumber)
    /\ LET cert == SignedCertificate(subject, ca.nextSerialNumber, ca.defaultSignParams,
                                     now, ca.privateKey, chainOk)
       IN  issued' = IF SanityCheck(ca.rootCert, cert) THEN Append(issued, cert) ELSE issued
    /\ ca' = [ca EXCEPT !.nextSerialNumber = Incremented(@)]
    /\ UNCHANGED <<now, roots, firstSerial>>

SignCSR(subject, chainOk) ==
    /\ ca.constructed
    /\ Len(issued) < MaxIssued
    /\ SetSerialNumberOk(ca.nextSerialNumber)
    /\ LET cert == SignedCertificate(subject, ca.nextSerialNumber, ca.defaultSignParams,
                                     now, ca.privateKey, chainOk)
       IN  /\ SanityCheck(ca.rootCert, cert)
           /\ issued' = Append(issued, cert)
    /\ ca' = [ca EXCEPT !.nextSerialNumber = Incremented(@)]
    /\ UNCHANGED <<now, roots, firstSerial>>

Tick == now < MaxNow /\ now' = now + 1 /\ UNCHANGED <<roots, ca, firstSerial, issued>>

Next ==
    \/ \E key \in Keys, serial \in Serials, params \in SignParams :
            CreateRootCertificate(key, serial, params)
    \/ \E params \in SignParams, serial \in Serials, root \in roots, key \in Keys :
            Construct(params, serial, root, key)
    \/ \E subject \in Keys, chainOk \in BOOLEAN : SignCSR(subject, chainOk)
    \/ Tick

Spec == Init /\ [][Next]_vars
-----------------------------------------------------------------------------
Certificate ==
    [key : Keys, serial : Int, notBefore : Int, notAfter : Int, isCA : BOOLEAN,
     signedBy : Keys, chainOk : BOOLEAN]

CAObject ==
    [constructed : {TRUE}, defaultSignParams : SignParams,
     nextSerialNumber : 0 .. UInt64Max, rootCert : Certificate, privateKey : Keys]

(* Every member keeps its type: in particular the counter stays a uint64_t *)
(* when the last serial number that fits into a long has been used.        *)
TypeOK ==
    /\ now \in Nat
    /\ roots \subseteq Certificate
    /\ ca \in CAObject \cup {NoCA}
    /\ firstSerial \in 0 .. UInt64Max
    /\ issued \in Seq(Certificate)

(* The serial numbers handed out are the consecutive ones from the first,  *)
(* none repeated, none spent on a request that was refused, and            *)
(* getNextSerialNumber() is the one that comes next.                       *)
SerialsConsecutive ==
    /\ \A i \in 1 .. Len(issued) : issued[i].serial = firstSerial + (i - 1)
    /\ ca.constructed => ca.nextSerialNumber = firstSerial + Len(issued)

(* No issued certificate carries a negative serial number: a CA that has   *)
(* used up the range of a long refuses to sign instead of going on.        *)
SerialsInRange == \A i \in 1 .. Len(issued) : issued[i].serial \in 0 .. LongMax

(* An issued certificate verifies against the CA's root at every instant   *)
(* of its validity, although signCSR tries the first and last one only.    *)
IssuedVerifiesThroughout ==
    \A i \in 1 .. Len(issued) :
        LET cert == issued[i]
        IN  /\ cert.notBefore < cert.notAfter
            /\ \A t \in cert.notBefore .. (cert.notAfter - 1) :
                    VerifiesAt(ca.rootCert, cert, t)
=============================================================================
