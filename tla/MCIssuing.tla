----------------------------- MODULE MCIssuing -----------------------------
(***************************************************************************)
(* Model checking of what issuing a certificate takes.  A behaviour        *)
(* exercises one part, the others keep an initial state:                   *)
(* CertificateAuthority, SigningParameters, Csr, DistinguishedName and     *)
(* SerialNumber.  All bounds are in the cfg.                               *)
(***************************************************************************)
EXTENDS CertificateAuthority

CONSTANTS
    Usages, PathLengths, Lifetimes, Digests, Times, MaxSettings,    \* SigningParameters
    KeyType, Subjects, RequestDigests,                              \* Csr
    Slots, NIDs, Values, MaxAttributes,                             \* DistinguishedName
    CertLongMax, Radix, CertSerials                                 \* SerialNumber

VARIABLES
    part,           \* the component this behaviour exercises
    pUsages, pExtensions, pValidity, pDigest, pNotBefore, pSettings, pCertificate,
    rReq, rWire, rVerified, rRefused, rFailed,
    nDn, nName, nSource, nLoaded, nException,
    sSerial, sGiven, sAnswer

paramVars == <<pUsages, pExtensions, pValidity, pDigest, pNotBefore, pSettings,
               pCertificate>>
csrVars == <<rReq, rWire, rVerified, rRefused, rFailed>>
nameVars == <<nDn, nName, nSource, nLoaded, nException>>
serialVars == <<sSerial, sGiven, sAnswer>>
mcvars == <<part, vars, paramVars, csrVars, nameVars, serialVars>>

MCStarts == {-1, 0, 2}
MCValidities == {-1, 0, 1, 3}
MCKeyType == [k \in Keys |-> IF k = (CHOOSE rsa \in Keys : TRUE) THEN "RSA" ELSE "ECC_ED"]
MCValues == {<<>>, <<"d", "e">>, <<"e", "s">>, <<"d", "e", "u">>}
MCSerials == -40 .. 100

Params == INSTANCE SigningParameters WITH
    Validities <- Lifetimes,
    usages <- pUsages, extensions <- pExtensions, validity <- pValidity,
    digest <- pDigest, notBefore <- pNotBefore, settings <- pSettings,
    certificate <- pCertificate

Requests == INSTANCE Csr WITH
    Digests <- RequestDigests,
    req <- rReq, wire <- rWire, verified <- rVerified, refused <- rRefused,
    failed <- rFailed

Names == INSTANCE DistinguishedName WITH
    dn <- nDn, name <- nName, source <- nSource, loaded <- nLoaded,
    exception <- nException

SerialNumbers == INSTANCE SerialNumber WITH
    LongMax <- CertLongMax, Serials <- CertSerials,
    serial <- sSerial, given <- sGiven, answer <- sAnswer

ASSUME IssuingAssumption ==
    /\ Params!ParametersAssumption
    /\ Requests!CsrAssumption
    /\ Names!NameAssumption
    /\ SerialNumbers!SerialAssumption

MCInit ==
    /\ part \in {"authority", "parameters", "requests", "names", "serials"}
    /\ Init
    /\ Params!Init
    /\ part = "parameters" \/ (/\ pValidity = (CHOOSE v \in Lifetimes : TRUE)
                             /\ pDigest = (CHOOSE d \in Digests : TRUE))
    /\ Requests!Init
    /\ Names!Init
    /\ part = "names" \/ \A i \in Slots : ~nDn[i].custom
    /\ SerialNumbers!Init
    /\ part = "serials" \/ sSerial = 0

MCNext ==
    \/ /\ part = "authority" /\ Next
       /\ UNCHANGED <<part, paramVars, csrVars, nameVars, serialVars>>
    \/ /\ part = "parameters" /\ Params!Next
       /\ UNCHANGED <<part, vars, csrVars, nameVars, serialVars>>
    \/ /\ part = "requests" /\ Requests!Next
       /\ UNCHANGED <<part, vars, paramVars, nameVars, serialVars>>
    \/ /\ part = "names" /\ Names!Next
       /\ UNCHANGED <<part, vars, paramVars, csrVars, serialVars>>
    \/ /\ part = "serials" /\ SerialNumbers!Next
       /\ UNCHANGED <<part, vars, paramVars, csrVars, nameVars>>

MCSpec == MCInit /\ [][MCNext]_mcvars
-----------------------------------------------------------------------------
(* A certificate carries, for every kind of extension, what the last       *)
(* extension of that kind that was set on the builder said; its start, the *)
(* length of its validity and its digest are those set last, and the start *)
(* is a second ago if none was set.                                        *)
CertificateIsAsAsked ==
    /\ Params!TypeOK
    /\ Params!CertificateSaysWhatWasAsked
    /\ Params!SettingsAreUsed

(* Who holds the private key of the public key in a request that verifies  *)
(* has signed that subject together with that key; every key makes a       *)
(* request with every digest a caller may ask for, and verify() accepts    *)
(* it, however it travelled.                                               *)
RequestsProveTheirKey ==
    /\ Requests!TypeOK
    /\ Requests!VerifiedWasMadeByKeyHolder
    /\ Requests!EveryKeyMakesRequests
    /\ Requests!OwnRequestsVerify

(* A name that is written to a certificate or request and read back is     *)
(* equal to the original (of a custom order, if no attribute was set       *)
(* twice), and operator== never calls two names of one kind equal that     *)
(* certificates tell apart.                                                *)
NamesSurviveEncoding ==
    /\ Names!TypeOK
    /\ Names!RoundTrip
    /\ Names!EqualNamesEncodeAlike

(* The integer, the decimal string and the bytes that a certificate        *)
(* returns mean its serial number, or the call throws: a number outside of *)
(* the range is not folded into it.  What the certificate authority could  *)
(* set is returned as an integer.                                          *)
SerialNumbersAreExact ==
    /\ SerialNumbers!TypeOK
    /\ SerialNumbers!AnswersAreTheSerial
    /\ SerialNumbers!SetSerialsAreReturned
=============================================================================
