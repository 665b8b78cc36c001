-------------------------------- MODULE Csr --------------------------------
(***************************************************************************)
(* CertificateSigningRequest (csr.cpp): a request is made and signed by    *)
(* its subject, travels as PEM or DER text or file, and is verified by who *)
(* reads it.  The text may be altered or replaced on the way.              *)
(***************************************************************************)
EXTENDS Naturals

CONSTANTS
    Keys,           \* key pairs; KeyType is their type
    KeyType,
    Subjects,
    Digests         \* digest functions a caller may ask for, NONE included

CsrAssumption ==
    KeyType \in [Keys -> {"RSA", "ECC", "ECC_ED"}] /\ "NONE" \in Digests

VARIABLES
    req,            \* X509_REQs that objects hold: those made and those read
    wire,           \* texts that can be read: encoding and content
    verified,       \* requests whose verify() returned
    refused,        \* requests whose verify() threw
    failed          \* key and digest of constructions OpenSSL cannot sign

vars == <<req, wire, verified, refused, failed>>

(* OpenSSL: the digest of a signature.  None was given for RSA and EC keys *)
(* means the default one, and an Edwards key takes none.                   *)
EffectiveDigest(key, digest) ==
    IF digest = "NONE" /\ KeyType[key] # "ECC_ED" THEN "SHA256" ELSE digest

DigestAllowed(key, digest) == KeyType[key] = "ECC_ED" <=> digest = "NONE"

Signature(key, digest, subject, pubkey) ==
    [key |-> key, digest |-> digest, subject |-> subject, pubkey |-> pubkey]

(* OpenSSL: X509_REQ_verify() with the public key inside the request *)
Valid(r) ==
    /\ DigestAllowed(r.pubkey, r.signature.digest)
    /\ r.signature = Signature(r.pubkey, r.signature.digest, r.subject, r.pubkey)

Init == req = {} /\ wire = {} /\ verified = {} /\ refused = {} /\ failed = {}

(* The digest type the constructor signs with *)
DigestType(key, digest) == IF KeyType[key] = "ECC_ED" THEN "NONE" ELSE digest

(* mutation: the request is signed before the key is put in *)
SignedBeforeKey(subject, key, digest) ==
    [subject |-> subject, pubkey |-> key,
     signature |-> Signature(key, EffectiveDigest(key, DigestType(key, digest)),
                             subject, CHOOSE k \in Keys : TRUE)]

(* The request as the constructor leaves it: subject and key, then signed *)
Signed(subject, key, digest) ==
    [subject |-> subject, pubkey |-> key,
     signature |-> Signature(key, EffectiveDigest(key, DigestType(key, digest)),
                             subject, key)]

(* The constructors; the one without a digest asks for SHA-256.  When      *)
(* EVP_DigestSignInit() or the signing fails there is no object.           *)
Construct(subject, key, digest) ==
    /\ IF DigestAllowed(key, EffectiveDigest(key, DigestType(key, digest)))
       THEN req' = req \union {Signed(subject, key, digest)} /\ UNCHANGED failed
       ELSE failed' = failed \union {<<key, digest>>} /\ UNCHANGED req
    /\ UNCHANGED <<wire, verified, refused>>

(* toPEM(), toPem() and toDER() *)
Write(r, encoding) ==
    /\ wire' = wire \union {[encoding |-> encoding, content |-> r]}
    /\ UNCHANGED <<req, verified, refused, failed>>

(* Somebody else puts another subject or key into a request, or makes one  *)
(* from what was signed before.                                            *)
Alter(t, subject, key) ==
    /\ wire' = wire \union
          {[t EXCEPT !.content.subject = subject, !.content.pubkey = key]}
    /\ UNCHANGED <<req, verified, refused, failed>>

(* fromPEM(), fromPEMFile(), fromDER() and fromDERFile(): text of the      *)
(* other encoding is no request, and the signature is not looked at.       *)
Read(t, encoding) ==
    /\ t.encoding = encoding
    /\ req' = req \union {t.content}
    /\ UNCHANGED <<wire, verified, refused, failed>>

(* verify(): with the public key of the request itself *)
Verify(r) ==
    /\ IF Valid(r) THEN verified' = verified \union {r} /\ UNCHANGED refused
       ELSE refused' = refused \union {r} /\ UNCHANGED verified
    /\ UNCHANGED <<req, wire, failed>>

Next ==
    \/ \E s \in Subjects, k \in Keys, d \in Digests : Construct(s, k, d)
    \/ \E r \in req : Verify(r) \/ \E e \in {"PEM", "DER"} : Write(r, e)
    \/ \E t \in wire :
        \/ \E e \in {"PEM", "DER"} : Read(t, e)
        \/ \E s \in Subjects, k \in Keys : Alter(t, s, k)

Spec == Init /\ [][Next]_vars

(* Requests somebody has constructed: they carry their own signature *)
Made(r) == \E d \in Digests : r = Signed(r.subject, r.pubkey, d)
-----------------------------------------------------------------------------
(* Members are requests, and a signature never names a digest its key      *)
(* cannot use.                                                             *)
TypeOK ==
    \A r \in req : /\ r.subject \in Subjects /\ r.pubkey \in Keys
                   /\ DigestAllowed(r.signature.key, r.signature.digest)

(* verify() vouches for the whole request: who holds the private key of    *)
(* the public key inside has signed that subject together with that key.   *)
VerifiedWasMadeByKeyHolder == \A r \in verified : Made(r)

(* Every key makes a request with every digest a caller may ask for: the   *)
(* constructor never asks OpenSSL for a digest the key cannot use.         *)
EveryKeyMakesRequests == failed = {}

(* Whatever type of key and digest a request was made with, and however it *)
(* travelled, verify() accepts it: subject and key were in the request     *)
(* when it was signed.                                                     *)
OwnRequestsVerify == \A r \in refused : ~Made(r)
=============================================================================
