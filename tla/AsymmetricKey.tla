--------------------------- MODULE AsymmetricKey ---------------------------
(***************************************************************************)
(* The key classes of key.h and key.cpp: generation from a specification,  *)
(* the specification of a key, points of elliptic curves, and PEM files    *)
(* with and without a password.  A key is known by the generation it comes *)
(* from; the sizes of fields and points are the real ones.                 *)
(***************************************************************************)
EXTENDS Naturals, Sequences

CONSTANTS
    Bits,           \* RSA modulus sizes callers ask for
    Curves,         \* curves callers ask for
    Passwords,      \* sequences of characters; 0 is the NUL
    PemBufSize,     \* OpenSSL's PEM_BUFSIZE (1024)
    MaxKeys         \* bound: key objects made

VARIABLES
    keys,           \* the EVP_PKEYs of the key objects, in order of creation
    pem,            \* what privateKeyToPem() wrote last (empty: nothing)
    point,          \* what toECPoint() returned last (empty: nothing)
    exception,      \* what the last call threw: "none" or the class
    lastRead        \* password, PEM and success of the last private read

vars == <<keys, pem, point, exception, lastRead>>

EdCurves == {"Ed448", "Ed25519"}

(* OpenSSL: degree of the field of every curve of ellipticCurveNid *)
Degree ==
    [PRIME_192v1 |-> 192, PRIME_256v1 |-> 256, SECP_224r1 |-> 224,
     SECP_384r1 |-> 384, SECP_521r1 |-> 521, SECT_283k1 |-> 283,
     SECT_283r1 |-> 283, SECT_409k1 |-> 409, SECT_409r1 |-> 409,
     SECT_571k1 |-> 571, SECT_571r1 |-> 571]

KeyAssumption ==
    /\ Curves \subseteq DOMAIN Degree \union EdCurves
    /\ \A pwd \in Passwords : pwd \in Seq(Nat)
    /\ PemBufSize \in Nat /\ MaxKeys \in Nat

Forms == {"compressed", "uncompressed", "hybrid"}

RSASpec(bits) == [family |-> "RSA", bits |-> bits, curve |-> "none"]
ECCSpec(curve) == [family |-> "EC", bits |-> 0, curve |-> curve]

Specs == {RSASpec(b) : b \in Bits} \union {ECCSpec(c) : c \in Curves}

(* An EVP_PKEY: base type, modulus size or curve, and the key itself.      *)
(* A curve given by explicit parameters has no name.                       *)
Pkey(base, bits, curve, id, private) ==
    [base |-> base, bits |-> bits, curve |-> curve, id |-> id, private |-> private]

(* The number of key objects stands for what a generation draws. *)
NewId == Len(keys) + 1

GetType(k) ==
    CASE k.base = "RSA" -> "RSA" [] k.base = "EC" -> "ECC"
      [] k.base \in EdCurves -> "ECC_ED" [] OTHER -> "unknown"

(* RSASpec::generate() and ECCSpec::generate(): the Edwards curves are     *)
(* types of their own, the others are parameters of the type EC.           *)
Generated(spec) ==
    IF spec.family = "RSA" THEN Pkey("RSA", spec.bits, "none", NewId, TRUE)
    ELSE IF spec.curve \in EdCurves THEN Pkey(spec.curve, 0, "none", NewId, TRUE)
    ELSE Pkey("EC", 0, spec.curve, NewId, TRUE)

(* getKeySpec(): the specification, or none if it throws: a curve without  *)
(* a name and an unknown type end in a MoCOCrWException.                   *)
GetKeySpec(k) ==
    CASE GetType(k) = "RSA" -> {RSASpec(k.bits)}
      [] GetType(k) = "ECC" /\ k.curve # "explicit" -> {ECCSpec(k.curve)}
      [] GetType(k) = "ECC_ED" -> {ECCSpec(k.base)}
      [] OTHER -> {}

(* mutation: the size of the field is rounded down *)
GetECOctetLengthDown(k, form) ==
    LET fieldSizeBytes == Degree[k.curve] \div 8
    IN  IF form = "compressed" THEN 1 + fieldSizeBytes ELSE 1 + 2 * fieldSizeBytes

GetECOctetLength(k, form) ==
    LET fieldSizeBytes == (Degree[k.curve] + 7) \div 8
    IN  IF form = "compressed" THEN 1 + fieldSizeBytes ELSE 1 + 2 * fieldSizeBytes

(* OpenSSL: octets of an encoded point, SEC 1 section 2.3.3 *)
PointLength(curve, form) ==
    LET octets == CHOOSE n \in 1 .. Degree[curve] : 8 * n >= Degree[curve]
                                                   /\ 8 * (n - 1) < Degree[curve]
    IN  (IF form = "compressed" THEN octets ELSE 2 * octets) + 1
-----------------------------------------------------------------------------
Init ==
    /\ keys = <<>> /\ pem = <<>> /\ point = <<>>
    /\ exception = "none" /\ lastRead = <<>>

Fails(class) ==
    /\ exception' = class
    /\ UNCHANGED <<keys, pem, point, lastRead>>

AddKey(k) ==
    /\ keys' = Append(keys, k)
    /\ exception' = "none"
    /\ UNCHANGED <<pem, point, lastRead>>

(* generate(spec), and with it generateRSA(), generateECC() and the others *)
Generate(spec) ==
    /\ Len(keys) < MaxKeys
    /\ \/ AddKey(Generated(spec))
       \/ Fails(IF spec.family = "RSA" THEN "OpenSSLException" ELSE "MoCOCrWException")

(* A key as another program wrote it: readPublicKeyFromPEM() takes every   *)
(* type that OpenSSL knows.                                                *)
ReadForeignPublicKey ==
    /\ Len(keys) < MaxKeys
    /\ \/ \E k \in {Pkey("DSA", 0, "none", NewId, FALSE),
                    Pkey("EC", 0, "explicit", NewId, FALSE)} : AddKey(k)
       \/ Fails("OpenSSLException")

(* A caller makes a key like another: generate() with getKeySpec() *)
GenerateAlike(i) ==
    /\ Len(keys) < MaxKeys
    /\ \/ \E spec \in GetKeySpec(keys[i]) : Generate(spec)
       \/ GetKeySpec(keys[i]) = {} /\ Fails("MoCOCrWException")

(* toECPoint(): only for keys of type ECC on a named curve *)
ToECPoint(i, form) ==
    IF GetType(keys[i]) = "ECC" /\ GetKeySpec(keys[i]) # {}
    THEN /\ point' = <<[curve |-> keys[i].curve, id |-> keys[i].id, from |-> i,
                        form |-> form, length |-> PointLength(keys[i].curve, form)]>>
         /\ exception' = "none" /\ UNCHANGED <<keys, pem, lastRead>>
    ELSE Fails("MoCOCrWException")

(* fromECPoint(): a point is refused by OpenSSL on any curve but its own *)
FromECPoint(curve) ==
    /\ point # <<>> /\ Len(keys) < MaxKeys
    /\ IF curve \in EdCurves THEN Fails("MoCOCrWException")
       ELSE IF curve # point[1].curve THEN Fails("OpenSSLException")
       ELSE AddKey(Pkey("EC", 0, curve, point[1].id, FALSE))

(* privateKeyToPem(): whether a cipher is set *)
Cipher(pwd) == Len(pwd) > 0

(* The password is used with its full length *)
PrivateKeyToPem(i, pwd) ==
    /\ keys[i].private
    /\ pem' = <<[key |-> keys[i], encrypted |-> Cipher(pwd), password |-> pwd]>>
    /\ exception' = "none"
    /\ UNCHANGED <<keys, point, lastRead>>

(* What OpenSSL's default callback sees of a C string *)
CString(pwd) ==
    LET nuls == {i \in DOMAIN pwd : pwd[i] = 0}
        length == IF nuls = {} THEN Len(pwd)
                  ELSE (CHOOSE i \in nuls : \A j \in nuls : i <= j) - 1
    IN  SubSeq(pwd, 1, IF length > PemBufSize THEN PemBufSize ELSE length)

(* An empty password is no password to the callback of an encrypted key *)
Decrypts(p, pwd) ==
    p.encrypted => CString(pwd) # <<>> /\ CString(pwd) = p.password

(* readPrivateKeyFromPEM() *)
ReadPrivateKeyFromPEM(pwd) ==
    /\ pem # <<>> /\ Len(keys) < MaxKeys
    /\ lastRead' = <<[pem |-> pem[1], password |-> pwd, success |-> Decrypts(pem[1], pwd)]>>
    /\ UNCHANGED <<pem, point>>
    /\ IF Decrypts(pem[1], pwd)
       THEN keys' = Append(keys, pem[1].key) /\ exception' = "none"
       ELSE exception' = "OpenSSLException" /\ UNCHANGED keys

(* publicKeyToPem() and readPublicKeyFromPEM(): the private part is lost *)
CopyPublicKey(i) ==
    /\ Len(keys) < MaxKeys
    /\ AddKey([keys[i] EXCEPT !.private = FALSE])

Next ==
    \/ \E spec \in Specs : Generate(spec)
    \/ ReadForeignPublicKey
    \/ \E c \in Curves : FromECPoint(c)
    \/ \E pwd \in Passwords : ReadPrivateKeyFromPEM(pwd)
    \/ \E i \in DOMAIN keys :
        \/ GenerateAlike(i) \/ CopyPublicKey(i)
        \/ \E form \in Forms : ToECPoint(i, form)
        \/ \E pwd \in Passwords : PrivateKeyToPem(i, pwd)

Spec == Init /\ [][Next]_vars
-----------------------------------------------------------------------------
(* The types of the members; a key that can sign was generated, or read    *)
(* from a private PEM.                                                     *)
TypeOK ==
    /\ Len(keys) <= MaxKeys
    /\ \A i \in DOMAIN keys :
        /\ keys[i].id \in 1 .. MaxKeys
        /\ keys[i].curve \in Curves \union {"none", "explicit"}
    /\ exception \in {"none", "MoCOCrWException", "OpenSSLException"}
    /\ \A i \in DOMAIN pem : pem[i].encrypted = (pem[i].password # <<>>)

(* A supported key says what it was made from: generating with the         *)
(* specification of a key gives a key of the same type, on the same curve, *)
(* of the same size, whatever way the key came in.                         *)
SpecDescribesKey ==
    \A i \in DOMAIN keys :
        GetType(keys[i]) # "unknown" /\ keys[i].curve # "explicit" =>
            \E spec \in GetKeySpec(keys[i]) :
                [Generated(spec) EXCEPT !.id = keys[i].id, !.private = keys[i].private]
                    = keys[i]

(* A point has the length that getECOctetLength() announces, which those   *)
(* rely on who cut it out of a message (ECIES), for fields of any size.    *)
PointHasAnnouncedLength ==
    \A i \in DOMAIN point :
        point[i].length = GetECOctetLength(keys[point[i].from], point[i].form)

(* Passwords of characters other than NUL that fit OpenSSL's buffer *)
Plain(pwd) == CString(pwd) = pwd

(* A private key that was written with a plain password is read with that  *)
(* password and with no other; one without a password is read with any.    *)
PasswordOpens ==
    \A i \in DOMAIN lastRead :
        LET r == lastRead[i]
        IN  Plain(r.pem.password) /\ Plain(r.password) =>
                (r.success <=> (r.pem.password = <<>> \/ r.password = r.pem.password))
=============================================================================
