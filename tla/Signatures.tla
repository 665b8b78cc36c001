----------------------------- MODULE Signatures -----------------------------
(***************************************************************************)
(* The signature contexts of asymmetric_crypto_ctx.cpp: RSA (PKCS#1 v1.5   *)
(* and PSS, padding_mode.cpp), ECDSA in both formats, EdDSA.               *)
(*                                                                         *)
(* A context is a value that no call changes, so a copy of it is the same  *)
(* value.  The digest of a message is told by its hash function and the    *)
(* message; only its size is visible to the code.  What EVP_PKEY_sign()    *)
(* made last is kept in made: OpenSSL accepts nothing else.                *)
(***************************************************************************)
EXTENDS Integers, Sequences

CONSTANTS
    Keys, KeyType, Bits,    \* key -> type, bits of its modulus or order
    Messages,
    Digests, DigestSize,    \* the hash functions and their sizes in bytes
    NoDigest,               \* DigestTypes::NONE
    NoSalt, NoMgf,          \* the defaults of PSSPadding: boost::none, nullptr
    PssPaddings,            \* the PSSPaddings that occur
    Numbers,                \* bound: the r and s that ECDSA makes
    ByteBits, Radix,        \* bits of a byte, and the number of its values
    Order,                  \* key -> the order of its curve
    DigestInfo              \* what PKCS#1 adds to a digest, in bytes

SignatureAssumption ==
    /\ ByteBits \in Nat \ {0} /\ Radix \in Nat \ {0, 1} /\ DigestInfo \in Nat
    /\ Order \in [Keys -> Nat]
    /\ Bits \in [Keys -> Nat \ {0}]
    /\ KeyType \in [Keys -> {"RSA", "ECC", "ECC_ED"}]
    /\ DigestSize \in [Digests -> Nat] /\ NoDigest \notin Digests
    /\ NoSalt \notin Int /\ NoMgf \notin Digests \union {NoDigest}
    /\ PssPaddings \subseteq
          [mode : {"pss"}, mgf : Digests \union {NoDigest, NoMgf},
           salt : Int \union {NoSalt}]
    /\ Numbers \subseteq Nat \ {0}

VARIABLES
    privateCtx, publicCtx,  \* the contexts, or NoCtx
    made,                   \* key, digest and numbers of the last signature
    signature,              \* what the caller holds of it
    outcome                 \* how the last call ended

vars == <<privateCtx, publicCtx, made, signature, outcome>>

AnyDigest == Digests \union {NoDigest}
NoCtx == [alg |-> "none"]
NoSignature == [form |-> "none"]
Bytes == 0 .. Radix - 1

Digest(hash, message) == [md |-> hash, msg |-> message]
AllDigests == [md : Digests, msg : Messages]
-----------------------------------------------------------------------------
(* Constructors: the type of the key is checked, nothing else.             *)
RsaCtxs == [alg : {"RSA"}, key : {k \in Keys : KeyType[k] = "RSA"}, hash : AnyDigest,
            pad : [mode : {"pkcs"}] \union PssPaddings]

(* The formats of ECDSASignatureFormat in their order; the misspelt enum   *)
(* of old callers is converted by its number.                              *)
ECDSASignatureFormat == <<"ASN1_SEQUENCE_OF_INTS", "IEEE1363">>
ECSDASignatureFormat == <<"ASN1_SEQUENCE_OF_INTS", "IEEE1363">>

SDAtoDSASignatureFormat(format) ==
    ECDSASignatureFormat[CHOOSE i \in DOMAIN ECSDASignatureFormat :
                            ECSDASignatureFormat[i] = format]

EcdsaCtxs == [alg : {"ECDSA"}, key : {k \in Keys : KeyType[k] = "ECC"},
              hash : AnyDigest, format : {ECDSASignatureFormat[i] : i \in 1 .. 2}]

EddsaCtxs == [alg : {"EdDSA"}, key : {k \in Keys : KeyType[k] = "ECC_ED"}]

ConstructPrivate(ctx) ==
    /\ privateCtx = NoCtx
    /\ privateCtx' = ctx
    /\ outcome' = [op |-> "construct"]
    /\ UNCHANGED <<publicCtx, made, signature>>

ConstructPublic(ctx) ==
    /\ publicCtx = NoCtx
    /\ publicCtx' = ctx
    /\ outcome' = [op |-> "construct"]
    /\ UNCHANGED <<privateCtx, made, signature>>

(* The deprecated constructors of ECDSASignaturePublicKeyCtx *)
ConstructPublicOldEnum(key, hash, format) ==
    ConstructPublic([alg |-> "ECDSA", key |-> key, hash |-> hash,
                     format |-> SDAtoDSASignatureFormat(format)])
-----------------------------------------------------------------------------
(* createHash() knows every hash but NONE; getDigestSize() looks the hash  *)
(* up with map::at, and the size is all that is checked of a digest.       *)
CreateHashEnd(hash) == IF hash \in Digests THEN "ok" ELSE "unknown hash"

DigestCheckEnd(hash, digest) ==
    IF hash \notin Digests THEN "out of range"
    ELSE IF DigestSize[digest.md] # DigestSize[hash] THEN "digest size"
    ELSE "ok"

(* prepareOpenSSLContext() of the signature paddings *)
PrepareFindsDigests(ctx) ==
    ctx.pad.mode = "pss" => ctx.pad.mgf \in Digests \union {NoMgf}

PrepareOpenSSLContext(ctx) ==
    IF ctx.pad.mode = "pkcs" THEN [mode |-> "pkcs", md |-> ctx.hash]
    ELSE [mode |-> "pss", md |-> ctx.hash,
          salt |-> IF ctx.pad.salt = NoSalt THEN DigestSize[ctx.hash] ELSE ctx.pad.salt,
          mgf |-> IF ctx.pad.mgf = NoMgf THEN ctx.hash ELSE ctx.pad.mgf]

(* OpenSSL: salt lengths -1 (as the digest), -2 (when verifying: any) and  *)
(* -3 (as large as possible)                                               *)
MaxSalt(key, md) == (Bits[key] - 1 + ByteBits - 1) \div ByteBits - DigestSize[md] - 2

ActualSalt(key, config) ==
    CASE config.salt = -1 -> DigestSize[config.md]
      [] config.salt \in {-2, -3} -> MaxSalt(key, config.md)
      [] OTHER -> config.salt

RsaCanSign(key, config) ==
    IF config.mode = "pkcs"
    THEN DigestSize[config.md] + DigestInfo
            <= (Bits[key] + ByteBits - 1) \div ByteBits
    ELSE ActualSalt(key, config) \in 0 .. MaxSalt(key, config.md)

SaltAccepted(key, config, salt) == config.salt = -2 \/ salt = ActualSalt(key, config)
-----------------------------------------------------------------------------
(* Numbers and big-endian bytes: BN_bn2binpad() fails if the number does   *)
(* not fit, BN_bin2bn() takes any bytes.                                   *)
KeySizeBytes(key) == (Bits[key] + ByteBits - 1) \div ByteBits

(* What is left of a number without its last 0, 1, ... bytes *)
Leading(n, length) ==
    LET cut[j \in 0 .. length] == IF j = 0 THEN n ELSE cut[j - 1] \div Radix
    IN  cut

FitsBytes(n, length) == Leading(n, length)[length] = 0

BN_bn2binpad(n, length) == [i \in 1 .. length |-> Leading(n, length)[length - i] % Radix]

BN_bin2bn(bytes) ==
    LET upTo[i \in 0 .. Len(bytes)] ==
            IF i = 0 THEN 0 ELSE upTo[i - 1] * Radix + bytes[i]
    IN  upTo[Len(bytes)]

(* The sizes agree: a byte has ByteBits bits, and an order as many as its  *)
(* key, so that it fits the bytes of the key.                              *)
SizesAgree == Radix = 2 ^ ByteBits /\ \A key \in Keys : Order[key] < 2 ^ Bits[key]

OrdersFit ==
    \A key \in Keys : KeyType[key] = "ECC" => FitsBytes(Order[key], KeySizeBytes(key))

(* mutation: the numbers are written without leading zeros *)
IEEE1363WithoutPadding(r, s, length) ==
    LET Stripped(n) == BN_bn2binpad(n, CHOOSE k \in 1 .. length :
                            FitsBytes(n, k) /\ \A j \in 1 .. k - 1 : ~FitsBytes(n, j))
    IN  Stripped(r) \o Stripped(s)

(* _Asn1ECSignatureToIEEE1363EcSignature() *)
IEEE1363(r, s, length) == BN_bn2binpad(r, length) \o BN_bn2binpad(s, length)

(* _IEEE1363EcSignatureToAsn1ECSignature() of bytes of the right size *)
FromIEEE1363(bytes, length) ==
    [form |-> "asn1", r |-> BN_bin2bn(SubSeq(bytes, 1, length)),
     s |-> BN_bin2bn(SubSeq(bytes, length + 1, 2 * length))]

(* What the caller receives of the numbers that EVP_PKEY_sign() made *)
EcdsaSignature(ctx, r, s) ==
    IF ctx.format = "IEEE1363"
    THEN [form |-> "bytes", bytes |-> IEEE1363(r, s, KeySizeBytes(ctx.key))]
    ELSE [form |-> "asn1", r |-> r, s |-> s]
-----------------------------------------------------------------------------
Signed(record, sig) ==
    /\ made' = record /\ signature' = sig
    /\ outcome' = [op |-> "sign", end |-> "ok"]

SignFails(end) ==
    /\ outcome' = [op |-> "sign", end |-> end]
    /\ UNCHANGED <<made, signature>>

RsaSignEnd(ctx, digest) ==
    IF DigestCheckEnd(ctx.hash, digest) # "ok" THEN DigestCheckEnd(ctx.hash, digest)
    ELSE IF ~PrepareFindsDigests(ctx) THEN "no digest"
    ELSE IF RsaCanSign(ctx.key, PrepareOpenSSLContext(ctx)) THEN "ok"
    ELSE "OpenSSL"

RsaSignature(ctx, digest) ==
    [form |-> "rsa", key |-> ctx.key, digest |-> digest,
     config |-> PrepareOpenSSLContext(ctx)]

RsaSignDigest(digest) ==
    /\ privateCtx.alg = "RSA"
    /\ IF RsaSignEnd(privateCtx, digest) = "ok"
       THEN Signed(RsaSignature(privateCtx, digest), RsaSignature(privateCtx, digest))
       ELSE SignFails(RsaSignEnd(privateCtx, digest))
    /\ UNCHANGED <<privateCtx, publicCtx>>

EcdsaSignDigest(digest) ==
    /\ privateCtx.alg = "ECDSA"
    /\ LET ctx == privateCtx
       IN  IF DigestCheckEnd(ctx.hash, digest) # "ok"
           THEN SignFails(DigestCheckEnd(ctx.hash, digest))
           ELSE \E r, s \in {n \in Numbers : n < Order[ctx.key]} :
                    Signed([form |-> "ecdsa", key |-> ctx.key, digest |-> digest,
                            r |-> r, s |-> s],
                           EcdsaSignature(ctx, r, s))
    /\ UNCHANGED <<privateCtx, publicCtx>>

(* signMessage() of RSA and ECDSA hashes, and goes on as signDigest() *)
SignMessage(message) ==
    /\ privateCtx.alg \in {"RSA", "ECDSA"}
    /\ \/ /\ CreateHashEnd(privateCtx.hash) # "ok"
          /\ SignFails("unknown hash") /\ UNCHANGED <<privateCtx, publicCtx>>
       \/ /\ CreateHashEnd(privateCtx.hash) = "ok"
          /\ \/ RsaSignDigest(Digest(privateCtx.hash, message))
             \/ EcdsaSignDigest(Digest(privateCtx.hash, message))

(* EdDSA signs the message itself *)
EddsaSignMessage(message) ==
    /\ privateCtx.alg = "EdDSA"
    /\ LET ed == [form |-> "ed", key |-> privateCtx.key, digest |-> message]
       IN  Signed(ed, ed)
    /\ UNCHANGED <<privateCtx, publicCtx>>
-----------------------------------------------------------------------------
(* What a caller may present: the signature, or something else *)
Presented ==
    {signature} \union
    (CASE signature.form = "bytes" ->
            LET b == signature.bytes
                half == Len(b) \div 2
            IN  {[form |-> "bytes", bytes |-> SubSeq(b, half + 1, Len(b)) \o SubSeq(b, 1, half)],
                 [form |-> "bytes", bytes |-> Tail(b)], [form |-> "bytes", bytes |-> <<0>> \o b],
                 [form |-> "bytes", bytes |-> [b EXCEPT ![1] = 0]]}
       [] signature.form = "asn1" ->
            {[signature EXCEPT !.r = 0], [signature EXCEPT !.s = Order[made.key] - @],
             [signature EXCEPT !.r = @ + 1]}
       [] OTHER -> {})

(* EVP_PKEY_verify(): for ECDSA the negative of s is as good as s *)
EcdsaValid(key, sig, digest) ==
    /\ sig.form = "asn1" /\ made.form = "ecdsa"
    /\ made.key = key /\ made.digest = digest /\ made.r = sig.r
    /\ sig.s \in {made.s, Order[key] - made.s}

RsaValid(key, config, sig, digest) ==
    /\ sig.form = "rsa" /\ sig = made /\ sig.key = key /\ sig.digest = digest
    /\ sig.config.mode = config.mode /\ sig.config.md = config.md
    /\ config.mode = "pss" =>
          /\ sig.config.mgf = config.mgf
          /\ SaltAccepted(key, config, ActualSalt(key, sig.config))

RsaVerifyEnd(ctx, sig, digest) ==
    IF DigestCheckEnd(ctx.hash, digest) # "ok" THEN DigestCheckEnd(ctx.hash, digest)
    ELSE IF ~PrepareFindsDigests(ctx) THEN "no digest"
    ELSE IF RsaValid(ctx.key, PrepareOpenSSLContext(ctx), sig, digest) THEN "ok"
    ELSE "rejected"

(* _verifyAsn1() *)
VerifyAsn1End(ctx, sig, digest) ==
    IF DigestCheckEnd(ctx.hash, digest) # "ok" THEN DigestCheckEnd(ctx.hash, digest)
    ELSE IF EcdsaValid(ctx.key, sig, digest) THEN "ok" ELSE "rejected"

(* verifyDigest(): raw bytes are converted before the digest is looked at *)
EcdsaVerifyEnd(ctx, sig, digest) ==
    IF ctx.format = "IEEE1363"
    THEN IF sig.form # "bytes" \/ Len(sig.bytes) # 2 * KeySizeBytes(ctx.key)
         THEN "signature size"
         ELSE VerifyAsn1End(ctx, FromIEEE1363(sig.bytes, KeySizeBytes(ctx.key)), digest)
    ELSE VerifyAsn1End(ctx, sig, digest)

VerifyDigest(sig, digest) ==
    /\ publicCtx.alg \in {"RSA", "ECDSA"} /\ signature # NoSignature
    /\ outcome' = [op |-> "verify", sig |-> sig, digest |-> digest,
                   end |-> IF publicCtx.alg = "RSA"
                           THEN RsaVerifyEnd(publicCtx, sig, digest)
                           ELSE EcdsaVerifyEnd(publicCtx, sig, digest)]
    /\ UNCHANGED <<privateCtx, publicCtx, made, signature>>

VerifyMessage(sig, message) ==
    /\ publicCtx.alg \in {"RSA", "ECDSA"} /\ signature # NoSignature
    /\ \/ /\ CreateHashEnd(publicCtx.hash) # "ok"
          /\ outcome' = [op |-> "verify", sig |-> sig, end |-> "unknown hash",
                         digest |-> Digest(publicCtx.hash, message)]
          /\ UNCHANGED <<privateCtx, publicCtx, made, signature>>
       \/ /\ CreateHashEnd(publicCtx.hash) = "ok"
          /\ VerifyDigest(sig, Digest(publicCtx.hash, message))

EddsaVerifyMessage(sig, message) ==
    /\ publicCtx.alg = "EdDSA" /\ signature # NoSignature
    /\ outcome' = [op |-> "verify", sig |-> sig, digest |-> message,
                   end |-> IF sig = made /\ sig.form = "ed" /\ sig.key = publicCtx.key
                                /\ sig.digest = message
                           THEN "ok" ELSE "rejected"]
    /\ UNCHANGED <<privateCtx, publicCtx, made, signature>>
-----------------------------------------------------------------------------
Init ==
    /\ privateCtx = NoCtx /\ publicCtx = NoCtx
    /\ made = NoSignature /\ signature = NoSignature
    /\ outcome = [op |-> "start"]

Contexts == RsaCtxs \union EcdsaCtxs \union EddsaCtxs

Next ==
    \/ \E ctx \in Contexts : ConstructPrivate(ctx) \/ ConstructPublic(ctx)
    \/ \E key \in Keys, hash \in AnyDigest, i \in 1 .. 2 :
            /\ KeyType[key] = "ECC"
            /\ ConstructPublicOldEnum(key, hash, ECSDASignatureFormat[i])
    \/ \E digest \in AllDigests : RsaSignDigest(digest) \/ EcdsaSignDigest(digest)
    \/ \E message \in Messages : SignMessage(message) \/ EddsaSignMessage(message)
    \/ \E sig \in Presented, digest \in AllDigests : VerifyDigest(sig, digest)
    \/ \E sig \in Presented, message \in Messages :
            VerifyMessage(sig, message) \/ EddsaVerifyMessage(sig, message)

Spec == Init /\ [][Next]_vars
-----------------------------------------------------------------------------
(* Contexts hold keys of their algorithm; a signature has the form of the  *)
(* context that made it.                                                   *)
TypeOK ==
    /\ privateCtx \in Contexts \union {NoCtx}
    /\ publicCtx \in Contexts \union {NoCtx}
    /\ made.form \in {"none", "rsa", "ecdsa", "ed"}
    /\ signature.form \in {"none", "rsa", "asn1", "bytes", "ed"}
    /\ signature.form = "bytes" => signature.bytes \in Seq(Bytes)

Verified == outcome.op = "verify" /\ outcome.end = "ok"

(* A signature that verifies was made by the private key of the verifying  *)
(* context, for the digest that was given, and in its own format.          *)
AcceptedWasSigned ==
    Verified =>
        /\ made # NoSignature /\ made.key = publicCtx.key
        /\ made.digest = outcome.digest
        /\ publicCtx.alg = "RSA" => made.config.md = publicCtx.hash
        /\ publicCtx.alg = "ECDSA" =>
              /\ DigestSize[made.digest.md] = DigestSize[publicCtx.hash]
              /\ outcome.sig.form = "bytes" <=> publicCtx.format = "IEEE1363"

(* The mask generation function and the salt length a PSS context means *)
MeansMgf(ctx) == IF ctx.pad.mgf = NoMgf THEN ctx.hash ELSE ctx.pad.mgf
MeansSalt(ctx) ==
    LET salt == IF ctx.pad.salt = NoSalt THEN -1 ELSE ctx.pad.salt
    IN  CASE salt = -1          -> DigestSize[ctx.hash]
          [] salt \in {-2, -3}  -> MaxSalt(ctx.key, ctx.hash)
          [] OTHER              -> salt

(* The public context is configured as the private one *)
Matching ==
    /\ publicCtx.alg = privateCtx.alg /\ publicCtx.key = privateCtx.key
    /\ publicCtx.alg # "EdDSA" => publicCtx.hash = privateCtx.hash
    /\ publicCtx.alg = "ECDSA" => publicCtx.format = privateCtx.format
    /\ publicCtx.alg = "RSA" =>
          /\ publicCtx.pad.mode = privateCtx.pad.mode
          /\ publicCtx.pad.mode = "pss" =>
                /\ MeansMgf(publicCtx) = MeansMgf(privateCtx)
                /\ \/ publicCtx.pad.salt = -2
                   \/ MeansSalt(publicCtx) = MeansSalt(privateCtx)

(* What a private context signed, a public context configured alike        *)
(* accepts for the same digest: an omitted parameter of PSS is worth its   *)
(* documented default on both sides, and raw ECDSA signatures survive the  *)
(* conversions whatever the size of their numbers.                         *)
OwnSignatureAccepted ==
    /\ outcome.op = "verify" /\ outcome.sig = signature
    /\ outcome.digest = made.digest /\ Matching
    => outcome.end = "ok"

(* A raw ECDSA signature has twice the length of the key, and each half of *)
(* it is the number that was made.                                         *)
RawSignatureIsPadded ==
    signature.form = "bytes" =>
        LET k == CHOOSE n \in 1 .. Bits[made.key] :
                    /\ ByteBits * n >= Bits[made.key]
                    /\ ByteBits * (n - 1) < Bits[made.key]
        IN  /\ Len(signature.bytes) = 2 * k
            /\ BN_bin2bn(SubSeq(signature.bytes, 1, k)) = made.r
            /\ BN_bin2bn(SubSeq(signature.bytes, k + 1, 2 * k)) = made.s
=============================================================================
