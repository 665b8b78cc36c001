---------------------------- MODULE MCAsymmetric ----------------------------
(***************************************************************************)
(* Model checking of asymmetric keys and what they are used for.  A        *)
(* behaviour exercises one part, the others keep their initial state:      *)
(* RSAEncryption, Signatures and AsymmetricKey.  Their constants get their *)
(* values in the cfg.                                                      *)
(***************************************************************************)
EXTENDS RSAEncryption, TLC

CONSTANTS
    k88, k1040, k1041, ec, short, long, none, noLabel, label,   \* RSAEncryption
    rsaKey, ecKey1, ecKey2, edKey, sha, sha3, noDigest, noSalt, noMgf,   \* Signatures
    SignKeys, SignKeyType, SignBits, SignDigests, SignDigestSize,
    Messages, PssPaddings, Numbers, ByteBits, Radix, Order, DigestInfo,
    RSASizes, Curves, Passwords, PemBufSize, MaxKeys            \* AsymmetricKey

VARIABLES
    part,           \* the component this behaviour exercises
    sPrivateCtx, sPublicCtx, sMade, sSignature, sOutcome,
    aKeys, aPem, aPoint, aException, aLastRead

signatureVars == <<sPrivateCtx, sPublicCtx, sMade, sSignature, sOutcome>>
keyVars == <<aKeys, aPem, aPoint, aException, aLastRead>>
mcvars == <<part, vars, signatureVars, keyVars>>

(* Key sizes around the limits of the paddings: 88 bits leave PKCS#1 no    *)
(* room, 1040 bits leave none for OAEP with the long hash, 1041 does not   *)
(* fill its last byte.  int and size_t are narrowed in step (15, 20 bits). *)
MCKeys == {k88, k1040, k1041, ec}
MCKeyType == k88 :> "RSA" @@ k1040 :> "RSA" @@ k1041 :> "RSA" @@ ec :> "ECC"
MCBits == k88 :> 88 @@ k1040 :> 1040 @@ k1041 :> 1041 @@ ec :> 256
MCDigestSize == short :> 20 @@ long :> 64
MCObjects == {"raw", "v15", "oaep"}
MCInitialPadding ==
    "raw" :> [mode |-> "none"] @@ "v15" :> [mode |-> "pkcs"]
    @@ "oaep" :> OAEPPadding(short, {}, noLabel)
MCAssigned ==
    {OAEPPadding(short, {}, noLabel), OAEPPadding(short, {}, label),
     OAEPPadding(long, {}, noLabel), OAEPPadding(long, {short}, noLabel),
     OAEPPadding(none, {short}, label)}
MCSizes == {0, 1, 11, 88, 89, 119, 120, 130, 131, 32768, 131072, 131202}

(* Two of the three hashes have digests of one size.  A byte has two bits, *)
(* so that the three bits of the curve's order do not fill the second; the *)
(* RSA modulus has room for a PSS salt as long as the shorter digest only. *)
MCSignKeyType ==
    rsaKey :> "RSA" @@ ecKey1 :> "ECC" @@ ecKey2 :> "ECC" @@ edKey :> "ECC_ED"
MCSignBits == rsaKey :> 12 @@ ecKey1 :> 3 @@ ecKey2 :> 2 @@ edKey :> 3
MCOrder == [k \in SignKeys |-> 2 ^ SignBits[k] - 1]
MCSignDigestSize == sha :> 2 @@ sha3 :> 2 @@ long :> 3
Pss(mgf, salt) == [mode |-> "pss", mgf |-> mgf, salt |-> salt]
MCPssPaddings ==
    {Pss(noMgf, noSalt), Pss(sha, noSalt), Pss(sha, -1), Pss(noMgf, -2),
     Pss(noMgf, -3), Pss(long, 0), Pss(noMgf, 2), Pss(noDigest, noSalt)}

Signing == INSTANCE Signatures WITH
    Keys <- SignKeys, KeyType <- SignKeyType, Bits <- SignBits,
    Digests <- SignDigests, DigestSize <- SignDigestSize, NoDigest <- noDigest,
    NoSalt <- noSalt, NoMgf <- noMgf,
    privateCtx <- sPrivateCtx, publicCtx <- sPublicCtx, made <- sMade,
    signature <- sSignature, outcome <- sOutcome

(* A password with a NUL inside and one that is longer than the buffer. *)
MCPasswords == {<<>>, <<1>>, <<2>>, <<1, 0, 2>>, <<1, 1, 1, 1>>}

KeyObjects == INSTANCE AsymmetricKey WITH
    Bits <- RSASizes,
    keys <- aKeys, pem <- aPem, point <- aPoint, exception <- aException,
    lastRead <- aLastRead

ASSUME AsymmetricAssumption ==
    /\ Signing!SignatureAssumption /\ Signing!OrdersFit
    /\ KeyObjects!KeyAssumption

ASSUME ByteAssumption == Signing!SizesAgree

MCInit ==
    /\ part \in {"encryption", "signatures", "keys"}
    /\ Init /\ Signing!Init /\ KeyObjects!Init

MCNext ==
    \/ part = "encryption" /\ Next /\ UNCHANGED <<part, signatureVars, keyVars>>
    \/ part = "signatures" /\ Signing!Next /\ UNCHANGED <<part, vars, keyVars>>
    \/ part = "keys" /\ KeyObjects!Next /\ UNCHANGED <<part, vars, signatureVars>>

MCSpec == MCInit /\ [][MCNext]_mcvars
-----------------------------------------------------------------------------
(* A signature that verifies was made by the private key of the verifying  *)
(* context, for the digest that was given, and in its own format; what a   *)
(* private context signed, a public context configured alike accepts for   *)
(* the same digest; and raw ECDSA signatures keep the leading zeros of     *)
(* their numbers.                                                          *)
SignaturesAreSound ==
    /\ Signing!TypeOK
    /\ Signing!AcceptedWasSigned
    /\ Signing!OwnSignatureAccepted
    /\ Signing!RawSignatureIsPadded

(* Generating with the specification of a key gives a key of the same kind *)
(* whatever way the key came in, a point has the length getECOctetLength() *)
(* announces, and a private key that was written with a password (without  *)
(* NUL, and short enough for OpenSSL's buffer) is read with it and with no *)
(* other.                                                                  *)
KeysKeepTheirMeaning ==
    /\ KeyObjects!TypeOK
    /\ KeyObjects!SpecDescribesKey
    /\ KeyObjects!PointHasAnnouncedLength
    /\ KeyObjects!PasswordOpens
=============================================================================
