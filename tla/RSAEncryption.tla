--------------------------- MODULE RSAEncryption ---------------------------
(***************************************************************************)
(* RSAEncryptionPublicKeyCtx and RSAEncryptionPrivateKeyCtx                *)
(* (asymmetric_crypto_ctx.cpp) with the encryption paddings                *)
(* (padding_mode.cpp).                                                     *)
(*                                                                         *)
(* A context keeps a shared pointer to its padding: the padding objects    *)
(* are state of their own, which an assignment to an OAEPPadding changes   *)
(* under every context that shares it.  A message is known by its size,    *)
(* a ciphertext by what OpenSSL was configured with.                       *)
(***************************************************************************)
EXTENDS Integers

CONSTANTS
    Keys,           \* key pairs
    KeyType, Bits,  \* key -> its type, the size of its modulus
    Digests,        \* the DigestTypes with an EVP_MD
    DigestSize,
    NoDigest,       \* DigestTypes::NONE
    Labels, NoLabel,
    Objects,        \* the padding objects of the caller
    InitialPadding, \* object -> its value at the start
    Assigned,       \* the OAEPPaddings that are assigned to objects
    Slots,          \* the variables that hold contexts
    Sizes,          \* message sizes that occur
    IntMax,         \* std::numeric_limits<int>::max()
    SizeMod         \* the number of values of size_t

ASSUME RSAAssumption ==
    /\ IntMax \in Nat /\ SizeMod \in Nat /\ 8 * IntMax < SizeMod
    /\ Bits \in [Keys -> 1 .. IntMax]
    /\ KeyType \in [Keys -> {"RSA", "ECC", "ECC_ED"}]
    /\ DigestSize \in [Digests -> Nat]
    /\ NoDigest \notin Digests /\ NoLabel \in Labels
    /\ Sizes \subseteq 0 .. SizeMod - 1

AnyDigest == Digests \union {NoDigest}

NoPaddings == [mode : {"none"}]
PkcsPaddings == [mode : {"pkcs"}]
OaepPaddings == [mode : {"oaep"}, md : AnyDigest, mgf : AnyDigest, label : Labels]
Paddings == NoPaddings \union PkcsPaddings \union OaepPaddings

ASSUME PaddingAssumption ==
    InitialPadding \in [Objects -> Paddings] /\ Assigned \subseteq OaepPaddings

(* OAEPPadding(hash, mgf, label): the mask generation function is MGF1     *)
(* with the same hash unless one is given ({} or a set of one)             *)
OAEPPadding(hash, givenMgf, label) ==
    [mode |-> "oaep", md |-> hash, label |-> label,
     mgf |-> IF givenMgf = {} THEN hash ELSE CHOOSE m \in givenMgf : TRUE]

VARIABLES
    padding,        \* object -> its current value
    ctx,            \* slot -> a context of either kind, or NoCtx
    ciphertext,     \* the last one: key, configuration, message
    outcome         \* of the last call: how it ended, and its arguments

vars == <<padding, ctx, ciphertext, outcome>>

NoCtx == [kind |-> "none"]
NoCiphertext == [config |-> "none"]
Done(op) == [op |-> op, end |-> "ok"]

PKCS_MAX_SIZE_OVERHEAD == 11
-----------------------------------------------------------------------------
(* checkMessageSize() of the three paddings for a key and a size_t.        *)
NoPaddingFits(bits, size) == (size * 8) % SizeMod = bits

PKCSPaddingFits(bits, size) ==
    LET remainingSize == bits - PKCS_MAX_SIZE_OVERHEAD * 8
    IN  remainingSize > 0 /\ (size * 8) % SizeMod <= remainingSize

(* mutation: the hash is counted in bits *)
OAEPPaddingFitsBits(bits, hashSize, size) ==
    LET remainingSize == bits - (2 * hashSize * 8) * 8 - 2 * 8
    IN  remainingSize > 0 /\ (size * 8) % SizeMod <= remainingSize

OAEPPaddingFits(bits, hashSize, size) ==
    LET remainingSize == bits - (2 * hashSize) * 8 - 2 * 8
    IN  remainingSize > 0 /\ (size * 8) % SizeMod <= remainingSize

(* A padding whose hash is NONE throws std::runtime_error instead *)
CheckMessageSize(pad, bits, size) ==
    CASE pad.mode = "none" -> NoPaddingFits(bits, size)
      [] pad.mode = "pkcs" -> PKCSPaddingFits(bits, size)
      [] pad.mode = "oaep" -> OAEPPaddingFits(bits, DigestSize[pad.md], size)

(* _getMDPtrFromDigestType() finds all digests that the padding names *)
CheckFindsDigest(pad) == pad.mode = "oaep" => pad.md \in Digests
PrepareFindsDigests(pad) == pad.mode = "oaep" => {pad.md, pad.mgf} \subseteq Digests

(* mutation: the label is not handed to OpenSSL *)
PrepareWithoutLabel(pad) ==
    IF pad.mode = "oaep" THEN [pad EXCEPT !.label = NoLabel] ELSE pad

(* prepareOpenSSLContext(): what the EVP_PKEY_CTX is configured with; an   *)
(* empty label stays the default of OpenSSL.                               *)
PrepareOpenSSLContext(pad) ==
    IF pad.mode = "oaep"
    THEN [mode |-> "oaep", md |-> pad.md, mgf |-> pad.mgf, label |-> pad.label]
    ELSE [mode |-> pad.mode]

(* OpenSSL: the sizes RSA encryption takes *)
ModulusBytes(bits) == (bits + 7) \div 8

OpenSSLTakes(pad, bits, size) ==
    CASE pad.mode = "none" -> size = ModulusBytes(bits)
      [] pad.mode = "pkcs" -> size + PKCS_MAX_SIZE_OVERHEAD <= ModulusBytes(bits)
      [] pad.mode = "oaep" -> size + 2 * DigestSize[pad.md] + 2 <= ModulusBytes(bits)
-----------------------------------------------------------------------------
Init ==
    /\ padding = InitialPadding
    /\ ctx = [s \in Slots |-> NoCtx]
    /\ ciphertext = NoCiphertext
    /\ outcome = Done("start")

(* RSAImpl: the constructors throw for a key of another type *)
Construct(slot, kind, key, object) ==
    /\ ctx[slot] = NoCtx
    /\ KeyType[key] = "RSA"
    /\ ctx' = [ctx EXCEPT ![slot] = [kind |-> kind, key |-> key, padding |-> object]]
    /\ outcome' = Done("construct")
    /\ UNCHANGED <<padding, ciphertext>>

ConstructPublic(slot, key, object) == Construct(slot, "public", key, object)
ConstructPrivate(slot, key, object) == Construct(slot, "private", key, object)

(* Copy construction and copy assignment: the key and the pointer *)
Copy(to, from, kind) ==
    /\ ctx[from].kind = kind /\ ctx[to].kind \in {kind, "none"} /\ to # from
    /\ ctx' = [ctx EXCEPT ![to] = ctx[from]]
    /\ outcome' = Done("copy")
    /\ UNCHANGED <<padding, ciphertext>>

CopyPublic(to, from) == Copy(to, from, "public")
CopyPrivate(to, from) == Copy(to, from, "private")

Destroy(slot) ==
    /\ ctx[slot] # NoCtx
    /\ ctx' = [ctx EXCEPT ![slot] = NoCtx]
    /\ outcome' = Done("destroy")
    /\ UNCHANGED <<padding, ciphertext>>

(* OAEPPadding::operator=, seen by all contexts that point to the object *)
AssignPadding(object, value) ==
    /\ padding[object].mode = "oaep"
    /\ padding' = [padding EXCEPT ![object] = value]
    /\ outcome' = Done("assign")
    /\ UNCHANGED <<ctx, ciphertext>>

(* The first thing that stops encrypt(), in the order of the code *)
EncryptEnd(pad, bits, size) ==
    IF IntMax < size THEN "above INT_MAX"
    ELSE IF ~CheckFindsDigest(pad) THEN "digest"
    ELSE IF ~CheckMessageSize(pad, bits, size) THEN "size"
    ELSE IF ~PrepareFindsDigests(pad) THEN "digest"
    ELSE IF ~OpenSSLTakes(pad, bits, size) THEN "OpenSSL size"
    ELSE "ok"

(* OpenSSL may still fail for reasons of its own, for one a message that   *)
(* is as long as the modulus and larger.                                   *)
Encrypt(slot, size) ==
    /\ ctx[slot].kind = "public"
    /\ LET key == ctx[slot].key
           pad == padding[ctx[slot].padding]
           end == EncryptEnd(pad, Bits[key], size)
       IN  \E e \in {end} \union (IF end = "ok" THEN {"OpenSSL"} ELSE {}) :
             /\ outcome' = [op |-> "encrypt", end |-> e, pad |-> pad,
                            key |-> key, size |-> size]
             /\ ciphertext' = IF e # "ok" THEN ciphertext
                              ELSE [key |-> key, pad |-> pad,
                                    config |-> PrepareOpenSSLContext(pad)]
    /\ UNCHANGED <<padding, ctx>>

(* decrypt() of the last ciphertext.  OpenSSL undoes what was done with    *)
(* the same key and configuration.  Otherwise it fails, or returns other   *)
(* bytes: without padding nothing is checked, and with PKCS#1 a wrong      *)
(* padding may be answered by random bytes.                                *)
Decrypt(slot) ==
    /\ ctx[slot].kind = "private" /\ ciphertext # NoCiphertext
    /\ LET key == ctx[slot].key
           pad == padding[ctx[slot].padding]
           same == /\ key = ciphertext.key
                   /\ PrepareOpenSSLContext(pad) = ciphertext.config
           ends == IF ~PrepareFindsDigests(pad) THEN {"digest"}
                   ELSE IF same THEN {"ok", "OpenSSL"}
                   ELSE IF pad.mode = "oaep" THEN {"OpenSSL"}
                   ELSE {"garbage", "OpenSSL"}
       IN  \E e \in ends :
             outcome' = [op |-> "decrypt", end |-> e, pad |-> pad, key |-> key]
    /\ UNCHANGED <<padding, ctx, ciphertext>>

(* checkMessageSize() is public: a caller may ask before encrypting.  It   *)
(* looks at no context; the model asks while there is none.                *)
AskMessageSize(object, key, size) ==
    /\ \A s \in Slots : ctx[s] = NoCtx
    /\ KeyType[key] = "RSA"
    /\ CheckFindsDigest(padding[object])
    /\ outcome' = [op |-> "ask", key |-> key, pad |-> padding[object], size |-> size,
                   end |-> IF CheckMessageSize(padding[object], Bits[key], size)
                           THEN "ok" ELSE "size"]
    /\ UNCHANGED <<padding, ctx, ciphertext>>

Next ==
    \/ \E s \in Slots, k \in Keys, o \in Objects :
            ConstructPublic(s, k, o) \/ ConstructPrivate(s, k, o)
    \/ \E s, t \in Slots : CopyPublic(s, t) \/ CopyPrivate(s, t)
    \/ \E s \in Slots : Destroy(s)
    \/ \E o \in Objects, value \in Assigned : AssignPadding(o, value)
    \/ \E s \in Slots, n \in Sizes : Encrypt(s, n)
    \/ \E s \in Slots : Decrypt(s)
    \/ \E o \in Objects, k \in Keys, n \in Sizes : AskMessageSize(o, k, n)

Spec == Init /\ [][Next]_vars
-----------------------------------------------------------------------------
(* Contexts hold RSA keys and point to padding objects. *)
TypeOK ==
    /\ padding \in [Objects -> Paddings]
    /\ ctx \in [Slots -> {NoCtx} \union
                  [kind : {"public", "private"}, padding : Objects,
                   key : {k \in Keys : KeyType[k] = "RSA"}]]

(* A message that passes the checks of encrypt() is never refused by       *)
(* OpenSSL for its size: checkMessageSize() promises no more than RSA can  *)
(* do, for moduli of any number of bits.                                   *)
AcceptedSizesFit ==
    outcome.op = "encrypt" => outcome.end # "OpenSSL size"

(* And no less, when the modulus fills its bytes: what encrypt() refuses   *)
(* for its size does not fit, except that the empty message is refused     *)
(* where the padding leaves no room at all.                                *)
RefusedSizesDoNotFit ==
    /\ outcome.op = "encrypt" /\ outcome.end \in {"size", "above INT_MAX"}
    /\ CheckFindsDigest(outcome.pad)
    /\ Bits[outcome.key] % 8 = 0 /\ outcome.size > 0
    => ~OpenSSLTakes(outcome.pad, Bits[outcome.key], outcome.size)

(* decrypt() returns the message only with the key and the padding it was  *)
(* encrypted with (hash, mask generation and label), as the padding object *)
(* is at the time of the call, and never fails with them because of an     *)
(* unknown digest.                                                         *)
DecryptInvertsEncrypt ==
    outcome.op = "decrypt" =>
        LET same == outcome.key = ciphertext.key /\ outcome.pad = ciphertext.pad
        IN  /\ outcome.end = "ok" => same
            /\ same => outcome.end \in {"ok", "OpenSSL"}

(* encrypt() passes on to OpenSSL what fits the key and the padding, and   *)
(* refuses by itself only what does not, with contexts that hold RSA keys. *)
SizeCheckIsExact ==
    /\ TypeOK
    /\ AcceptedSizesFit /\ RefusedSizesDoNotFit
=============================================================================
