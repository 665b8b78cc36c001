------------------------- MODULE AsymmetricProofs --------------------------
(***************************************************************************)
(* Asymmetric keys and what they are used for.  The size checks of the RSA *)
(* paddings agree with RSA for every key size, digest and message, as long *)
(* as eight times INT_MAX fits a size_t; signatures are accepted by the    *)
(* contexts configured alike, for every size of keys, bytes and orders;    *)
(* and key objects keep their meaning for every set of sizes, curves and   *)
(* passwords.                                                              *)
(***************************************************************************)
EXTENDS MCAsymmetric, SequenceTheorems, WellFoundedInduction, TLAPS

(* The modulus has as many bytes as its bits need. *)
LEMMA ModulusLemma ==
    ASSUME NEW bits \in Nat
    PROVE  /\ ModulusBytes(bits) \in Nat
           /\ bits <= 8 * ModulusBytes(bits)
           /\ bits % 8 = 0 => bits = 8 * ModulusBytes(bits)
BY DEF ModulusBytes

(* The product of checkMessageSize() does not wrap below INT_MAX. *)
LEMMA NoWrap ==
    ASSUME NEW size \in 0 .. IntMax
    PROVE  (size * 8) % SizeMod = 8 * size
  <1>1. IntMax \in Nat /\ SizeMod \in Nat /\ 8 * IntMax < SizeMod
    BY RSAAssumption
  <1>2. \A n, m \in Nat : n < m => n % m = n
    OBVIOUS
  <1>3. size * 8 \in Nat /\ size * 8 < SizeMod /\ size * 8 = 8 * size
    BY <1>1
  <1> QED
    BY <1>1, <1>2, <1>3

(* What the check accepts, RSA can do. *)
LEMMA CheckIsSound ==
    ASSUME NEW pad \in Paddings, NEW key \in Keys, NEW size \in 0 .. IntMax,
           CheckFindsDigest(pad), CheckMessageSize(pad, Bits[key], size)
    PROVE  OpenSSLTakes(pad, Bits[key], size)
  <1> DEFINE bits == Bits[key]
             k == ModulusBytes(bits)
  <1>1. bits \in Nat /\ size \in Nat
    BY RSAAssumption
  <1>2. k \in Nat /\ bits <= 8 * k /\ (bits % 8 = 0 => bits = 8 * k)
    BY <1>1, ModulusLemma
  <1>3. (size * 8) % SizeMod = 8 * size
    BY NoWrap
  <1>4. CASE pad.mode = "none"
    <2>1. bits = 8 * size
      BY <1>3, <1>4 DEF CheckMessageSize, NoPaddingFits
    <2>2. bits % 8 = 0
      BY <1>1, <2>1
    <2>3. size = k
      BY <1>1, <1>2, <2>1, <2>2
    <2> QED
      BY <1>4, <2>3 DEF OpenSSLTakes
  <1>5. CASE pad.mode = "pkcs"
    <2>1. 8 * size <= bits - 11 * 8
      BY <1>3, <1>5 DEF CheckMessageSize, PKCSPaddingFits, PKCS_MAX_SIZE_OVERHEAD
    <2>2. size + 11 <= k
      <3> HIDE DEF bits, k
      <3> QED
        BY <1>1, <1>2, <2>1
    <2> QED
      BY <1>5, <2>2 DEF OpenSSLTakes, PKCS_MAX_SIZE_OVERHEAD
  <1>6. CASE pad.mode = "oaep"
    <2> DEFINE h == DigestSize[pad.md]
    <2>1. h \in Nat
      BY <1>6, RSAAssumption DEF CheckFindsDigest
    <2>2. 8 * size <= bits - (2 * h) * 8 - 2 * 8
      BY <1>3, <1>6 DEF CheckMessageSize, OAEPPaddingFits
    <2>3. size + 2 * h + 2 <= k
      <3> HIDE DEF bits, k, h
      <3> QED
        BY <1>1, <1>2, <2>1, <2>2
    <2> QED
      BY <1>6, <2>3 DEF OpenSSLTakes
  <1> QED
    BY <1>4, <1>5, <1>6 DEF Paddings, NoPaddings, PkcsPaddings, OaepPaddings

(* What the check refuses does not fit a modulus that fills its bytes,     *)
(* unless it is the empty message.                                         *)
LEMMA CheckIsComplete ==
    ASSUME NEW pad \in Paddings, NEW key \in Keys, NEW size \in 1 .. IntMax,
           CheckFindsDigest(pad), ~CheckMessageSize(pad, Bits[key], size),
           Bits[key] % 8 = 0
    PROVE  ~OpenSSLTakes(pad, Bits[key], size)
  <1> DEFINE bits == Bits[key]
             k == ModulusBytes(bits)
  <1>1. bits \in Nat /\ size \in Nat /\ size > 0 /\ size \in 0 .. IntMax
    BY RSAAssumption
  <1>2. k \in Nat /\ bits = 8 * k
    BY <1>1, ModulusLemma
  <1>3. (size * 8) % SizeMod = 8 * size
    BY <1>1, NoWrap
  <1>4. CASE pad.mode = "none"
    <2>1. bits # 8 * size
      BY <1>3, <1>4 DEF CheckMessageSize, NoPaddingFits
    <2>2. size # k
      BY <1>2, <2>1
    <2> QED
      BY <1>4, <2>2 DEF OpenSSLTakes
  <1>5. CASE pad.mode = "pkcs"
    <2>1. ~(bits - 11 * 8 > 0 /\ 8 * size <= bits - 11 * 8)
      BY <1>3, <1>5 DEF CheckMessageSize, PKCSPaddingFits, PKCS_MAX_SIZE_OVERHEAD
    <2>2. ~(size + 11 <= k)
      <3> HIDE DEF bits, k
      <3> QED
        BY <1>1, <1>2, <2>1
    <2> QED
      BY <1>5, <2>2 DEF OpenSSLTakes, PKCS_MAX_SIZE_OVERHEAD
  <1>6. CASE pad.mode = "oaep"
    <2> DEFINE h == DigestSize[pad.md]
    <2>1. h \in Nat
      BY <1>6, RSAAssumption DEF CheckFindsDigest
    <2>2. ~(bits - (2 * h) * 8 - 2 * 8 > 0 /\ 8 * size <= bits - (2 * h) * 8 - 2 * 8)
      BY <1>3, <1>6 DEF CheckMessageSize, OAEPPaddingFits
    <2>3. ~(size + 2 * h + 2 <= k)
      <3> HIDE DEF bits, k, h
      <3> QED
        BY <1>1, <1>2, <2>1, <2>2
    <2> QED
      BY <1>6, <2>3 DEF OpenSSLTakes
  <1> QED
    BY <1>4, <1>5, <1>6 DEF Paddings, NoPaddings, PkcsPaddings, OaepPaddings

(* A size above INT_MAX fits no key. *)
LEMMA AboveIntNeverFits ==
    ASSUME NEW pad \in Paddings, NEW key \in Keys, NEW size \in Nat,
           CheckFindsDigest(pad), IntMax < size, size > 0
    PROVE  ~OpenSSLTakes(pad, Bits[key], size)
  <1> DEFINE bits == Bits[key]
             k == ModulusBytes(bits)
  <1>1. bits \in Nat /\ bits >= 1 /\ bits <= IntMax /\ IntMax \in Nat
    BY RSAAssumption
  <1>2. k <= bits /\ k \in Nat
    BY <1>1 DEF ModulusBytes
  <1>3. pad.mode = "oaep" => DigestSize[pad.md] \in Nat
    BY RSAAssumption DEF CheckFindsDigest
  <1> HIDE DEF k, bits
  <1>4. size > k
    BY <1>1, <1>2
  <1>5. \A h \in Nat : ~(size + 2 * h + 2 <= k) /\ ~(size + 11 <= k) /\ size # k
    BY <1>1, <1>2, <1>4
  <1>6. CASE pad.mode = "none"
    BY <1>5, <1>6 DEF OpenSSLTakes, k, bits
  <1>7. CASE pad.mode = "pkcs"
    BY <1>5, <1>7 DEF OpenSSLTakes, PKCS_MAX_SIZE_OVERHEAD, k, bits
  <1>8. CASE pad.mode = "oaep"
    BY <1>3, <1>5, <1>8 DEF OpenSSLTakes, k, bits
  <1> QED
    BY <1>6, <1>7, <1>8 DEF Paddings, NoPaddings, PkcsPaddings, OaepPaddings

(* How encrypt() ends is consistent with what RSA can do. *)
LEMMA EncryptEndLemma ==
    ASSUME NEW pad \in Paddings, NEW key \in Keys, NEW size \in Nat
    PROVE  LET end == EncryptEnd(pad, Bits[key], size)
           IN  /\ end # "OpenSSL size"
               /\ /\ end \in {"size", "above INT_MAX"} /\ CheckFindsDigest(pad)
                  /\ Bits[key] % 8 = 0 /\ size > 0
                  => ~OpenSSLTakes(pad, Bits[key], size)
  <1>0. IntMax \in Nat
    BY RSAAssumption
  <1>1. CASE IntMax < size
    BY <1>1, AboveIntNeverFits DEF EncryptEnd
  <1>2. CASE ~(IntMax < size)
    <2>1. size \in 0 .. IntMax
      BY <1>0, <1>2
    <2>2. CASE ~CheckFindsDigest(pad)
      BY <1>2, <2>2 DEF EncryptEnd
    <2>3. CASE CheckFindsDigest(pad) /\ ~CheckMessageSize(pad, Bits[key], size)
      <3>1. EncryptEnd(pad, Bits[key], size) = "size"
        BY <1>2, <2>3 DEF EncryptEnd
      <3>2. size > 0 => size \in 1 .. IntMax
        BY <1>0, <2>1
      <3> QED
        BY <2>3, <3>1, <3>2, CheckIsComplete
    <2>4. CASE CheckFindsDigest(pad) /\ CheckMessageSize(pad, Bits[key], size)
      <3>1. OpenSSLTakes(pad, Bits[key], size)
        BY <2>1, <2>4, CheckIsSound
      <3> QED
        BY <1>2, <2>4, <3>1 DEF EncryptEnd
    <2> QED
      BY <2>2, <2>3, <2>4
  <1> QED
    BY <1>1, <1>2

(* Two paddings configure OpenSSL alike only if they are the same. *)
LEMMA ConfigurationTells ==
    ASSUME NEW p \in Paddings, NEW q \in Paddings,
           PrepareOpenSSLContext(p) = PrepareOpenSSLContext(q)
    PROVE  p = q
  <1> USE DEF Paddings, NoPaddings, PkcsPaddings, OaepPaddings, PrepareOpenSSLContext
  <1>1. PrepareOpenSSLContext(p).mode = p.mode /\ PrepareOpenSSLContext(q).mode = q.mode
    OBVIOUS
  <1>2. CASE p.mode # "oaep"
    BY <1>1, <1>2
  <1>3. CASE p.mode = "oaep"
    <2>1. q.mode = "oaep" /\ p \in OaepPaddings /\ q \in OaepPaddings
      BY <1>1, <1>3
    <2>2. p.md = q.md /\ p.mgf = q.mgf /\ p.label = q.label
      BY <1>3, <2>1
    <2> QED
      BY <2>1, <2>2
  <1> QED
    BY <1>2, <1>3

(* A ciphertext was made with the configuration of its padding, for which  *)
(* all digests were found.                                                 *)
CiphertextOK ==
    ciphertext # NoCiphertext =>
        /\ ciphertext.pad \in Paddings /\ PrepareFindsDigests(ciphertext.pad)
        /\ ciphertext.config = PrepareOpenSSLContext(ciphertext.pad)

(* The inductive invariant *)
IInv == TypeOK /\ AcceptedSizesFit /\ RefusedSizesDoNotFit
        /\ CiphertextOK /\ DecryptInvertsEncrypt

(* Without contexts the invariant holds. *)
LEMMA InitInv == Init => IInv
BY PaddingAssumption
   DEF Init, IInv, TypeOK, AcceptedSizesFit, RefusedSizesDoNotFit, CiphertextOK,
       DecryptInvertsEncrypt, Done

(* Calls other than encrypt() and decrypt() keep the ciphertext and leave  *)
(* an outcome that says nothing of a size or a message.                    *)
LEMMA OtherOutcome ==
    ASSUME IInv, outcome'.op \notin {"encrypt", "decrypt"}, UNCHANGED ciphertext
    PROVE  /\ AcceptedSizesFit' /\ RefusedSizesDoNotFit'
           /\ CiphertextOK' /\ DecryptInvertsEncrypt'
BY DEF IInv, AcceptedSizesFit, RefusedSizesDoNotFit, CiphertextOK, DecryptInvertsEncrypt

(* Every call preserves the invariant. *)
LEMMA NextInv == IInv /\ [Next]_vars => IInv'
  <1> SUFFICES ASSUME IInv, [Next]_vars PROVE IInv'
    OBVIOUS
  <1>1. ASSUME NEW s \in Slots, NEW kind \in {"public", "private"},
               NEW k \in Keys, NEW o \in Objects, Construct(s, kind, k, o)
        PROVE  IInv'
    <2>1. outcome'.op \notin {"encrypt", "decrypt"} /\ UNCHANGED ciphertext
      BY <1>1 DEF Construct, Done
    <2>2. TypeOK'
      BY <1>1 DEF IInv, TypeOK, Construct
    <2> QED
      BY <2>1, <2>2, OtherOutcome DEF IInv
  <1>2. ASSUME NEW s \in Slots, NEW t \in Slots, NEW kind \in {"public", "private"},
               Copy(s, t, kind)
        PROVE  IInv'
    <2>1. outcome'.op \notin {"encrypt", "decrypt"} /\ UNCHANGED ciphertext
      BY <1>2 DEF Copy, Done
    <2>2. TypeOK'
      BY <1>2 DEF IInv, TypeOK, Copy
    <2> QED
      BY <2>1, <2>2, OtherOutcome DEF IInv
  <1>3. ASSUME NEW s \in Slots, Destroy(s) PROVE IInv'
    <2>1. outcome'.op \notin {"encrypt", "decrypt"} /\ UNCHANGED ciphertext
      BY <1>3 DEF Destroy, Done
    <2>2. TypeOK'
      BY <1>3 DEF IInv, TypeOK, Destroy
    <2> QED
      BY <2>1, <2>2, OtherOutcome DEF IInv
  <1>4. ASSUME NEW o \in Objects, NEW value \in Assigned, AssignPadding(o, value)
        PROVE  IInv'
    <2>1. outcome'.op \notin {"encrypt", "decrypt"} /\ UNCHANGED ciphertext
      BY <1>4 DEF AssignPadding, Done
    <2>2. value \in Paddings
      BY PaddingAssumption DEF Paddings
    <2>3. TypeOK'
      BY <1>4, <2>2 DEF IInv, TypeOK, AssignPadding
    <2> QED
      BY <2>1, <2>3, OtherOutcome DEF IInv
  <1>5. ASSUME NEW s \in Slots, NEW n \in Sizes, Encrypt(s, n) PROVE IInv'
    <2> DEFINE key == ctx[s].key
               pad == padding[ctx[s].padding]
               end == EncryptEnd(pad, Bits[key], n)
    <2>1. ctx[s] \in [kind : {"public", "private"}, padding : Objects,
                      key : {k \in Keys : KeyType[k] = "RSA"}]
      BY <1>5 DEF IInv, TypeOK, Encrypt, NoCtx
    <2>2. key \in Keys /\ pad \in Paddings
      BY <2>1 DEF IInv, TypeOK
    <2>3. n \in Nat
      BY RSAAssumption
    <2>4. PICK e \in {end, "OpenSSL"} :
            outcome' = [op |-> "encrypt", end |-> e, pad |-> pad, key |-> key,
                        size |-> n]
      BY <1>5 DEF Encrypt
    <2>5. /\ outcome'.end = e /\ outcome'.pad = pad /\ outcome'.key = key
          /\ outcome'.size = n /\ outcome'.op = "encrypt"
      BY <2>4
    <2>6. /\ end # "OpenSSL size"
          /\ /\ end \in {"size", "above INT_MAX"} /\ CheckFindsDigest(pad)
             /\ Bits[key] % 8 = 0 /\ n > 0
             => ~OpenSSLTakes(pad, Bits[key], n)
      <3> HIDE DEF key, pad
      <3> QED
        BY <2>2, <2>3, EncryptEndLemma
    <2> HIDE DEF key, pad, end
    <2>7. AcceptedSizesFit'
      BY <2>5, <2>6 DEF AcceptedSizesFit
    <2>8. RefusedSizesDoNotFit'
      BY <2>5, <2>6 DEF RefusedSizesDoNotFit
    <2>9. TypeOK'
      BY <1>5 DEF IInv, TypeOK, Encrypt
    <2>10. CiphertextOK'
      <3>1. CASE ciphertext' = ciphertext
        BY <3>1 DEF IInv, CiphertextOK
      <3>2. CASE ciphertext' # ciphertext
        <4>1. /\ end = "ok"
              /\ ciphertext' = [key |-> key, pad |-> pad,
                                config |-> PrepareOpenSSLContext(pad)]
          BY <1>5, <3>2 DEF Encrypt, key, pad, end
        <4>2. PrepareFindsDigests(pad)
          BY <4>1 DEF end, EncryptEnd
        <4> QED
          BY <2>2, <4>1, <4>2 DEF CiphertextOK
      <3> QED
        BY <3>1, <3>2
    <2>11. DecryptInvertsEncrypt'
      BY <2>5 DEF DecryptInvertsEncrypt
    <2> QED
      BY <2>7, <2>8, <2>9, <2>10, <2>11 DEF IInv
  <1>6. ASSUME NEW s \in Slots, Decrypt(s) PROVE IInv'
    <2> DEFINE key == ctx[s].key
               pad == padding[ctx[s].padding]
               same == /\ key = ciphertext.key
                       /\ PrepareOpenSSLContext(pad) = ciphertext.config
    <2>1. ctx[s] \in [kind : {"public", "private"}, padding : Objects,
                      key : {k \in Keys : KeyType[k] = "RSA"}]
      BY <1>6 DEF IInv, TypeOK, Decrypt, NoCtx
    <2>2. pad \in Paddings
      BY <2>1 DEF IInv, TypeOK
    <2>3. /\ ciphertext' = ciphertext /\ ciphertext.pad \in Paddings
          /\ PrepareFindsDigests(ciphertext.pad)
          /\ ciphertext.config = PrepareOpenSSLContext(ciphertext.pad)
      BY <1>6 DEF Decrypt, IInv, CiphertextOK
    <2>4. PICK e \in IF ~PrepareFindsDigests(pad) THEN {"digest"}
                     ELSE IF same THEN {"ok", "OpenSSL"}
                     ELSE IF pad.mode = "oaep" THEN {"OpenSSL"}
                     ELSE {"garbage", "OpenSSL"} :
            outcome' = [op |-> "decrypt", end |-> e, pad |-> pad, key |-> key]
      BY <1>6 DEF Decrypt
    <2>5. /\ outcome'.op = "decrypt" /\ outcome'.end = e
          /\ outcome'.pad = pad /\ outcome'.key = key
      BY <2>4
    <2>6. same <=> key = ciphertext.key /\ pad = ciphertext.pad
      <3>1. PrepareOpenSSLContext(pad) = ciphertext.config => pad = ciphertext.pad
        <4> HIDE DEF pad
        <4> QED
          BY <2>2, <2>3, ConfigurationTells
      <3> QED
        BY <2>3, <3>1
    <2>7. DecryptInvertsEncrypt'
      <3> HIDE DEF key, pad, same
      <3>1. e = "ok" => same
        BY <2>4
      <3>2. same => e \in {"ok", "OpenSSL"}
        BY <2>3, <2>4, <2>6
      <3> QED
        BY <2>3, <2>5, <2>6, <3>1, <3>2 DEF DecryptInvertsEncrypt
    <2>8. AcceptedSizesFit' /\ RefusedSizesDoNotFit' /\ CiphertextOK'
      BY <2>3, <2>5 DEF IInv, AcceptedSizesFit, RefusedSizesDoNotFit, CiphertextOK
    <2>9. TypeOK'
      BY <1>6 DEF IInv, TypeOK, Decrypt
    <2> QED
      BY <2>7, <2>8, <2>9 DEF IInv
  <1>7. ASSUME NEW o \in Objects, NEW k \in Keys, NEW n \in Sizes,
               AskMessageSize(o, k, n)
        PROVE  IInv'
    <2>1. outcome'.op \notin {"encrypt", "decrypt"} /\ UNCHANGED ciphertext
      BY <1>7 DEF AskMessageSize
    <2>2. TypeOK'
      BY <1>7 DEF IInv, TypeOK, AskMessageSize
    <2> QED
      BY <2>1, <2>2, OtherOutcome DEF IInv
  <1>8. CASE UNCHANGED vars
    BY <1>8 DEF IInv, TypeOK, AcceptedSizesFit, RefusedSizesDoNotFit, CiphertextOK,
                DecryptInvertsEncrypt, vars
  <1> QED
    BY <1>1, <1>2, <1>3, <1>4, <1>5, <1>6, <1>7, <1>8
       DEF Next, ConstructPublic, ConstructPrivate, CopyPublic, CopyPrivate

(* Contexts always hold RSA keys and point to padding objects. *)
THEOREM TypeCorrect == Spec => []TypeOK
  <1>1. IInv => TypeOK
    BY DEF IInv
  <1> QED
    BY <1>1, InitInv, NextInv, PTL DEF Spec

(* encrypt() hands OpenSSL no message that is too long for the key and the *)
(* padding, for every key size, digest and message.                        *)
THEOREM AcceptedFit == Spec => []AcceptedSizesFit
  <1>1. IInv => AcceptedSizesFit
    BY DEF IInv
  <1> QED
    BY <1>1, InitInv, NextInv, PTL DEF Spec

(* encrypt() refuses no message that would fit, for every key whose size   *)
(* is a multiple of eight bits.                                            *)
THEOREM RefusedDoNotFit == Spec => []RefusedSizesDoNotFit
  <1>1. IInv => RefusedSizesDoNotFit
    BY DEF IInv
  <1> QED
    BY <1>1, InitInv, NextInv, PTL DEF Spec

(* decrypt() returns the message with the key and the padding of           *)
(* encrypt(), whatever was assigned to shared paddings, and with no other. *)
THEOREM DecryptInverts == Spec => []DecryptInvertsEncrypt
  <1>1. IInv => DecryptInvertsEncrypt
    BY DEF IInv
  <1> QED
    BY <1>1, InitInv, NextInv, PTL DEF Spec

(* The size check of encrypt() is exact in both directions.                *)
THEOREM SizeCheckExact == Spec => []SizeCheckIsExact
BY TypeCorrect, AcceptedFit, RefusedDoNotFit, PTL DEF SizeCheckIsExact
-----------------------------------------------------------------------------
(***************************************************************************)
(* Asymmetric keys.  Whatever way a key came in, it is one that some       *)
(* generation or some foreign file could have given, and that is enough    *)
(* for its specification to describe it.                                   *)
(***************************************************************************)

NamedCurves == {c \in Curves : c \notin KeyObjects!EdCurves}

(* The EVP_PKEYs a key object can hold. *)
KeyRecord(base, bits, curve) ==
    [base : {base}, bits : {bits}, curve : {curve}, id : 1 .. MaxKeys, private : BOOLEAN]

SupportedKeys ==
    UNION ({KeyRecord("RSA", b, "none") : b \in RSASizes}
           \union {KeyRecord(c, 0, "none") : c \in KeyObjects!EdCurves}
           \union {KeyRecord("EC", 0, c) : c \in NamedCurves})

KeySet == SupportedKeys \union KeyRecord("DSA", 0, "none") \union KeyRecord("EC", 0, "explicit")

(* The field of a named curve has a degree. *)
LEMMA DegreeType ==
    ASSUME NEW c \in DOMAIN KeyObjects!Degree
    PROVE  /\ KeyObjects!Degree[c] \in Nat \ {0}
           /\ c \notin KeyObjects!EdCurves /\ c # "explicit" /\ c # "none"
BY DEF KeyObjects!Degree, KeyObjects!EdCurves

(* The two ways to count the octets of a field agree. *)
LEMMA OctetsOfField ==
    ASSUME NEW d \in Nat \ {0}
    PROVE  (CHOOSE n \in 1 .. d : 8 * n >= d /\ 8 * (n - 1) < d) = (d + 7) \div 8
  <1> DEFINE q == (d + 7) \div 8
             P(n) == 8 * n >= d /\ 8 * (n - 1) < d
  <1>1. q \in 1 .. d /\ P(q)
    OBVIOUS
  <1>2. \A n \in 1 .. d : P(n) => n = q
    BY <1>1
  <1> HIDE DEF q, P
  <1>3. (CHOOSE n \in 1 .. d : P(n)) = q
    BY <1>1, <1>2
  <1> QED
    BY <1>3 DEF q, P

(* getECOctetLength() is the length OpenSSL gives the point. *)
LEMMA PointLengthIs ==
    ASSUME NEW k, k.curve \in DOMAIN KeyObjects!Degree, NEW form
    PROVE  KeyObjects!PointLength(k.curve, form) = KeyObjects!GetECOctetLength(k, form)
  <1> DEFINE d == KeyObjects!Degree[k.curve]
             octets == CHOOSE n \in 1 .. d : 8 * n >= d /\ 8 * (n - 1) < d
  <1>1. octets = (d + 7) \div 8 /\ d \in Nat
    BY DegreeType, OctetsOfField
  <1>2. KeyObjects!PointLength(k.curve, form)
            = (IF form = "compressed" THEN octets ELSE 2 * octets) + 1
    BY DEF KeyObjects!PointLength
  <1>3. KeyObjects!GetECOctetLength(k, form)
            = IF form = "compressed" THEN 1 + ((d + 7) \div 8) ELSE 1 + 2 * ((d + 7) \div 8)
    BY DEF KeyObjects!GetECOctetLength
  <1>4. (d + 7) \div 8 \in Int
    BY <1>1
  <1> HIDE DEF d, octets
  <1> QED
    BY <1>1, <1>2, <1>3, <1>4

(* The members of a key are those it was made with. *)
LEMMA PkeyIs ==
    ASSUME NEW base, NEW bits, NEW curve, NEW id \in 1 .. MaxKeys, NEW private \in BOOLEAN
    PROVE  KeyObjects!Pkey(base, bits, curve, id, private) \in KeyRecord(base, bits, curve)
BY DEF KeyObjects!Pkey, KeyRecord

(* What a specification generates is a supported key. *)
LEMMA GeneratedIs ==
    ASSUME NEW spec \in KeyObjects!Specs \union {KeyObjects!ECCSpec(c) : c \in KeyObjects!EdCurves},
           KeyObjects!NewId \in 1 .. MaxKeys
    PROVE  KeyObjects!Generated(spec) \in SupportedKeys
  <1> DEFINE g == KeyObjects!Generated(spec)
  <1>1. CASE \E b \in RSASizes : spec = KeyObjects!RSASpec(b)
    <2>1. PICK b \in RSASizes : spec = KeyObjects!RSASpec(b)
      BY <1>1
    <2>2. spec.family = "RSA" /\ spec.bits = b
      BY <2>1 DEF KeyObjects!RSASpec
    <2>3. g \in KeyRecord("RSA", b, "none")
      BY <2>2, PkeyIs DEF KeyObjects!Generated
    <2> QED
      BY <2>3 DEF SupportedKeys
  <1>2. CASE \E c \in Curves \union KeyObjects!EdCurves : spec = KeyObjects!ECCSpec(c)
    <2>1. PICK c \in Curves \union KeyObjects!EdCurves : spec = KeyObjects!ECCSpec(c)
      BY <1>2
    <2>2. spec.family = "EC" /\ spec.curve = c
      BY <2>1 DEF KeyObjects!ECCSpec
    <2>3. CASE c \in KeyObjects!EdCurves
      <3>1. g \in KeyRecord(c, 0, "none")
        BY <2>2, <2>3, PkeyIs DEF KeyObjects!Generated
      <3> QED
        BY <2>3, <3>1 DEF SupportedKeys
    <2>4. CASE c \notin KeyObjects!EdCurves
      <3>1. g \in KeyRecord("EC", 0, c)
        BY <2>2, <2>4, PkeyIs DEF KeyObjects!Generated
      <3>2. c \in NamedCurves
        BY <2>1, <2>4 DEF NamedCurves
      <3> QED
        BY <3>1, <3>2 DEF SupportedKeys
    <2> QED
      BY <2>3, <2>4
  <1> QED
    BY <1>1, <1>2 DEF KeyObjects!Specs

(* The specification of a supported key is one of those generate() takes,  *)
(* and generates the same kind of key.                                     *)
LEMMA SpecOfKey ==
    ASSUME NEW k \in SupportedKeys
    PROVE  /\ \E spec : KeyObjects!GetKeySpec(k) = {spec}
           /\ KeyObjects!GetKeySpec(k)
                \subseteq KeyObjects!Specs \union {KeyObjects!ECCSpec(c) : c \in KeyObjects!EdCurves}
           /\ \A spec \in KeyObjects!GetKeySpec(k) :
                [KeyObjects!Generated(spec) EXCEPT !.id = k.id, !.private = k.private] = k
           /\ KeyObjects!GetType(k) = "ECC" => k.curve \in NamedCurves
  <1> DEFINE Restored(spec) ==
                [KeyObjects!Generated(spec) EXCEPT !.id = k.id, !.private = k.private]
             Accepted == KeyObjects!Specs \union {KeyObjects!ECCSpec(c) : c \in KeyObjects!EdCurves}
  <1>0. ASSUME NEW base, NEW bits, NEW curve, NEW id, NEW private, NEW spec,
               KeyObjects!Generated(spec) = KeyObjects!Pkey(base, bits, curve, id, private),
               k \in KeyRecord(base, bits, curve)
        PROVE  Restored(spec) = k
    <2> DEFINE g == KeyObjects!Generated(spec)
               one == [g EXCEPT !.id = k.id]
    <2>1. k = [base |-> base, bits |-> bits, curve |-> curve, id |-> k.id, private |-> k.private]
      BY <1>0 DEF KeyRecord
    <2>2. one = [base |-> base, bits |-> bits, curve |-> curve, id |-> k.id, private |-> private]
      BY <1>0 DEF KeyObjects!Pkey
    <2>3. Restored(spec) = [one EXCEPT !.private = k.private]
      OBVIOUS
    <2> HIDE DEF one, Restored
    <2> QED
      BY <2>1, <2>2, <2>3
  <1> HIDE DEF Restored
  <1>1. ASSUME NEW b \in RSASizes, k \in KeyRecord("RSA", b, "none")
        PROVE  /\ KeyObjects!GetKeySpec(k) = {KeyObjects!RSASpec(b)}
               /\ KeyObjects!RSASpec(b) \in Accepted /\ Restored(KeyObjects!RSASpec(b)) = k
               /\ KeyObjects!GetType(k) # "ECC"
    <2>1. k.base = "RSA" /\ k.bits = b
      BY <1>1 DEF KeyRecord
    <2>2. KeyObjects!GetType(k) = "RSA"
      BY <2>1 DEF KeyObjects!GetType, KeyObjects!EdCurves
    <2>3. KeyObjects!GetKeySpec(k) = {KeyObjects!RSASpec(b)}
      BY <2>1, <2>2 DEF KeyObjects!GetKeySpec
    <2>4. KeyObjects!Generated(KeyObjects!RSASpec(b))
            = KeyObjects!Pkey("RSA", b, "none", KeyObjects!NewId, TRUE)
      BY DEF KeyObjects!Generated, KeyObjects!RSASpec
    <2>5. Restored(KeyObjects!RSASpec(b)) = k
      BY <1>0, <1>1, <2>4
    <2>6. KeyObjects!RSASpec(b) \in Accepted
      BY DEF KeyObjects!Specs
    <2> HIDE DEF Accepted
    <2> QED
      BY <2>2, <2>3, <2>5, <2>6
  <1>2. ASSUME NEW c \in KeyObjects!EdCurves, k \in KeyRecord(c, 0, "none")
        PROVE  /\ KeyObjects!GetKeySpec(k) = {KeyObjects!ECCSpec(c)}
               /\ KeyObjects!ECCSpec(c) \in Accepted /\ Restored(KeyObjects!ECCSpec(c)) = k
               /\ KeyObjects!GetType(k) # "ECC"
    <2>1. k.base = c /\ c # "RSA" /\ c # "EC"
      BY <1>2 DEF KeyRecord, KeyObjects!EdCurves
    <2>2. KeyObjects!GetType(k) = "ECC_ED"
      BY <2>1 DEF KeyObjects!GetType, KeyObjects!EdCurves
    <2>3. KeyObjects!GetKeySpec(k) = {KeyObjects!ECCSpec(c)}
      BY <2>1, <2>2 DEF KeyObjects!GetKeySpec
    <2>4. KeyObjects!Generated(KeyObjects!ECCSpec(c))
            = KeyObjects!Pkey(c, 0, "none", KeyObjects!NewId, TRUE)
      BY DEF KeyObjects!Generated, KeyObjects!ECCSpec
    <2>5. Restored(KeyObjects!ECCSpec(c)) = k
      BY <1>0, <1>2, <2>4
    <2>6. KeyObjects!ECCSpec(c) \in Accepted
      OBVIOUS
    <2> HIDE DEF Accepted
    <2> QED
      BY <2>2, <2>3, <2>5, <2>6
  <1>3. ASSUME NEW c \in NamedCurves, k \in KeyRecord("EC", 0, c)
        PROVE  /\ KeyObjects!GetKeySpec(k) = {KeyObjects!ECCSpec(c)}
               /\ KeyObjects!ECCSpec(c) \in Accepted /\ Restored(KeyObjects!ECCSpec(c)) = k
               /\ k.curve = c
    <2>1. k.base = "EC" /\ k.curve = c
      BY <1>3 DEF KeyRecord
    <2>2. KeyObjects!GetType(k) = "ECC"
      BY <2>1 DEF KeyObjects!GetType, KeyObjects!EdCurves
    <2>3. c \in DOMAIN KeyObjects!Degree /\ c \notin KeyObjects!EdCurves
      BY AsymmetricAssumption DEF NamedCurves, KeyObjects!KeyAssumption
    <2>4. c # "explicit"
      BY <2>3, DegreeType
    <2>5. KeyObjects!GetKeySpec(k) = {KeyObjects!ECCSpec(c)}
      BY <2>1, <2>2, <2>4 DEF KeyObjects!GetKeySpec
    <2>6. KeyObjects!Generated(KeyObjects!ECCSpec(c))
            = KeyObjects!Pkey("EC", 0, c, KeyObjects!NewId, TRUE)
      BY <2>3 DEF KeyObjects!Generated, KeyObjects!ECCSpec
    <2>7. Restored(KeyObjects!ECCSpec(c)) = k
      BY <1>0, <1>3, <2>6
    <2>8. KeyObjects!ECCSpec(c) \in Accepted
      BY DEF KeyObjects!Specs, NamedCurves
    <2> HIDE DEF Accepted
    <2> QED
      BY <2>1, <2>5, <2>7, <2>8
  <1>4. \/ \E b \in RSASizes : k \in KeyRecord("RSA", b, "none")
        \/ \E c \in KeyObjects!EdCurves : k \in KeyRecord(c, 0, "none")
        \/ \E c \in NamedCurves : k \in KeyRecord("EC", 0, c)
    BY DEF SupportedKeys
  <1> HIDE DEF Accepted
  <1>5. \E spec : KeyObjects!GetKeySpec(k) = {spec} /\ spec \in Accepted /\ Restored(spec) = k
    BY <1>1, <1>2, <1>3, <1>4
  <1>6. KeyObjects!GetType(k) = "ECC" => k.curve \in NamedCurves
    BY <1>1, <1>2, <1>3, <1>4
  <1> QED
    BY <1>5, <1>6 DEF Restored, Accepted

PemSet == [key : KeySet, encrypted : BOOLEAN, password : Seq(Nat)]

(* A private key in PEM is encrypted exactly if its password is not empty. *)
PemIsRight(p) == p \in PemSet /\ (p.encrypted <=> p.password # <<>>)

(* A point is on the curve of the key it was taken from. *)
PointIsRight(t) ==
    /\ t.curve \in NamedCurves /\ t.id \in 1 .. MaxKeys
    /\ t.from \in 1 .. Len(aKeys) /\ aKeys[t.from].curve = t.curve
    /\ t.length = KeyObjects!PointLength(t.curve, t.form)

ReadIsRight(r) == PemIsRight(r.pem) /\ (r.success <=> KeyObjects!Decrypts(r.pem, r.password))

KeyIInv ==
    /\ aKeys \in Seq(KeySet) /\ Len(aKeys) <= MaxKeys
    /\ aPem = <<>> \/ \E p : aPem = <<p>> /\ PemIsRight(p)
    /\ aPoint = <<>> \/ \E t : aPoint = <<t>> /\ PointIsRight(t)
    /\ aLastRead = <<>> \/ \E r : aLastRead = <<r>> /\ ReadIsRight(r)
    /\ aException \in {"none", "MoCOCrWException", "OpenSSLException"}

(* A sequence of at most one element. *)
LEMMA AtMostOne ==
    ASSUME NEW s, NEW e, s = <<e>>
    PROVE  s # <<>> /\ DOMAIN s = {1} /\ s[1] = e
  <1>1. DOMAIN <<e>> = {1} /\ <<e>>[1] = e /\ Len(<<e>>) = 1 /\ Len(<<>>) = 0
    OBVIOUS
  <1> QED
    BY <1>1, Zenon

(* The sets of keys, one by one. *)
LEMMA KeyIsRecord ==
    ASSUME NEW k \in KeySet
    PROVE  \/ \E b \in RSASizes : k \in KeyRecord("RSA", b, "none")
           \/ \E c \in KeyObjects!EdCurves : k \in KeyRecord(c, 0, "none")
           \/ \E c \in NamedCurves : k \in KeyRecord("EC", 0, c)
           \/ k \in KeyRecord("DSA", 0, "none")
           \/ k \in KeyRecord("EC", 0, "explicit")
BY DEF KeySet, SupportedKeys

(* The invariant implies what is checked of keys. *)
LEMMA KeyIInvSuffices == KeyIInv => KeysKeepTheirMeaning
  <1> SUFFICES ASSUME KeyIInv PROVE KeysKeepTheirMeaning
    OBVIOUS
  <1>1. ASSUME NEW i \in DOMAIN aKeys
        PROVE  aKeys[i] \in KeySet
    BY ElementOfSeq DEF KeyIInv
  <1>2. ASSUME NEW k \in KeySet
        PROVE  k.id \in 1 .. MaxKeys /\ k.curve \in Curves \union {"none", "explicit"}
    <2>1. PICK base, bits, curve :
              /\ k \in KeyRecord(base, bits, curve)
              /\ curve \in Curves \union {"none", "explicit"}
      BY KeyIsRecord DEF NamedCurves
    <2> QED
      BY <2>1 DEF KeyRecord
  <1>3. \A i \in DOMAIN aPem : aPem[i].encrypted = (aPem[i].password # <<>>)
    <2>1. CASE aPem = <<>>
      BY <2>1
    <2>2. ASSUME NEW p, aPem = <<p>>, PemIsRight(p)
          PROVE  \A i \in DOMAIN aPem : aPem[i].encrypted = (aPem[i].password # <<>>)
      <3>1. p.encrypted \in BOOLEAN /\ (p.encrypted <=> p.password # <<>>)
        BY <2>2 DEF PemIsRight, PemSet
      <3>2. DOMAIN aPem = {1} /\ aPem[1] = p
        BY <2>2, AtMostOne
      <3> QED
        BY <3>1, <3>2, Zenon
    <2> QED
      BY <2>1, <2>2 DEF KeyIInv
  <1>4. KeyObjects!TypeOK
    BY <1>1, <1>2, <1>3 DEF KeyObjects!TypeOK, KeyIInv
  <1>5. KeyObjects!SpecDescribesKey
    <2> SUFFICES ASSUME NEW i \in DOMAIN aKeys, KeyObjects!GetType(aKeys[i]) # "unknown",
                        aKeys[i].curve # "explicit"
                 PROVE  \E spec \in KeyObjects!GetKeySpec(aKeys[i]) :
                            [KeyObjects!Generated(spec) EXCEPT !.id = aKeys[i].id,
                                                               !.private = aKeys[i].private]
                                = aKeys[i]
      BY DEF KeyObjects!SpecDescribesKey
    <2> DEFINE k == aKeys[i]
    <2>1. k \in KeySet
      BY <1>1
    <2>2. k \notin KeyRecord("DSA", 0, "none")
      <3>1. k \in KeyRecord("DSA", 0, "none") => k.base = "DSA"
        BY DEF KeyRecord
      <3>2. k.base = "DSA" => KeyObjects!GetType(k) = "unknown"
        BY DEF KeyObjects!GetType, KeyObjects!EdCurves
      <3> QED
        BY <3>1, <3>2
    <2>3. k \notin KeyRecord("EC", 0, "explicit")
      BY DEF KeyRecord
    <2>4. k \in SupportedKeys
      BY <2>1, <2>2, <2>3 DEF KeySet
    <2> HIDE DEF k
    <2>5. PICK spec : KeyObjects!GetKeySpec(k) = {spec}
      BY <2>4, SpecOfKey
    <2>6. [KeyObjects!Generated(spec) EXCEPT !.id = k.id, !.private = k.private] = k
      BY <2>4, <2>5, SpecOfKey, Zenon
    <2> QED
      BY <2>5, <2>6, Zenon DEF k
  <1>6. KeyObjects!PointHasAnnouncedLength
    <2>1. CASE aPoint = <<>>
      BY <2>1 DEF KeyObjects!PointHasAnnouncedLength
    <2>2. ASSUME NEW t, aPoint = <<t>>, PointIsRight(t) PROVE KeyObjects!PointHasAnnouncedLength
      <3>1. DOMAIN aPoint = {1} /\ aPoint[1] = t
        BY <2>2, AtMostOne
      <3>2. aKeys[t.from].curve = t.curve /\ t.curve \in DOMAIN KeyObjects!Degree
        BY <2>2, AsymmetricAssumption DEF PointIsRight, NamedCurves, KeyObjects!KeyAssumption
      <3>3. t.length = KeyObjects!GetECOctetLength(aKeys[t.from], t.form)
        BY <2>2, <3>2, PointLengthIs DEF PointIsRight
      <3> QED
        BY <3>1, <3>3 DEF KeyObjects!PointHasAnnouncedLength
    <2> QED
      BY <2>1, <2>2 DEF KeyIInv
  <1>7. KeyObjects!PasswordOpens
    <2>1. CASE aLastRead = <<>>
      BY <2>1 DEF KeyObjects!PasswordOpens
    <2>2. ASSUME NEW r, aLastRead = <<r>>, ReadIsRight(r) PROVE KeyObjects!PasswordOpens
      <3>1. DOMAIN aLastRead = {1} /\ aLastRead[1] = r
        BY <2>2, AtMostOne
      <3>2. ASSUME KeyObjects!Plain(r.pem.password), KeyObjects!Plain(r.password)
            PROVE  r.success <=> (r.pem.password = <<>> \/ r.password = r.pem.password)
        BY <2>2, <3>2, Zenon DEF ReadIsRight, PemIsRight, KeyObjects!Decrypts, KeyObjects!Plain
      <3> QED
        BY <3>1, <3>2, Zenon DEF KeyObjects!PasswordOpens
    <2> QED
      BY <2>1, <2>2 DEF KeyIInv
  <1> QED
    BY <1>4, <1>5, <1>6, <1>7 DEF KeysKeepTheirMeaning

(* A further key changes nothing about those that are there. *)
LEMMA AddKeyKeeps ==
    ASSUME KeyIInv, NEW k \in KeySet, Len(aKeys) < MaxKeys, aKeys' = Append(aKeys, k),
           aException' = "none", UNCHANGED <<aPem, aPoint>>,
           \/ UNCHANGED aLastRead
           \/ \E r : aLastRead' = <<r>> /\ ReadIsRight(r)
    PROVE  KeyIInv'
  <1>1. aKeys \in Seq(KeySet) /\ Len(aKeys) \in Nat /\ MaxKeys \in Nat
    BY AsymmetricAssumption DEF KeyIInv, KeyObjects!KeyAssumption
  <1>2. /\ aKeys' \in Seq(KeySet) /\ Len(aKeys') = Len(aKeys) + 1
        /\ \A i \in 1 .. Len(aKeys) : aKeys'[i] = aKeys[i] /\ i \in 1 .. Len(aKeys')
    BY <1>1, AppendProperties
  <1>3. ASSUME NEW t, PointIsRight(t) PROVE PointIsRight(t)'
    BY <1>2, <1>3 DEF PointIsRight
  <1>4. \A r : ReadIsRight(r)' = ReadIsRight(r)
    BY DEF ReadIsRight, KeyObjects!Decrypts, KeyObjects!CString
  <1>5. aLastRead' = <<>> \/ \E r : aLastRead' = <<r>> /\ ReadIsRight(r)
    BY DEF KeyIInv
  <1>6. aPoint' = <<>> \/ \E t : aPoint' = <<t>> /\ PointIsRight(t)'
    BY <1>3 DEF KeyIInv
  <1> QED
    BY <1>1, <1>2, <1>5, <1>6 DEF KeyIInv

(* A call that throws leaves every object as it was. *)
LEMMA FailsKeeps ==
    ASSUME KeyIInv, UNCHANGED <<aKeys, aPem, aPoint>>,
           aException' \in {"none", "MoCOCrWException", "OpenSSLException"},
           \/ UNCHANGED aLastRead
           \/ \E r : aLastRead' = <<r>> /\ ReadIsRight(r)
    PROVE  KeyIInv'
  <1>1. \A t : PointIsRight(t)' <=> PointIsRight(t)
    BY DEF PointIsRight
  <1>2. aLastRead' = <<>> \/ \E r : aLastRead' = <<r>> /\ ReadIsRight(r)
    BY DEF KeyIInv
  <1> QED
    BY <1>1, <1>2 DEF KeyIInv

(* The invariant is inductive. *)
LEMMA KeyInvariance == KeyObjects!Spec => []KeyIInv
  <1>1. KeyObjects!Init => KeyIInv
    <2>1. <<>> \in Seq(KeySet) /\ Len(<<>>) <= MaxKeys
      BY EmptySeq, AsymmetricAssumption DEF KeyObjects!KeyAssumption
    <2> QED
      BY <2>1 DEF KeyObjects!Init, KeyIInv
  <1>2. ASSUME KeyIInv, [KeyObjects!Next]_(KeyObjects!vars) PROVE KeyIInv'
    <2>0. /\ aKeys \in Seq(KeySet) /\ Len(aKeys) \in Nat /\ MaxKeys \in Nat
          /\ \A i \in DOMAIN aKeys : aKeys[i] \in KeySet
          /\ DOMAIN aKeys = 1 .. Len(aKeys)
      BY <1>2, AsymmetricAssumption, ElementOfSeq DEF KeyIInv, KeyObjects!KeyAssumption
    <2>1. ASSUME NEW class \in {"MoCOCrWException", "OpenSSLException"}, KeyObjects!Fails(class)
          PROVE  KeyIInv'
      BY <1>2, <2>1, FailsKeeps DEF KeyObjects!Fails
    <2>2. ASSUME NEW k \in KeySet, Len(aKeys) < MaxKeys, KeyObjects!AddKey(k) PROVE KeyIInv'
      BY <1>2, <2>2, AddKeyKeeps DEF KeyObjects!AddKey
    <2>3. Len(aKeys) < MaxKeys => KeyObjects!NewId \in 1 .. MaxKeys
      BY <2>0 DEF KeyObjects!NewId
    <2> DEFINE Accepted == KeyObjects!Specs
                              \union {KeyObjects!ECCSpec(c) : c \in KeyObjects!EdCurves}
    <2>4. ASSUME NEW spec \in Accepted, KeyObjects!Generate(spec) PROVE KeyIInv'
      <3>1. Len(aKeys) < MaxKeys
        BY <2>4 DEF KeyObjects!Generate
      <3>2. KeyObjects!Generated(spec) \in KeySet
        BY <2>3, <3>1, GeneratedIs DEF KeySet
      <3> QED
        BY <2>1, <2>2, <2>4, <3>1, <3>2 DEF KeyObjects!Generate
    <2>5. ASSUME KeyObjects!ReadForeignPublicKey PROVE KeyIInv'
      <3>1. Len(aKeys) < MaxKeys
        BY <2>5 DEF KeyObjects!ReadForeignPublicKey
      <3>2. /\ KeyObjects!Pkey("DSA", 0, "none", KeyObjects!NewId, FALSE) \in KeySet
            /\ KeyObjects!Pkey("EC", 0, "explicit", KeyObjects!NewId, FALSE) \in KeySet
        BY <2>3, <3>1, PkeyIs DEF KeySet
      <3> QED
        BY <2>1, <2>2, <2>5, <3>1, <3>2 DEF KeyObjects!ReadForeignPublicKey
    <2>6. ASSUME NEW c \in Curves, KeyObjects!FromECPoint(c) PROVE KeyIInv'
      <3>1. aPoint # <<>> /\ Len(aKeys) < MaxKeys
        BY <2>6 DEF KeyObjects!FromECPoint
      <3>2. PICK t : aPoint = <<t>> /\ PointIsRight(t)
        BY <1>2, <3>1 DEF KeyIInv
      <3>3. aPoint[1] = t
        BY <3>2, AtMostOne
      <3>4. CASE c \in KeyObjects!EdCurves \/ c # t.curve
        BY <2>1, <2>6, <3>3, <3>4 DEF KeyObjects!FromECPoint
      <3>5. CASE c \notin KeyObjects!EdCurves /\ c = t.curve
        <4>1. KeyObjects!AddKey(KeyObjects!Pkey("EC", 0, c, t.id, FALSE))
          BY <2>6, <3>3, <3>5 DEF KeyObjects!FromECPoint
        <4>2. KeyObjects!Pkey("EC", 0, c, t.id, FALSE) \in KeyRecord("EC", 0, c)
          BY <3>2, PkeyIs DEF PointIsRight
        <4>3. KeyObjects!Pkey("EC", 0, c, t.id, FALSE) \in KeySet
          BY <3>2, <3>5, <4>2 DEF KeySet, SupportedKeys, PointIsRight
        <4> QED
          BY <2>2, <3>1, <4>1, <4>3
      <3> QED
        BY <3>4, <3>5
    <2>7. ASSUME NEW pwd \in Passwords, KeyObjects!ReadPrivateKeyFromPEM(pwd) PROVE KeyIInv'
      <3>1. aPem # <<>> /\ Len(aKeys) < MaxKeys
        BY <2>7 DEF KeyObjects!ReadPrivateKeyFromPEM
      <3>2. PICK p : aPem = <<p>> /\ PemIsRight(p)
        BY <1>2, <3>1 DEF KeyIInv
      <3>3. aPem[1] = p /\ p.key \in KeySet
        BY <3>2, AtMostOne DEF PemIsRight, PemSet
      <3> DEFINE r == [pem |-> p, password |-> pwd, success |-> KeyObjects!Decrypts(p, pwd)]
      <3>4. aLastRead' = <<r>> /\ UNCHANGED <<aPem, aPoint>>
        BY <2>7, <3>3 DEF KeyObjects!ReadPrivateKeyFromPEM
      <3>5. r.pem = p /\ r.password = pwd /\ (r.success <=> KeyObjects!Decrypts(p, pwd))
        OBVIOUS
      <3> HIDE DEF r
      <3>6. ReadIsRight(r)
        BY <3>2, <3>5, Zenon DEF ReadIsRight
      <3>7. CASE KeyObjects!Decrypts(p, pwd)
        <4>1. aKeys' = Append(aKeys, p.key) /\ aException' = "none"
          BY <2>7, <3>3, <3>7 DEF KeyObjects!ReadPrivateKeyFromPEM
        <4> QED
          BY <1>2, <3>1, <3>3, <3>4, <3>6, <4>1, AddKeyKeeps
      <3>8. CASE ~KeyObjects!Decrypts(p, pwd)
        <4>1. aException' = "OpenSSLException" /\ UNCHANGED aKeys
          BY <2>7, <3>3, <3>8 DEF KeyObjects!ReadPrivateKeyFromPEM
        <4> QED
          BY <1>2, <3>4, <3>6, <4>1, FailsKeeps
      <3> QED
        BY <3>7, <3>8
    <2>8. ASSUME NEW i \in DOMAIN aKeys, KeyObjects!GenerateAlike(i) PROVE KeyIInv'
      <3> DEFINE k == aKeys[i]
      <3>1. CASE KeyObjects!GetKeySpec(k) = {}
        BY <2>1, <2>8, <3>1 DEF KeyObjects!GenerateAlike
      <3>2. ASSUME NEW spec \in KeyObjects!GetKeySpec(k), KeyObjects!Generate(spec)
            PROVE  KeyIInv'
        <4>1. k \in SupportedKeys
          <5>1. k \notin KeyRecord("DSA", 0, "none")
            <6>1. ASSUME k \in KeyRecord("DSA", 0, "none") PROVE KeyObjects!GetKeySpec(k) = {}
              <7>1. k.base = "DSA"
                BY <6>1 DEF KeyRecord
              <7>2. KeyObjects!GetType(k) = "unknown"
                BY <7>1 DEF KeyObjects!GetType, KeyObjects!EdCurves
              <7> QED
                BY <7>2 DEF KeyObjects!GetKeySpec
            <6> QED
              BY <3>2, <6>1
          <5>2. k \notin KeyRecord("EC", 0, "explicit")
            <6>1. ASSUME k \in KeyRecord("EC", 0, "explicit") PROVE KeyObjects!GetKeySpec(k) = {}
              <7>1. k.base = "EC" /\ k.curve = "explicit"
                BY <6>1 DEF KeyRecord
              <7>2. KeyObjects!GetType(k) = "ECC"
                BY <7>1 DEF KeyObjects!GetType, KeyObjects!EdCurves
              <7> QED
                BY <7>1, <7>2 DEF KeyObjects!GetKeySpec
            <6> QED
              BY <3>2, <6>1
          <5> QED
            BY <2>0, <5>1, <5>2 DEF KeySet
        <4>2. spec \in Accepted
          BY <3>2, <4>1, SpecOfKey, Zenon
        <4> QED
          BY <2>4, <3>2, <4>2
      <3> QED
        BY <2>8, <3>1, <3>2 DEF KeyObjects!GenerateAlike
    <2>9. ASSUME NEW i \in DOMAIN aKeys, KeyObjects!CopyPublicKey(i) PROVE KeyIInv'
      <3> DEFINE k == aKeys[i]
                 copy == [k EXCEPT !.private = FALSE]
      <3>1. ASSUME NEW base, NEW bits, NEW curve, k \in KeyRecord(base, bits, curve)
            PROVE  copy \in KeyRecord(base, bits, curve)
        BY <3>1 DEF KeyRecord
      <3>2. k \in KeySet
        BY <2>0
      <3> HIDE DEF copy, k
      <3>3. copy \in KeySet
        BY <3>1, <3>2, KeyIsRecord DEF KeySet, SupportedKeys
      <3> QED
        BY <2>2, <2>9, <3>3 DEF KeyObjects!CopyPublicKey, copy, k
    <2>10. ASSUME NEW i \in DOMAIN aKeys, NEW form \in KeyObjects!Forms,
                  KeyObjects!ToECPoint(i, form)
           PROVE  KeyIInv'
      <3> DEFINE k == aKeys[i]
                 t == [curve |-> k.curve, id |-> k.id, from |-> i, form |-> form,
                       length |-> KeyObjects!PointLength(k.curve, form)]
      <3>1. CASE ~(KeyObjects!GetType(k) = "ECC" /\ KeyObjects!GetKeySpec(k) # {})
        BY <2>1, <2>10, <3>1 DEF KeyObjects!ToECPoint
      <3>2. CASE KeyObjects!GetType(k) = "ECC" /\ KeyObjects!GetKeySpec(k) # {}
        <4>1. aPoint' = <<t>> /\ aException' = "none" /\ UNCHANGED <<aKeys, aPem, aLastRead>>
          BY <2>10, <3>2 DEF KeyObjects!ToECPoint
        <4>2. k \in KeySet
          BY <2>0
        <4>3. k.curve # "explicit"
          BY <3>2 DEF KeyObjects!GetKeySpec
        <4>4. k \notin KeyRecord("DSA", 0, "none") /\ k \notin KeyRecord("EC", 0, "explicit")
          BY <3>2, <4>3 DEF KeyRecord, KeyObjects!GetType, KeyObjects!EdCurves
        <4>5. k \in SupportedKeys
          BY <4>2, <4>4 DEF KeySet
        <4>6. k.curve \in NamedCurves
          BY <3>2, <4>5, SpecOfKey, Zenon
        <4>7. k.id \in 1 .. MaxKeys
          <5>1. PICK base, bits, curve : k \in KeyRecord(base, bits, curve)
            BY <4>2, KeyIsRecord
          <5> QED
            BY <5>1 DEF KeyRecord
        <4>8. PICK u : /\ aPoint' = <<u>> /\ u.curve = k.curve /\ u.id = k.id /\ u.from = i
                       /\ u.length = KeyObjects!PointLength(u.curve, u.form)
          BY <4>1
        <4>9. PointIsRight(u)'
          BY <2>0, <4>1, <4>6, <4>7, <4>8 DEF PointIsRight
        <4> QED
          BY <1>2, <4>1, <4>8, <4>9 DEF KeyIInv
      <3> QED
        BY <3>1, <3>2
    <2>11. ASSUME NEW i \in DOMAIN aKeys, NEW pwd \in Passwords, KeyObjects!PrivateKeyToPem(i, pwd)
           PROVE  KeyIInv'
      <3> DEFINE p == [key |-> aKeys[i], encrypted |-> KeyObjects!Cipher(pwd), password |-> pwd]
      <3>1. aPem' = <<p>> /\ aException' = "none" /\ UNCHANGED <<aKeys, aPoint, aLastRead>>
        BY <2>11 DEF KeyObjects!PrivateKeyToPem
      <3>2. pwd \in Seq(Nat)
        BY AsymmetricAssumption DEF KeyObjects!KeyAssumption
      <3>3. KeyObjects!Cipher(pwd) \in BOOLEAN /\ (KeyObjects!Cipher(pwd) <=> pwd # <<>>)
        BY <3>2, EmptySeq DEF KeyObjects!Cipher
      <3>4. p \in PemSet /\ p.password = pwd /\ p.encrypted = KeyObjects!Cipher(pwd)
        BY <2>0, <3>2, <3>3 DEF PemSet
      <3> HIDE DEF p
      <3>5. PemIsRight(p)
        BY <3>3, <3>4, Zenon DEF PemIsRight
      <3>6. \A t : PointIsRight(t)' <=> PointIsRight(t)
        BY <3>1 DEF PointIsRight
      <3> QED
        BY <1>2, <3>1, <3>5, <3>6 DEF KeyIInv
    <2>12. CASE UNCHANGED KeyObjects!vars
      BY <1>2, <2>12, FailsKeeps DEF KeyObjects!vars, KeyIInv
    <2> QED
      BY <1>2, <2>4, <2>5, <2>6, <2>7, <2>8, <2>9, <2>10, <2>11, <2>12 DEF KeyObjects!Next
  <1> QED
    BY <1>1, <1>2, PTL DEF KeyObjects!Spec
-----------------------------------------------------------------------------
(* Numbers and their bytes. *)

Less == {ss \in Nat \X Nat : ss[1] < ss[2]}

(* A set of naturals that is not empty has a least element. *)
LEMMA LeastNumber ==
    ASSUME NEW T \in SUBSET Nat, T # {}
    PROVE  \E x \in T : \A y \in T : x <= y
  <1>1. IsWellFoundedOn(Less, Nat)
    BY NatLessThanWellFounded DEF OpToRel, Less
  <1>2. PICK x \in T : \A y \in T : <<y, x>> \notin Less
    <2>1. T \subseteq Nat
      OBVIOUS
    <2> QED
      BY <1>1, <2>1, WFMin
  <1>3. ASSUME NEW y \in T PROVE x <= y
    <2>1. x \in Nat /\ y \in Nat
      OBVIOUS
    <2>2. <<y, x>> \in Nat \X Nat /\ <<y, x>>[1] = y /\ <<y, x>>[2] = x
      BY <2>1
    <2>3. ~(y < x)
      BY <1>2, <2>2 DEF Less
    <2> QED
      BY <2>1, <2>3
  <1> QED
    BY <1>3
(* A function of numbers on 0 .. n can be computed step by step. *)
LEMMA StepsExist ==
    ASSUME NEW x \in Nat, NEW n \in Nat, NEW h \in [(1 .. n) \X Nat -> Nat]
    PROVE  \E f \in [0 .. n -> Nat] : f[0] = x /\ \A i \in 1 .. n : f[i] = h[<<i, f[i - 1]>>]
  <1> DEFINE Computes(f, m) == /\ f \in [0 .. m -> Nat] /\ f[0] = x
                               /\ \A i \in 1 .. m : f[i] = h[<<i, f[i - 1]>>]
             Without == {m \in Nat : m <= n /\ ~ \E f : Computes(f, m)}
  <1>1. Without = {}
    <2> SUFFICES ASSUME Without # {} PROVE FALSE
      OBVIOUS
    <2>1. PICK m \in Without : \A k \in Without : m <= k
      BY LeastNumber
    <2>2. m # 0
      <3>1. Computes([i \in 0 .. 0 |-> x], 0)
        OBVIOUS
      <3> QED
        BY <3>1
    <2>3. m - 1 \in Nat /\ m - 1 \notin Without
      <3>1. m \in Nat /\ m - 1 \in Nat /\ ~(m <= m - 1)
        BY <2>2
      <3> HIDE DEF Without
      <3> QED
        BY <2>1, <3>1
    <2>4. PICK f : Computes(f, m - 1)
      BY <2>3
    <2> DEFINE g == [i \in 0 .. m |-> IF i = m THEN h[<<m, f[m - 1]>>] ELSE f[i]]
    <2>5. Computes(g, m)
      <3>1. m \in 1 .. n /\ m - 1 \in 0 .. m - 1
        BY <2>2, <2>3
      <3>2. h[<<m, f[m - 1]>>] \in Nat
        BY <2>4, <3>1
      <3>3. g \in [0 .. m -> Nat]
        <4> SUFFICES ASSUME NEW i \in 0 .. m
                     PROVE  (IF i = m THEN h[<<m, f[m - 1]>>] ELSE f[i]) \in Nat
          OBVIOUS
        <4>1. i # m => i \in 0 .. m - 1
          BY <2>3
        <4> QED
          BY <2>4, <3>2, <4>1
      <3>4. g[0] = x
        BY <2>2, <2>3, <2>4
      <3>5. ASSUME NEW i \in 1 .. m PROVE g[i] = h[<<i, g[i - 1]>>]
        <4>1. i - 1 \in 0 .. m /\ i - 1 # m /\ g[i - 1] = f[i - 1]
          BY <2>3
        <4>2. i \in 0 .. m /\ g[i] = IF i = m THEN h[<<m, f[m - 1]>>] ELSE f[i]
          BY <2>3
        <4>3. CASE i = m
          <5>1. g[i] = h[<<i, f[i - 1]>>]
            BY <4>2, <4>3
          <5> HIDE DEF g
          <5> QED
            BY <4>1, <5>1
        <4>4. CASE i # m
          <5>1. i \in 1 .. m - 1
            BY <2>3, <4>4
          <5>2. f[i] = h[<<i, f[i - 1]>>]
            BY <2>4, <5>1
          <5>3. g[i] = f[i]
            BY <4>2, <4>4
          <5> HIDE DEF g
          <5> QED
            BY <4>1, <5>2, <5>3
        <4> QED
          BY <4>3, <4>4
      <3> QED
        BY <3>3, <3>4, <3>5
    <2> QED
      BY <2>5
  <1>2. \E f : Computes(f, n)
    <2>1. n \notin Without
      <3> HIDE DEF Without
      <3> QED
        BY <1>1
    <2>2. n <= n
      OBVIOUS
    <2> HIDE DEF Computes
    <2> QED
      BY <2>1, <2>2
  <1> QED
    BY <1>2

(* The radix, and division by it. *)
LEMMA DivisionByRadix ==
    ASSUME NEW n \in Nat
    PROVE  /\ Radix \in Nat /\ Radix > 1
           /\ n \div Radix \in Nat /\ n % Radix \in 0 .. Radix - 1
           /\ n = (n \div Radix) * Radix + (n % Radix)
  <1>1. Radix \in Nat /\ Radix > 1
    BY AsymmetricAssumption DEF Signing!SignatureAssumption
  <1> QED
    BY <1>1

(* Division keeps the order of numbers. *)
LEMMA DivisionIsMonotone ==
    ASSUME NEW a \in Nat, NEW b \in Nat, a <= b
    PROVE  a \div Radix <= b \div Radix
  <1>1. /\ Radix \in Nat /\ Radix > 1
        /\ a \div Radix \in Nat /\ a % Radix \in 0 .. Radix - 1
        /\ a = (a \div Radix) * Radix + (a % Radix)
    BY DivisionByRadix
  <1>2. /\ b \div Radix \in Nat /\ b % Radix \in 0 .. Radix - 1
        /\ b = (b \div Radix) * Radix + (b % Radix)
    BY DivisionByRadix
  <1> DEFINE p == a \div Radix
             q == b \div Radix
  <1>3. SUFFICES ASSUME q + 1 <= p PROVE FALSE
    BY <1>1, <1>2
  <1> HIDE DEF p, q
  <1>4. p \in Nat /\ q \in Nat
    BY <1>1, <1>2 DEF p, q
  <1>5. (q + 1) * Radix <= p * Radix
    BY <1>1, <1>3, <1>4
  <1>6. (q + 1) * Radix = q * Radix + Radix
    BY <1>1, <1>4
  <1>7. q * Radix \in Nat /\ p * Radix \in Nat
    BY <1>1, <1>4
  <1>8. a = p * Radix + (a % Radix) /\ b = q * Radix + (b % Radix)
    BY <1>1, <1>2 DEF p, q
  <1> QED
    BY <1>1, <1>2, <1>5, <1>6, <1>7, <1>8

(* Leading() divides step by step. *)
LEMMA LeadingSteps ==
    ASSUME NEW n \in Nat, NEW length \in Nat
    PROVE  /\ Signing!Leading(n, length) \in [0 .. length -> Nat]
           /\ Signing!Leading(n, length)[0] = n
           /\ \A j \in 1 .. length :
                 Signing!Leading(n, length)[j] = Signing!Leading(n, length)[j - 1] \div Radix
  <1> DEFINE h == [a \in (1 .. length) \X Nat |-> a[2] \div Radix]
  <1>1. h \in [(1 .. length) \X Nat -> Nat]
    <2> SUFFICES ASSUME NEW a \in (1 .. length) \X Nat PROVE a[2] \div Radix \in Nat
      OBVIOUS
    <2> QED
      BY DivisionByRadix
  <1>2. PICK f \in [0 .. length -> Nat] :
            f[0] = n /\ \A i \in 1 .. length : f[i] = h[<<i, f[i - 1]>>]
    <2> HIDE DEF h
    <2> QED
      BY <1>1, StepsExist
  <1>3. ASSUME NEW i \in 1 .. length PROVE f[i] = f[i - 1] \div Radix
    <2>1. f[i - 1] \in Nat
      OBVIOUS
    <2> QED
      BY <1>2, <2>1
  <1> DEFINE Fix(c) == c = [j \in 0 .. length |-> IF j = 0 THEN n ELSE c[j - 1] \div Radix]
             cut    == CHOOSE c : Fix(c)
  <1>4. Fix(f)
    <2>1. ASSUME NEW j \in 0 .. length
          PROVE  f[j] = IF j = 0 THEN n ELSE f[j - 1] \div Radix
      BY <1>2, <1>3
    <2> HIDE DEF h
    <2> QED
      BY <2>1
  <1>5. Fix(cut)
    BY <1>4
  <1>6. Signing!Leading(n, length) = cut
    BY DEF Signing!Leading
  <1> HIDE DEF cut, Fix
  <1>7. cut = [j \in 0 .. length |-> IF j = 0 THEN n ELSE cut[j - 1] \div Radix]
    BY <1>5 DEF Fix
  <1>8. \A j \in 0 .. length : cut[j] = IF j = 0 THEN n ELSE cut[j - 1] \div Radix
    BY <1>7
  <1>9. \A j \in 0 .. length : cut[j] = f[j]
    <2> DEFINE Differ == {j \in Nat : j <= length /\ cut[j] # f[j]}
    <2>1. Differ = {}
      <3> SUFFICES ASSUME Differ # {} PROVE FALSE
        OBVIOUS
      <3>1. PICK j \in Differ : \A k \in Differ : j <= k
        BY LeastNumber
      <3>2. j # 0
        BY <1>2, <1>8
      <3>3. j - 1 \in Nat /\ j - 1 \notin Differ
        <4>1. j - 1 \in Nat /\ ~(j <= j - 1)
          BY <3>2
        <4> HIDE DEF Differ
        <4> QED
          BY <3>1, <4>1
      <3>4. cut[j - 1] = f[j - 1]
        BY <3>3
      <3>5. cut[j] = cut[j - 1] \div Radix /\ f[j] = f[j - 1] \div Radix
        BY <1>3, <1>8, <3>2
      <3> QED
        BY <3>4, <3>5
    <2> QED
      BY <2>1
  <1>10. cut \in [0 .. length -> Nat]
    BY <1>7, <1>9
  <1> QED
    BY <1>2, <1>3, <1>6, <1>9, <1>10

(* A smaller number fits where a larger one does. *)
LEMMA SmallerFits ==
    ASSUME NEW a \in Nat, NEW b \in Nat, a <= b, NEW length \in Nat,
           Signing!FitsBytes(b, length)
    PROVE  Signing!FitsBytes(a, length)
  <1> DEFINE p == Signing!Leading(a, length)
             q == Signing!Leading(b, length)
             Larger == {j \in Nat : j <= length /\ ~(p[j] <= q[j])}
  <1>1. /\ p \in [0 .. length -> Nat] /\ p[0] = a
        /\ \A j \in 1 .. length : p[j] = p[j - 1] \div Radix
    BY LeadingSteps
  <1>2. /\ q \in [0 .. length -> Nat] /\ q[0] = b
        /\ \A j \in 1 .. length : q[j] = q[j - 1] \div Radix
    BY LeadingSteps
  <1>3. q[length] = 0
    BY DEF Signing!FitsBytes
  <1>4. p[length] = 0 => Signing!FitsBytes(a, length)
    BY DEF Signing!FitsBytes
  <1> HIDE DEF p, q
  <1>5. Larger = {}
    <2> SUFFICES ASSUME Larger # {} PROVE FALSE
      OBVIOUS
    <2>1. PICK j \in Larger : \A k \in Larger : j <= k
      BY LeastNumber
    <2>2. j # 0
      BY <1>1, <1>2
    <2>3. j - 1 \in Nat /\ j - 1 \notin Larger
      <3>1. j - 1 \in Nat /\ ~(j <= j - 1)
        BY <2>2
      <3> HIDE DEF Larger
      <3> QED
        BY <2>1, <3>1
    <2>4. p[j - 1] <= q[j - 1] /\ p[j - 1] \in Nat /\ q[j - 1] \in Nat
      BY <1>1, <1>2, <2>3
    <2>5. p[j - 1] \div Radix <= q[j - 1] \div Radix
      BY <2>4, DivisionIsMonotone
    <2>6. j \in 1 .. length
      BY <2>2
    <2>7. p[j] = p[j - 1] \div Radix /\ q[j] = q[j - 1] \div Radix
      BY <1>1, <1>2, <2>6
    <2> QED
      BY <2>5, <2>7
  <1>6. p[length] <= q[length] /\ p[length] \in Nat
    <2>1. length \notin Larger
      BY <1>5
    <2> QED
      BY <1>1, <2>1
  <1> QED
    BY <1>3, <1>4, <1>6

(* BN_bn2binpad() makes as many bytes as it is asked for. *)
LEMMA PaddedBytes ==
    ASSUME NEW n \in Nat, NEW length \in Nat
    PROVE  /\ Signing!BN_bn2binpad(n, length) \in Seq(Signing!Bytes)
           /\ Len(Signing!BN_bn2binpad(n, length)) = length
           /\ \A i \in 1 .. length : Signing!BN_bn2binpad(n, length)[i]
                                        = Signing!Leading(n, length)[length - i] % Radix
  <1> DEFINE p == Signing!Leading(n, length)
  <1>1. p \in [0 .. length -> Nat]
    BY LeadingSteps
  <1>2. Signing!BN_bn2binpad(n, length) = [i \in 1 .. length |-> p[length - i] % Radix]
    BY DEF Signing!BN_bn2binpad
  <1> HIDE DEF p
  <1>3. ASSUME NEW i \in 1 .. length PROVE p[length - i] % Radix \in Signing!Bytes
    <2>1. length - i \in 0 .. length
      OBVIOUS
    <2>2. p[length - i] \in Nat
      BY <1>1, <2>1
    <2> QED
      BY <2>2, DivisionByRadix DEF Signing!Bytes
  <1>4. [i \in 1 .. length |-> p[length - i] % Radix] \in [1 .. length -> Signing!Bytes]
    BY <1>3
  <1>5. [i \in 1 .. length |-> p[length - i] % Radix] \in Seq(Signing!Bytes)
    BY <1>4
  <1> QED
    BY <1>2, <1>5 DEF p

(* BN_bin2bn() reads byte by byte. *)
LEMMA ReadSteps ==
    ASSUME NEW bytes \in Seq(Signing!Bytes)
    PROVE  \E f \in [0 .. Len(bytes) -> Nat] :
              /\ f[0] = 0
              /\ \A i \in 1 .. Len(bytes) : f[i] = f[i - 1] * Radix + bytes[i]
              /\ Signing!BN_bin2bn(bytes) = f[Len(bytes)]
  <1> DEFINE length == Len(bytes)
             h == [a \in (1 .. length) \X Nat |-> a[2] * Radix + bytes[a[1]]]
  <1>1. length \in Nat
    BY LenProperties
  <1>2. Radix \in Nat /\ Radix > 1
    BY DivisionByRadix
  <1>3. ASSUME NEW i \in 1 .. length PROVE bytes[i] \in Nat
    <2>1. bytes[i] \in Signing!Bytes
      BY ElementOfSeq
    <2> QED
      BY <1>2, <2>1 DEF Signing!Bytes
  <1>n. Signing!BN_bin2bn(bytes) = (CHOOSE c : c = [j \in 0 .. Len(bytes) |->
                          IF j = 0 THEN 0 ELSE c[j - 1] * Radix + bytes[j]])[Len(bytes)]
    BY DEF Signing!BN_bin2bn
  <1> HIDE DEF length
  <1>4. h \in [(1 .. length) \X Nat -> Nat]
    <2> SUFFICES ASSUME NEW a \in (1 .. length) \X Nat
                 PROVE  a[2] * Radix + bytes[a[1]] \in Nat
      OBVIOUS
    <2>1. a[2] \in Nat /\ bytes[a[1]] \in Nat
      BY <1>3
    <2>2. a[2] * Radix \in Nat
      BY <1>2, <2>1
    <2> QED
      BY <2>1, <2>2
  <1>5. PICK f \in [0 .. length -> Nat] :
            f[0] = 0 /\ \A i \in 1 .. length : f[i] = h[<<i, f[i - 1]>>]
    <2> HIDE DEF h
    <2>1. \A x \in Nat : \E f \in [0 .. length -> Nat] :
              f[0] = x /\ \A i \in 1 .. length : f[i] = h[<<i, f[i - 1]>>]
      BY <1>1, <1>4, StepsExist
    <2> QED
      BY <2>1
  <1>6. ASSUME NEW i \in 1 .. length PROVE f[i] = f[i - 1] * Radix + bytes[i]
    <2>1. f[i - 1] \in Nat
      BY <1>1
    <2> QED
      BY <1>5, <2>1
  <1> DEFINE Fix(c) == c = [j \in 0 .. length |->
                               IF j = 0 THEN 0 ELSE c[j - 1] * Radix + bytes[j]]
             upTo == CHOOSE c : Fix(c)
  <1>7. Fix(f)
    <2>1. ASSUME NEW j \in 0 .. length
          PROVE  f[j] = IF j = 0 THEN 0 ELSE f[j - 1] * Radix + bytes[j]
      <3>1. CASE j = 0
        BY <1>5, <3>1
      <3>2. CASE j # 0
        <4>1. j \in 1 .. length
          BY <1>1, <3>2
        <4> QED
          BY <1>6, <3>2, <4>1
      <3> QED
        BY <3>1, <3>2
    <2> HIDE DEF h
    <2> QED
      BY <2>1
  <1>8. Fix(upTo)
    BY <1>7
  <1>9. Signing!BN_bin2bn(bytes) = upTo[length]
    BY <1>n DEF length
  <1> HIDE DEF upTo, Fix, h
  <1>10. upTo = [j \in 0 .. length |-> IF j = 0 THEN 0 ELSE upTo[j - 1] * Radix + bytes[j]]
    BY <1>8 DEF Fix
  <1>11. \A j \in 0 .. length :
            upTo[j] = IF j = 0 THEN 0 ELSE upTo[j - 1] * Radix + bytes[j]
    BY <1>10
  <1> DEFINE Differ == {j \in Nat : j <= length /\ upTo[j] # f[j]}
  <1>12. Differ = {}
    <2> SUFFICES ASSUME Differ # {} PROVE FALSE
      OBVIOUS
    <2>1. PICK j \in Differ : \A k \in Differ : j <= k
      BY LeastNumber
    <2>2. j # 0
      BY <1>1, <1>5, <1>11
    <2>3. j - 1 \in Nat /\ j - 1 \notin Differ
      <3>1. j - 1 \in Nat /\ ~(j <= j - 1)
        BY <2>2
      <3> HIDE DEF Differ
      <3> QED
        BY <2>1, <3>1
    <2>4. upTo[j - 1] = f[j - 1] /\ j \in 1 .. length /\ j \in 0 .. length
      BY <1>1, <2>2, <2>3
    <2>5. upTo[j] = upTo[j - 1] * Radix + bytes[j]
      BY <1>11, <2>2, <2>4
    <2>6. f[j] = f[j - 1] * Radix + bytes[j]
      BY <1>6, <2>4
    <2> QED
      BY <2>4, <2>5, <2>6
  <1>13. upTo[length] = f[length]
    <2>1. length \notin Differ
      BY <1>12
    <2> QED
      BY <1>1, <2>1
  <1>14. /\ f \in [0 .. length -> Nat] /\ f[0] = 0
         /\ \A i \in 1 .. length : f[i] = f[i - 1] * Radix + bytes[i]
         /\ Signing!BN_bin2bn(bytes) = f[length]
    BY <1>5, <1>6, <1>9, <1>13
  <1> QED
    BY <1>14 DEF length

(* BN_bin2bn() reads what BN_bn2binpad() wrote. *)
LEMMA PaddingIsRead ==
    ASSUME NEW n \in Nat, NEW length \in Nat, Signing!FitsBytes(n, length)
    PROVE  Signing!BN_bin2bn(Signing!BN_bn2binpad(n, length)) = n
  <1> DEFINE p == Signing!Leading(n, length)
             b == Signing!BN_bn2binpad(n, length)
  <1>1. /\ p \in [0 .. length -> Nat] /\ p[0] = n
        /\ \A j \in 1 .. length : p[j] = p[j - 1] \div Radix
    BY LeadingSteps
  <1>2. p[length] = 0
    BY DEF Signing!FitsBytes
  <1>3. /\ b \in Seq(Signing!Bytes) /\ Len(b) = length
        /\ \A i \in 1 .. length : b[i] = p[length - i] % Radix
    BY PaddedBytes
  <1> HIDE DEF p, b
  <1>4. PICK f \in [0 .. length -> Nat] :
            /\ f[0] = 0
            /\ \A i \in 1 .. length : f[i] = f[i - 1] * Radix + b[i]
            /\ Signing!BN_bin2bn(b) = f[length]
    BY <1>3, ReadSteps
  <1> DEFINE Wrong == {i \in Nat : i <= length /\ f[i] # p[length - i]}
  <1>5. Wrong = {}
    <2> SUFFICES ASSUME Wrong # {} PROVE FALSE
      OBVIOUS
    <2>1. PICK i \in Wrong : \A k \in Wrong : i <= k
      BY LeastNumber
    <2>2. i # 0
      BY <1>2, <1>4
    <2>3. i - 1 \in Nat /\ i - 1 \notin Wrong
      <3>1. i - 1 \in Nat /\ ~(i <= i - 1)
        BY <2>2
      <3> HIDE DEF Wrong
      <3> QED
        BY <2>1, <3>1
    <2>4. /\ i \in 1 .. length /\ length - i \in 0 .. length
          /\ length - (i - 1) \in 1 .. length /\ (length - (i - 1)) - 1 = length - i
      BY <2>2
    <2>5. f[i - 1] = p[length - (i - 1)]
      BY <2>3, <2>4
    <2>6. p[length - (i - 1)] = p[length - i] \div Radix
      BY <1>1, <2>4
    <2>7. b[i] = p[length - i] % Radix /\ p[length - i] \in Nat
      BY <1>1, <1>3, <2>4
    <2>8. f[i] = f[i - 1] * Radix + b[i]
      BY <1>4, <2>4
    <2>9. f[i] = (p[length - i] \div Radix) * Radix + (p[length - i] % Radix)
      BY <2>5, <2>6, <2>7, <2>8
    <2>10. f[i] = p[length - i]
      BY <2>7, <2>9, DivisionByRadix
    <2> QED
      BY <2>10
  <1>6. f[length] = p[0]
    <2>1. length \notin Wrong
      <3> HIDE DEF Wrong
      <3> QED
        BY <1>5
    <2> QED
      BY <2>1
  <1> QED
    BY <1>1, <1>4, <1>6 DEF b

(* The size of a key in bytes is the least that holds its bits. *)
LEMMA KeySizeIs ==
    ASSUME NEW key \in SignKeys
    PROVE  /\ Signing!KeySizeBytes(key) \in Nat
           /\ (CHOOSE n \in 1 .. SignBits[key] : /\ ByteBits * n >= SignBits[key]
                                                 /\ ByteBits * (n - 1) < SignBits[key])
                = Signing!KeySizeBytes(key)
  <1> DEFINE bits == SignBits[key]
             k == Signing!KeySizeBytes(key)
             Least(n) == ByteBits * n >= bits /\ ByteBits * (n - 1) < bits
  <1>1. ByteBits \in Nat /\ ByteBits >= 1 /\ bits \in Nat /\ bits >= 1
    BY AsymmetricAssumption DEF Signing!SignatureAssumption
  <1>2. k = (bits + ByteBits - 1) \div ByteBits
    BY DEF Signing!KeySizeBytes
  <1> HIDE DEF bits, k
  <1> DEFINE r == (bits + ByteBits - 1) % ByteBits
  <1>3. k \in Nat /\ r \in 0 .. ByteBits - 1 /\ bits + ByteBits - 1 = ByteBits * k + r
    BY <1>1, <1>2
  <1> HIDE DEF r
  <1>4. ByteBits * (k - 1) = ByteBits * k - ByteBits /\ ByteBits * k \in Nat
    BY <1>1, <1>3
  <1>5. Least(k)
    BY <1>1, <1>3, <1>4
  <1>6. k >= 1
    <2> SUFFICES ASSUME k = 0 PROVE FALSE
      BY <1>3
    <2>1. ByteBits * k = 0
      BY <1>1
    <2> QED
      BY <1>1, <1>3, <2>1
  <1>7. k <= bits
    <2> SUFFICES ASSUME bits <= k - 1 PROVE FALSE
      BY <1>1, <1>3
    <2>1. 1 * (k - 1) <= ByteBits * (k - 1)
      BY <1>1, <1>3, <1>6
    <2>2. 1 * (k - 1) = k - 1 /\ ByteBits * (k - 1) < bits
      BY <1>3, <1>5
    <2> QED
      BY <1>1, <1>3, <1>4, <2>1, <2>2
  <1>8. ASSUME NEW n \in 1 .. bits, Least(n) PROVE n = k
    <2>1. ASSUME NEW a \in Nat, NEW b \in Nat, a >= 1, b >= 1, a <= b - 1, Least(a), Least(b)
          PROVE  FALSE
      <3>1. ByteBits * a <= ByteBits * (b - 1)
        BY <1>1, <2>1
      <3>2. ByteBits * a \in Nat /\ ByteBits * (b - 1) \in Nat
        BY <1>1, <2>1
      <3> QED
        BY <1>1, <2>1, <3>1, <3>2
    <2>2. n \in Nat /\ n >= 1
      BY <1>1
    <2> HIDE DEF Least
    <2>3. ~(n <= k - 1) /\ ~(k <= n - 1)
      BY <1>3, <1>5, <1>6, <1>8, <2>1, <2>2
    <2> QED
      BY <1>3, <2>2, <2>3
  <1>9. k \in 1 .. bits
    BY <1>1, <1>3, <1>6, <1>7
  <1> HIDE DEF Least
  <1>10. (CHOOSE n \in 1 .. bits : Least(n)) = k
    BY <1>5, <1>8, <1>9
  <1> QED
    BY <1>3, <1>10 DEF Least, bits, k

(* What a signing call leaves behind.  The numbers of ECDSA are below the  *)
(* order of the curve, and the digest has the size of the context's hash.  *)
MadeByContext ==
    \/ sMade = Signing!NoSignature /\ sSignature = Signing!NoSignature
    \/ /\ sPrivateCtx \in Signing!RsaCtxs
       /\ \E digest \in Signing!AllDigests :
            /\ sMade = [form |-> "rsa", key |-> sPrivateCtx.key, digest |-> digest,
                        config |-> Signing!PrepareOpenSSLContext(sPrivateCtx)]
            /\ Signing!DigestCheckEnd(sPrivateCtx.hash, digest) = "ok"
       /\ sSignature = sMade
       /\ Signing!PrepareFindsDigests(sPrivateCtx)
    \/ /\ sPrivateCtx \in Signing!EcdsaCtxs
       /\ \E digest \in Signing!AllDigests, r, s \in Nat :
            /\ r < Order[sPrivateCtx.key] /\ s < Order[sPrivateCtx.key]
            /\ sMade = [form |-> "ecdsa", key |-> sPrivateCtx.key, digest |-> digest,
                        r |-> r, s |-> s]
            /\ sSignature = Signing!EcdsaSignature(sPrivateCtx, r, s)
            /\ Signing!DigestCheckEnd(sPrivateCtx.hash, digest) = "ok"
    \/ /\ sPrivateCtx \in Signing!EddsaCtxs
       /\ \E message \in Messages :
            sMade = [form |-> "ed", key |-> sPrivateCtx.key, digest |-> message]
       /\ sSignature = sMade

(* The inductive invariant of signatures. *)
SignatureIInv ==
    /\ sPrivateCtx \in Signing!Contexts \union {Signing!NoCtx}
    /\ sPublicCtx \in Signing!Contexts \union {Signing!NoCtx}
    /\ MadeByContext
    /\ Signing!AcceptedWasSigned
    /\ Signing!OwnSignatureAccepted

(* Raw signatures are read as the numbers they were made of. *)
LEMMA RawIsRead ==
    ASSUME NEW key \in SignKeys, SignKeyType[key] = "ECC",
           NEW r \in Nat, NEW s \in Nat, r < Order[key], s < Order[key],
           NEW bytes, bytes = Signing!IEEE1363(r, s, Signing!KeySizeBytes(key))
    PROVE  /\ bytes \in Seq(Signing!Bytes) /\ Len(bytes) = 2 * Signing!KeySizeBytes(key)
           /\ Signing!BN_bin2bn(SubSeq(bytes, 1, Signing!KeySizeBytes(key))) = r
           /\ Signing!BN_bin2bn(SubSeq(bytes, Signing!KeySizeBytes(key) + 1,
                                       2 * Signing!KeySizeBytes(key))) = s
  <1> DEFINE k == Signing!KeySizeBytes(key)
             x == Signing!BN_bn2binpad(r, k)
             y == Signing!BN_bn2binpad(s, k)
  <1>1. k \in Nat
    BY KeySizeIs
  <1>2. Signing!FitsBytes(Order[key], k) /\ Order[key] \in Nat
    BY AsymmetricAssumption DEF Signing!OrdersFit, Signing!SignatureAssumption
  <1> HIDE DEF k
  <1>3. Signing!FitsBytes(r, k) /\ Signing!FitsBytes(s, k)
    BY <1>1, <1>2, SmallerFits
  <1>4. x \in Seq(Signing!Bytes) /\ Len(x) = k /\ y \in Seq(Signing!Bytes) /\ Len(y) = k
    BY <1>1, PaddedBytes
  <1>5. Signing!BN_bin2bn(x) = r /\ Signing!BN_bin2bn(y) = s
    BY <1>1, <1>3, PaddingIsRead
  <1>6. bytes = x \o y
    BY DEF Signing!IEEE1363, k
  <1> HIDE DEF x, y
  <1>7. bytes \in Seq(Signing!Bytes) /\ Len(bytes) = 2 * k
    <2>1. bytes \in Seq(Signing!Bytes) /\ Len(bytes) = Len(x) + Len(y)
      BY <1>4, <1>6, ConcatProperties
    <2> QED
      BY <1>1, <1>4, <2>1
  <1>8. SubSeq(bytes, 1, k) = x
    BY <1>1, <1>4, <1>6
  <1>9. SubSeq(bytes, k + 1, 2 * k) = y
    BY <1>1, <1>4, <1>6
  <1> QED
    BY <1>5, <1>7, <1>8, <1>9 DEF k

(* The invariant implies what is checked of signatures. *)
LEMMA SignatureIInvSuffices == SignatureIInv => SignaturesAreSound
  <1> SUFFICES ASSUME SignatureIInv PROVE SignaturesAreSound
    OBVIOUS
  <1>1. MadeByContext
    BY DEF SignatureIInv
  <1>2. /\ sMade.form \in {"none", "rsa", "ecdsa", "ed"}
        /\ sSignature.form \in {"none", "rsa", "asn1", "bytes", "ed"}
        /\ sSignature.form = "bytes" =>
              /\ sPrivateCtx \in Signing!EcdsaCtxs
              /\ \E r, s \in Nat :
                    /\ r < Order[sPrivateCtx.key] /\ s < Order[sPrivateCtx.key]
                    /\ sMade.key = sPrivateCtx.key /\ sMade.r = r /\ sMade.s = s
                    /\ sSignature.bytes
                         = Signing!IEEE1363(r, s, Signing!KeySizeBytes(sPrivateCtx.key))
    BY <1>1 DEF MadeByContext, Signing!EcdsaSignature, Signing!NoSignature
  <1>3. ASSUME sSignature.form = "bytes"
        PROVE  sSignature.bytes \in Seq(Signing!Bytes) /\ Signing!RawSignatureIsPadded
    <2>1. PICK r, s \in Nat :
                    /\ r < Order[sPrivateCtx.key] /\ s < Order[sPrivateCtx.key]
                    /\ sMade.key = sPrivateCtx.key /\ sMade.r = r /\ sMade.s = s
                    /\ sSignature.bytes
                         = Signing!IEEE1363(r, s, Signing!KeySizeBytes(sPrivateCtx.key))
      BY <1>2, <1>3
    <2> DEFINE key == sPrivateCtx.key
    <2>2. key \in SignKeys /\ SignKeyType[key] = "ECC"
      BY <1>2, <1>3 DEF Signing!EcdsaCtxs
    <2> HIDE DEF key
    <2>3. /\ sSignature.bytes \in Seq(Signing!Bytes)
          /\ Len(sSignature.bytes) = 2 * Signing!KeySizeBytes(key)
          /\ Signing!BN_bin2bn(SubSeq(sSignature.bytes, 1, Signing!KeySizeBytes(key))) = r
          /\ Signing!BN_bin2bn(SubSeq(sSignature.bytes, Signing!KeySizeBytes(key) + 1,
                                       2 * Signing!KeySizeBytes(key))) = s
      BY <2>1, <2>2, RawIsRead DEF key
    <2>4. (CHOOSE n \in 1 .. SignBits[key] : /\ ByteBits * n >= SignBits[key]
                                             /\ ByteBits * (n - 1) < SignBits[key])
                = Signing!KeySizeBytes(key)
      BY <2>2, KeySizeIs
    <2>5. sMade.key = key /\ sMade.r = r /\ sMade.s = s
      BY <2>1 DEF key
    <2> QED
      BY <2>3, <2>4, <2>5 DEF Signing!RawSignatureIsPadded
  <1>4. sSignature.form # "bytes" => Signing!RawSignatureIsPadded
    BY DEF Signing!RawSignatureIsPadded
  <1> QED
    BY <1>2, <1>3, <1>4 DEF SignatureIInv, SignaturesAreSound, Signing!TypeOK

(* A call that is no verification leaves an outcome that promises nothing. *)
LEMMA NoVerdict ==
    ASSUME sOutcome'.op # "verify"
    PROVE  Signing!AcceptedWasSigned' /\ Signing!OwnSignatureAccepted'
BY DEF Signing!AcceptedWasSigned, Signing!OwnSignatureAccepted, Signing!Verified

(* Nothing is signed before there is a private context. *)
LEMMA NothingSignedEarly ==
    ASSUME SignatureIInv, sPrivateCtx = Signing!NoCtx
    PROVE  sMade = Signing!NoSignature /\ sSignature = Signing!NoSignature
BY DEF SignatureIInv, MadeByContext, Signing!NoCtx, Signing!RsaCtxs, Signing!EcdsaCtxs,
       Signing!EddsaCtxs

(* Constructors put contexts of their algorithm in place. *)
LEMMA ConstructStep ==
    ASSUME SignatureIInv, NEW obj \in Signing!Contexts,
           Signing!ConstructPrivate(obj) \/ Signing!ConstructPublic(obj)
    PROVE  SignatureIInv'
  <1>1. sOutcome'.op # "verify"
    BY DEF Signing!ConstructPrivate, Signing!ConstructPublic
  <1>2. /\ sPrivateCtx' \in Signing!Contexts \union {Signing!NoCtx}
        /\ sPublicCtx' \in Signing!Contexts \union {Signing!NoCtx}
    BY DEF SignatureIInv, Signing!ConstructPrivate, Signing!ConstructPublic
  <1>3. sMade' = sMade /\ sSignature' = sSignature
    BY DEF Signing!ConstructPrivate, Signing!ConstructPublic
  <1>4. MadeByContext'
    <2>1. CASE Signing!ConstructPrivate(obj)
      <3>1. sMade = Signing!NoSignature /\ sSignature = Signing!NoSignature
        BY <2>1, NothingSignedEarly DEF Signing!ConstructPrivate
      <3> QED
        BY <1>3, <3>1 DEF MadeByContext
    <2>2. CASE Signing!ConstructPublic(obj)
      <3>1. sPrivateCtx' = sPrivateCtx /\ MadeByContext
        BY <2>2 DEF Signing!ConstructPublic, SignatureIInv
      <3> QED
        BY <1>3, <3>1 DEF MadeByContext
    <2> QED
      BY <2>1, <2>2
  <1> QED
    BY <1>1, <1>2, <1>4, NoVerdict DEF SignatureIInv

(* The constructors of old callers know the same two formats. *)
LEMMA OldFormats ==
    ASSUME NEW i \in 1 .. 2
    PROVE  Signing!SDAtoDSASignatureFormat(Signing!ECSDASignatureFormat[i])
              = Signing!ECDSASignatureFormat[i]
  <1> DEFINE Same(j) == Signing!ECSDASignatureFormat[j] = Signing!ECSDASignatureFormat[i]
  <1>1. DOMAIN Signing!ECSDASignatureFormat = 1 .. 2
    BY DEF Signing!ECSDASignatureFormat
  <1>2. \A j \in 1 .. 2 : Same(j) => j = i
    BY DEF Signing!ECSDASignatureFormat
  <1>3. Same(i)
    OBVIOUS
  <1>4. Signing!SDAtoDSASignatureFormat(Signing!ECSDASignatureFormat[i])
          = Signing!ECDSASignatureFormat[CHOOSE j \in 1 .. 2 : Same(j)]
    BY <1>1 DEF Signing!SDAtoDSASignatureFormat
  <1> HIDE DEF Same
  <1>5. (CHOOSE j \in 1 .. 2 : Same(j)) = i
    BY <1>2, <1>3
  <1> QED
    BY <1>4, <1>5

(* signDigest() of RSA *)
LEMMA RsaSignStep ==
    ASSUME SignatureIInv, NEW digest \in Signing!AllDigests, Signing!RsaSignDigest(digest)
    PROVE  SignatureIInv'
  <1>1. /\ sOutcome'.op # "verify" /\ sPrivateCtx' = sPrivateCtx /\ sPublicCtx' = sPublicCtx
    BY DEF Signing!RsaSignDigest, Signing!SignFails, Signing!Signed
  <1>2. sPrivateCtx \in Signing!RsaCtxs
    BY DEF SignatureIInv, Signing!RsaSignDigest, Signing!Contexts, Signing!NoCtx,
           Signing!EcdsaCtxs, Signing!EddsaCtxs
  <1>3. \/ sMade' = sMade /\ sSignature' = sSignature
        \/ /\ Signing!DigestCheckEnd(sPrivateCtx.hash, digest) = "ok"
           /\ Signing!PrepareFindsDigests(sPrivateCtx)
           /\ sMade' = [form |-> "rsa", key |-> sPrivateCtx.key, digest |-> digest,
                        config |-> Signing!PrepareOpenSSLContext(sPrivateCtx)]
           /\ sSignature' = sMade'
    BY DEF Signing!RsaSignDigest, Signing!SignFails, Signing!Signed, Signing!RsaSignEnd,
           Signing!RsaSignature
  <1>4. MadeByContext'
    <2>1. CASE sMade' = sMade /\ sSignature' = sSignature
      BY <1>1, <2>1 DEF SignatureIInv, MadeByContext
    <2>2. CASE ~(sMade' = sMade /\ sSignature' = sSignature)
      BY <1>1, <1>2, <1>3, <2>2 DEF MadeByContext
    <2> QED
      BY <2>1, <2>2
  <1> QED
    BY <1>1, <1>4, NoVerdict DEF SignatureIInv

(* signDigest() of ECDSA *)
LEMMA EcdsaSignStep ==
    ASSUME SignatureIInv, NEW digest \in Signing!AllDigests, Signing!EcdsaSignDigest(digest)
    PROVE  SignatureIInv'
  <1>1. /\ sOutcome'.op # "verify" /\ sPrivateCtx' = sPrivateCtx /\ sPublicCtx' = sPublicCtx
    BY DEF Signing!EcdsaSignDigest, Signing!SignFails, Signing!Signed
  <1>2. sPrivateCtx \in Signing!EcdsaCtxs
    BY DEF SignatureIInv, Signing!EcdsaSignDigest, Signing!Contexts, Signing!NoCtx,
           Signing!RsaCtxs, Signing!EddsaCtxs
  <1>3. \/ sMade' = sMade /\ sSignature' = sSignature
        \/ /\ Signing!DigestCheckEnd(sPrivateCtx.hash, digest) = "ok"
           /\ \E r, s \in {n \in Numbers : n < Order[sPrivateCtx.key]} :
                /\ sMade' = [form |-> "ecdsa", key |-> sPrivateCtx.key, digest |-> digest,
                             r |-> r, s |-> s]
                /\ sSignature' = Signing!EcdsaSignature(sPrivateCtx, r, s)
    BY DEF Signing!EcdsaSignDigest, Signing!SignFails, Signing!Signed
  <1>4. Numbers \subseteq Nat
    BY AsymmetricAssumption DEF Signing!SignatureAssumption
  <1>5. MadeByContext'
    <2>1. CASE sMade' = sMade /\ sSignature' = sSignature
      BY <1>1, <2>1 DEF SignatureIInv, MadeByContext
    <2>2. CASE ~(sMade' = sMade /\ sSignature' = sSignature)
      BY <1>1, <1>2, <1>3, <1>4, <2>2 DEF MadeByContext
    <2> QED
      BY <2>1, <2>2
  <1> QED
    BY <1>1, <1>5, NoVerdict DEF SignatureIInv

(* signMessage() of all three *)
LEMMA MessageSignStep ==
    ASSUME SignatureIInv, NEW message \in Messages,
           Signing!SignMessage(message) \/ Signing!EddsaSignMessage(message)
    PROVE  SignatureIInv'
  <1>1. CASE Signing!SignMessage(message)
    <2>1. CASE sPrivateCtx.hash \in SignDigests
      <3>1. Signing!Digest(sPrivateCtx.hash, message) \in Signing!AllDigests
        BY <2>1 DEF Signing!Digest, Signing!AllDigests
      <3>2. \/ Signing!RsaSignDigest(Signing!Digest(sPrivateCtx.hash, message))
            \/ Signing!EcdsaSignDigest(Signing!Digest(sPrivateCtx.hash, message))
        BY <1>1, <2>1 DEF Signing!SignMessage, Signing!CreateHashEnd
      <3> QED
        BY <3>1, <3>2, RsaSignStep, EcdsaSignStep
    <2>2. CASE sPrivateCtx.hash \notin SignDigests
      <3>1. /\ sOutcome'.op # "verify" /\ sPrivateCtx' = sPrivateCtx
            /\ sPublicCtx' = sPublicCtx /\ sMade' = sMade /\ sSignature' = sSignature
        <4>1. Signing!SignFails("unknown hash") /\ UNCHANGED <<sPrivateCtx, sPublicCtx>>
          BY <1>1, <2>2 DEF Signing!SignMessage, Signing!CreateHashEnd
        <4> QED
          BY <4>1 DEF Signing!SignFails
      <3>2. MadeByContext'
        BY <3>1 DEF SignatureIInv, MadeByContext
      <3> QED
        BY <3>1, <3>2, NoVerdict DEF SignatureIInv
    <2> QED
      BY <2>1, <2>2
  <1>2. CASE Signing!EddsaSignMessage(message)
    <2>1. /\ sOutcome'.op # "verify" /\ sPrivateCtx' = sPrivateCtx
          /\ sPublicCtx' = sPublicCtx
          /\ sMade' = [form |-> "ed", key |-> sPrivateCtx.key, digest |-> message]
          /\ sSignature' = sMade'
      BY <1>2 DEF Signing!EddsaSignMessage, Signing!Signed
    <2>2. sPrivateCtx \in Signing!EddsaCtxs
      BY <1>2 DEF SignatureIInv, Signing!EddsaSignMessage, Signing!Contexts, Signing!NoCtx,
             Signing!RsaCtxs, Signing!EcdsaCtxs
    <2>3. MadeByContext'
      BY <2>1, <2>2 DEF MadeByContext
    <2> QED
      BY <2>1, <2>3, NoVerdict DEF SignatureIInv
  <1> QED
    BY <1>1, <1>2

(* What RSA accepts was signed with the key and the hash of the context. *)
LEMMA RsaAccepts ==
    ASSUME NEW obj \in Signing!RsaCtxs, NEW sig, NEW digest,
           Signing!RsaVerifyEnd(obj, sig, digest) = "ok"
    PROVE  /\ sMade # Signing!NoSignature /\ sMade.key = obj.key
           /\ sMade.digest = digest /\ sMade.config.md = obj.hash
  <1>1. Signing!RsaValid(obj.key, Signing!PrepareOpenSSLContext(obj), sig, digest)
    BY DEF Signing!RsaVerifyEnd, Signing!DigestCheckEnd
  <1>2. Signing!PrepareOpenSSLContext(obj).md = obj.hash
    BY DEF Signing!PrepareOpenSSLContext
  <1> QED
    BY <1>1, <1>2 DEF Signing!RsaValid, Signing!NoSignature

(* What ECDSA accepts was signed with the key of the context, has a digest *)
(* of the size of its hash, and the context's format.                      *)
LEMMA EcdsaAccepts ==
    ASSUME NEW obj \in Signing!EcdsaCtxs, NEW sig, NEW digest,
           Signing!EcdsaVerifyEnd(obj, sig, digest) = "ok"
    PROVE  /\ sMade # Signing!NoSignature /\ sMade.key = obj.key /\ sMade.digest = digest
           /\ SignDigestSize[digest.md] = SignDigestSize[obj.hash]
           /\ sig.form = "bytes" <=> obj.format = "IEEE1363"
  <1>1. PICK asn1 : /\ Signing!VerifyAsn1End(obj, asn1, digest) = "ok"
                    /\ obj.format = "IEEE1363" => sig.form = "bytes"
                    /\ obj.format # "IEEE1363" => asn1 = sig
    BY DEF Signing!EcdsaVerifyEnd
  <1>2. /\ Signing!DigestCheckEnd(obj.hash, digest) = "ok"
        /\ Signing!EcdsaValid(obj.key, asn1, digest)
    BY <1>1 DEF Signing!VerifyAsn1End
  <1>3. SignDigestSize[digest.md] = SignDigestSize[obj.hash]
    BY <1>2 DEF Signing!DigestCheckEnd
  <1> QED
    BY <1>1, <1>2, <1>3 DEF Signing!EcdsaValid, Signing!NoSignature

(* The hash of a context that passed its digest check is known. *)
LEMMA CheckedHash ==
    ASSUME NEW hash, NEW digest, Signing!DigestCheckEnd(hash, digest) = "ok"
    PROVE  hash \in SignDigests
BY DEF Signing!DigestCheckEnd

(* The salt of a prepared context is the one its padding means. *)
LEMMA SaltMeant ==
    ASSUME NEW obj \in Signing!RsaCtxs, obj.pad.mode = "pss", obj.hash \in SignDigests
    PROVE  Signing!ActualSalt(obj.key, Signing!PrepareOpenSSLContext(obj))
              = Signing!MeansSalt(obj)
  <1> DEFINE config == Signing!PrepareOpenSSLContext(obj)
  <1>1. SignDigestSize[obj.hash] \in Nat /\ noSalt \notin Int
    BY AsymmetricAssumption DEF Signing!SignatureAssumption
  <1>2. config.md = obj.hash
        /\ config.salt = IF obj.pad.salt = noSalt THEN SignDigestSize[obj.hash]
                         ELSE obj.pad.salt
    BY DEF Signing!PrepareOpenSSLContext
  <1> HIDE DEF config
  <1>3. CASE obj.pad.salt = noSalt
    <2>1. config.salt = SignDigestSize[obj.hash] /\ config.salt \notin {-1, -2, -3}
      BY <1>1, <1>2, <1>3
    <2>2. Signing!ActualSalt(obj.key, config) = SignDigestSize[obj.hash]
      BY <2>1 DEF Signing!ActualSalt
    <2>3. Signing!MeansSalt(obj) = SignDigestSize[obj.hash]
      BY <1>3 DEF Signing!MeansSalt
    <2> QED
      BY <2>2, <2>3 DEF config
  <1>4. CASE obj.pad.salt # noSalt
    <2>1. config.salt = obj.pad.salt
      BY <1>2, <1>4
    <2>2. Signing!ActualSalt(obj.key, config) = Signing!MeansSalt(obj)
      BY <1>2, <1>4, <2>1 DEF Signing!ActualSalt, Signing!MeansSalt
    <2> QED
      BY <2>2 DEF config
  <1> QED
    BY <1>3, <1>4

(* A prepared context has the mode and the hash of its padding, and the    *)
(* mask generation function that it means.                                 *)
LEMMA PreparedIs ==
    ASSUME NEW obj \in Signing!RsaCtxs
    PROVE  /\ Signing!PrepareOpenSSLContext(obj).mode = obj.pad.mode
           /\ Signing!PrepareOpenSSLContext(obj).md = obj.hash
           /\ obj.pad.mode = "pss" =>
                 /\ Signing!PrepareOpenSSLContext(obj).mgf = Signing!MeansMgf(obj)
                 /\ obj.pad.salt = -2 => Signing!PrepareOpenSSLContext(obj).salt = -2
  <1>1. noSalt \notin Int /\ -2 \in Int
    BY AsymmetricAssumption DEF Signing!SignatureAssumption
  <1>2. obj.pad.mode \in {"pkcs", "pss"}
    BY AsymmetricAssumption DEF Signing!SignatureAssumption, Signing!RsaCtxs
  <1> QED
    BY <1>1, <1>2 DEF Signing!PrepareOpenSSLContext, Signing!MeansMgf

(* RSA: a matching context accepts. *)
LEMMA RsaOwnAccepted ==
    ASSUME SignatureIInv, sSignature # Signing!NoSignature, Signing!Matching,
           sPublicCtx \in Signing!RsaCtxs
    PROVE  Signing!RsaVerifyEnd(sPublicCtx, sSignature, sMade.digest) = "ok"
  <1> DEFINE pub == sPublicCtx
             prv == sPrivateCtx
             config == Signing!PrepareOpenSSLContext(pub)
             own == Signing!PrepareOpenSSLContext(prv)
  <1>1. pub.alg = "RSA"
    BY DEF Signing!RsaCtxs
  <1>2. /\ prv.alg = "RSA" /\ pub.key = prv.key /\ pub.hash = prv.hash
        /\ pub.pad.mode = prv.pad.mode
        /\ pub.pad.mode = "pss" =>
                /\ Signing!MeansMgf(pub) = Signing!MeansMgf(prv)
                /\ \/ pub.pad.salt = -2
                   \/ Signing!MeansSalt(pub) = Signing!MeansSalt(prv)
    BY <1>1 DEF Signing!Matching
  <1>3. /\ prv \in Signing!RsaCtxs
        /\ sSignature = sMade /\ sMade.form = "rsa" /\ sMade.key = prv.key
        /\ sMade.config = own
        /\ Signing!DigestCheckEnd(prv.hash, sMade.digest) = "ok"
        /\ Signing!PrepareFindsDigests(prv)
    BY <1>2 DEF SignatureIInv, MadeByContext, Signing!EcdsaCtxs, Signing!EddsaCtxs
  <1>4. pub.hash \in SignDigests
    BY <1>2, <1>3, CheckedHash
  <1>5. /\ config.mode = pub.pad.mode /\ config.md = pub.hash
        /\ pub.pad.mode = "pss" => /\ config.mgf = Signing!MeansMgf(pub)
                                   /\ pub.pad.salt = -2 => config.salt = -2
    BY PreparedIs
  <1>6. /\ own.mode = prv.pad.mode /\ own.md = prv.hash
        /\ prv.pad.mode = "pss" => own.mgf = Signing!MeansMgf(prv)
    BY <1>3, PreparedIs
  <1>7. pub.pad.mode = "pss" =>
            /\ Signing!ActualSalt(pub.key, config) = Signing!MeansSalt(pub)
            /\ Signing!ActualSalt(prv.key, own) = Signing!MeansSalt(prv)
    BY <1>2, <1>3, <1>4, SaltMeant
  <1>8. Signing!PrepareFindsDigests(pub)
    <2>1. noDigest \notin SignDigests
      BY AsymmetricAssumption DEF Signing!SignatureAssumption
    <2>2. pub.pad.mode = "pss" => pub.pad.mgf \in SignDigests \union {noDigest, noMgf}
      BY AsymmetricAssumption DEF Signing!SignatureAssumption, Signing!RsaCtxs
    <2>3. pub.pad.mode = "pss" => Signing!MeansMgf(prv) \in SignDigests
      BY <1>2, <1>3, <1>4 DEF Signing!PrepareFindsDigests, Signing!MeansMgf
    <2> QED
      BY <1>2, <2>1, <2>2, <2>3 DEF Signing!PrepareFindsDigests, Signing!MeansMgf
  <1> HIDE DEF pub, prv, config, own
  <1>9. Signing!RsaValid(pub.key, config, sSignature, sMade.digest)
    BY <1>2, <1>3, <1>5, <1>6, <1>7 DEF Signing!RsaValid, Signing!SaltAccepted
  <1> QED
    BY <1>2, <1>3, <1>8, <1>9 DEF Signing!RsaVerifyEnd, pub, config

(* ECDSA: a matching context accepts, in both formats. *)
LEMMA EcdsaOwnAccepted ==
    ASSUME SignatureIInv, sSignature # Signing!NoSignature, Signing!Matching,
           sPublicCtx \in Signing!EcdsaCtxs
    PROVE  Signing!EcdsaVerifyEnd(sPublicCtx, sSignature, sMade.digest) = "ok"
  <1>1. sPublicCtx.alg = "ECDSA" /\ sPublicCtx.key \in SignKeys
        /\ SignKeyType[sPublicCtx.key] = "ECC"
    BY DEF Signing!EcdsaCtxs
  <1>2. /\ sPrivateCtx.alg = "ECDSA" /\ sPublicCtx.key = sPrivateCtx.key
        /\ sPublicCtx.hash = sPrivateCtx.hash /\ sPublicCtx.format = sPrivateCtx.format
    BY <1>1 DEF Signing!Matching
  <1>3. PICK r, s \in Nat :
            /\ r < Order[sPublicCtx.key] /\ s < Order[sPublicCtx.key]
            /\ sMade.form = "ecdsa" /\ sMade.key = sPublicCtx.key
            /\ sMade.r = r /\ sMade.s = s
            /\ sSignature = Signing!EcdsaSignature(sPrivateCtx, r, s)
            /\ Signing!DigestCheckEnd(sPrivateCtx.hash, sMade.digest) = "ok"
    BY <1>2 DEF SignatureIInv, MadeByContext, Signing!RsaCtxs, Signing!EddsaCtxs
  <1>4. ASSUME NEW sig, sig.form = "asn1", sig.r = r, sig.s = s
        PROVE  Signing!VerifyAsn1End(sPublicCtx, sig, sMade.digest) = "ok"
    BY <1>2, <1>3, <1>4 DEF Signing!VerifyAsn1End, Signing!EcdsaValid
  <1>5. CASE sPublicCtx.format = "IEEE1363"
    <2> DEFINE k == Signing!KeySizeBytes(sPublicCtx.key)
               bytes == Signing!IEEE1363(r, s, k)
    <2>1. sSignature.form = "bytes" /\ sSignature.bytes = bytes
      BY <1>2, <1>3, <1>5 DEF Signing!EcdsaSignature
    <2>2. /\ Len(bytes) = 2 * k
          /\ Signing!BN_bin2bn(SubSeq(bytes, 1, k)) = r
          /\ Signing!BN_bin2bn(SubSeq(bytes, k + 1, 2 * k)) = s
      BY <1>1, <1>3, RawIsRead
    <2>3. /\ Signing!FromIEEE1363(bytes, k).form = "asn1"
          /\ Signing!FromIEEE1363(bytes, k).r = r
          /\ Signing!FromIEEE1363(bytes, k).s = s
      BY <2>2 DEF Signing!FromIEEE1363
    <2>4. Signing!VerifyAsn1End(sPublicCtx, Signing!FromIEEE1363(bytes, k), sMade.digest)
            = "ok"
      BY <1>4, <2>3
    <2> HIDE DEF bytes
    <2> QED
      BY <1>5, <2>1, <2>2, <2>4 DEF Signing!EcdsaVerifyEnd
  <1>6. CASE sPublicCtx.format # "IEEE1363"
    <2>1. sSignature.form = "asn1" /\ sSignature.r = r /\ sSignature.s = s
      BY <1>2, <1>3, <1>6 DEF Signing!EcdsaSignature
    <2> QED
      BY <1>4, <1>6, <2>1 DEF Signing!EcdsaVerifyEnd
  <1> QED
    BY <1>5, <1>6

(* verifyDigest() and verifyMessage() *)
LEMMA VerifyStep ==
    ASSUME SignatureIInv, NEW sig, NEW digest, Signing!VerifyDigest(sig, digest)
    PROVE  SignatureIInv'
  <1>1. /\ sPrivateCtx' = sPrivateCtx /\ sPublicCtx' = sPublicCtx
        /\ sMade' = sMade /\ sSignature' = sSignature /\ sSignature # Signing!NoSignature
        /\ sOutcome'.op = "verify" /\ sOutcome'.sig = sig /\ sOutcome'.digest = digest
        /\ sPublicCtx.alg \in {"RSA", "ECDSA"}
        /\ sPublicCtx.alg = "RSA" =>
              sOutcome'.end = Signing!RsaVerifyEnd(sPublicCtx, sig, digest)
        /\ sPublicCtx.alg = "ECDSA" =>
              sOutcome'.end = Signing!EcdsaVerifyEnd(sPublicCtx, sig, digest)
    BY DEF Signing!VerifyDigest
  <1>2. /\ sPublicCtx.alg = "RSA" => sPublicCtx \in Signing!RsaCtxs
        /\ sPublicCtx.alg = "ECDSA" => sPublicCtx \in Signing!EcdsaCtxs
    BY DEF SignatureIInv, Signing!Contexts, Signing!NoCtx, Signing!RsaCtxs,
           Signing!EcdsaCtxs, Signing!EddsaCtxs
  <1>3. Signing!AcceptedWasSigned'
    <2> SUFFICES ASSUME sOutcome'.end = "ok"
                 PROVE  /\ sMade # Signing!NoSignature /\ sMade.key = sPublicCtx.key
                        /\ sMade.digest = digest
                        /\ sPublicCtx.alg = "RSA" => sMade.config.md = sPublicCtx.hash
                        /\ sPublicCtx.alg = "ECDSA" =>
                              /\ SignDigestSize[sMade.digest.md] = SignDigestSize[sPublicCtx.hash]
                              /\ sig.form = "bytes" <=> sPublicCtx.format = "IEEE1363"
      BY <1>1 DEF Signing!AcceptedWasSigned, Signing!Verified
    <2>1. CASE sPublicCtx.alg = "RSA"
      BY <1>1, <1>2, <2>1, RsaAccepts
    <2>2. CASE sPublicCtx.alg = "ECDSA"
      BY <1>1, <1>2, <2>2, EcdsaAccepts
    <2> QED
      BY <1>1, <2>1, <2>2
  <1>4. Signing!OwnSignatureAccepted'
    <2> SUFFICES ASSUME sig = sSignature, digest = sMade.digest, Signing!Matching
                 PROVE  sOutcome'.end = "ok"
      <3>1. Signing!Matching' <=> Signing!Matching
        BY <1>1 DEF Signing!Matching, Signing!MeansMgf, Signing!MeansSalt
      <3> QED
        BY <1>1, <3>1 DEF Signing!OwnSignatureAccepted
    <2>1. CASE sPublicCtx.alg = "RSA"
      BY <1>1, <1>2, <2>1, RsaOwnAccepted
    <2>2. CASE sPublicCtx.alg = "ECDSA"
      BY <1>1, <1>2, <2>2, EcdsaOwnAccepted
    <2> QED
      BY <1>1, <2>1, <2>2
  <1>5. MadeByContext'
    BY <1>1 DEF SignatureIInv, MadeByContext
  <1> QED
    BY <1>1, <1>3, <1>4, <1>5 DEF SignatureIInv

(* verifyMessage() of RSA and ECDSA *)
LEMMA MessageVerifyStep ==
    ASSUME SignatureIInv, NEW sig, NEW message, Signing!VerifyMessage(sig, message)
    PROVE  SignatureIInv'
  <1>1. CASE sPublicCtx.hash \in SignDigests
    <2>1. Signing!VerifyDigest(sig, Signing!Digest(sPublicCtx.hash, message))
      BY <1>1 DEF Signing!VerifyMessage, Signing!CreateHashEnd
    <2> QED
      BY <2>1, VerifyStep
  <1>2. CASE sPublicCtx.hash \notin SignDigests
    <2>1. sPublicCtx.alg \in {"RSA", "ECDSA"}
      BY DEF Signing!VerifyMessage
    <2>2. /\ sPrivateCtx' = sPrivateCtx /\ sPublicCtx' = sPublicCtx
          /\ sMade' = sMade /\ sSignature' = sSignature /\ sSignature # Signing!NoSignature
          /\ sOutcome'.end = "unknown hash"
      <3>1. Signing!CreateHashEnd(sPublicCtx.hash) # "ok"
        BY <1>2 DEF Signing!CreateHashEnd
      <3>2. /\ sOutcome' = [op |-> "verify", sig |-> sig, end |-> "unknown hash",
                            digest |-> Signing!Digest(sPublicCtx.hash, message)]
            /\ UNCHANGED <<sPrivateCtx, sPublicCtx, sMade, sSignature>>
            /\ sSignature # Signing!NoSignature
        BY <3>1, Zenon DEF Signing!VerifyMessage
      <3> QED
        BY <3>2
    <2>3. Signing!AcceptedWasSigned'
      BY <2>2 DEF Signing!AcceptedWasSigned, Signing!Verified
    <2>4. ~Signing!Matching
      <3> SUFFICES ASSUME Signing!Matching PROVE FALSE
        OBVIOUS
      <3>1. sPrivateCtx.alg = sPublicCtx.alg /\ sPrivateCtx.hash = sPublicCtx.hash
        BY <2>1 DEF Signing!Matching
      <3>2. \E digest : Signing!DigestCheckEnd(sPrivateCtx.hash, digest) = "ok"
        BY <2>1, <2>2, <3>1 DEF SignatureIInv, MadeByContext, Signing!EddsaCtxs
      <3> QED
        BY <1>2, <3>1, <3>2, CheckedHash
    <2>5. Signing!Matching' <=> Signing!Matching
      BY <2>2 DEF Signing!Matching, Signing!MeansMgf, Signing!MeansSalt
    <2>6. Signing!OwnSignatureAccepted'
      BY <2>4, <2>5 DEF Signing!OwnSignatureAccepted
    <2>7. MadeByContext'
      BY <2>2 DEF SignatureIInv, MadeByContext
    <2> QED
      BY <2>2, <2>3, <2>6, <2>7 DEF SignatureIInv
  <1> QED
    BY <1>1, <1>2

(* verifyMessage() of EdDSA *)
LEMMA EddsaVerifyStep ==
    ASSUME SignatureIInv, NEW sig, NEW message, Signing!EddsaVerifyMessage(sig, message)
    PROVE  SignatureIInv'
  <1> DEFINE Good == /\ sig = sMade /\ sig.form = "ed" /\ sig.key = sPublicCtx.key
                     /\ sig.digest = message
  <1>1. /\ sPrivateCtx' = sPrivateCtx /\ sPublicCtx' = sPublicCtx
        /\ sMade' = sMade /\ sSignature' = sSignature /\ sSignature # Signing!NoSignature
        /\ sOutcome'.op = "verify" /\ sOutcome'.sig = sig /\ sOutcome'.digest = message
        /\ sPublicCtx.alg = "EdDSA"
        /\ sOutcome'.end = IF Good THEN "ok" ELSE "rejected"
    BY DEF Signing!EddsaVerifyMessage
  <1>2. Signing!AcceptedWasSigned'
    BY <1>1 DEF Signing!AcceptedWasSigned, Signing!Verified, Signing!NoSignature
  <1>3. Signing!OwnSignatureAccepted'
    <2> SUFFICES ASSUME sig = sSignature, message = sMade.digest, Signing!Matching
                 PROVE  Good
      <3>1. Signing!Matching' <=> Signing!Matching
        BY <1>1 DEF Signing!Matching, Signing!MeansMgf, Signing!MeansSalt
      <3> QED
        BY <1>1, <3>1 DEF Signing!OwnSignatureAccepted
    <2>1. sPrivateCtx.alg = "EdDSA" /\ sPrivateCtx.key = sPublicCtx.key
      BY <1>1 DEF Signing!Matching
    <2>2. sSignature = sMade /\ sMade.form = "ed" /\ sMade.key = sPrivateCtx.key
      BY <1>1, <2>1 DEF SignatureIInv, MadeByContext, Signing!RsaCtxs, Signing!EcdsaCtxs
    <2> QED
      BY <2>1, <2>2
  <1>4. MadeByContext'
    BY <1>1 DEF SignatureIInv, MadeByContext
  <1> QED
    BY <1>1, <1>2, <1>3, <1>4 DEF SignatureIInv

(* Every call keeps the invariant. *)
LEMMA SignatureInvariance == Signing!Spec => []SignatureIInv
  <1>1. Signing!Init => SignatureIInv
    BY DEF Signing!Init, SignatureIInv, MadeByContext, Signing!AcceptedWasSigned,
           Signing!OwnSignatureAccepted, Signing!Verified
  <1>2. SignatureIInv /\ [Signing!Next]_(Signing!vars) => SignatureIInv'
    <2> SUFFICES ASSUME SignatureIInv, [Signing!Next]_(Signing!vars) PROVE SignatureIInv'
      OBVIOUS
    <2>1. ASSUME NEW obj \in Signing!Contexts,
                 Signing!ConstructPrivate(obj) \/ Signing!ConstructPublic(obj)
          PROVE  SignatureIInv'
      BY <2>1, ConstructStep
    <2>2. ASSUME NEW key \in SignKeys, NEW hash \in Signing!AnyDigest, NEW i \in 1 .. 2,
                 SignKeyType[key] = "ECC",
                 Signing!ConstructPublicOldEnum(key, hash, Signing!ECSDASignatureFormat[i])
          PROVE  SignatureIInv'
      <3> DEFINE obj == [alg |-> "ECDSA", key |-> key, hash |-> hash,
                         format |-> Signing!ECDSASignatureFormat[i]]
      <3>1. Signing!ConstructPublic(obj)
        BY <2>2, OldFormats DEF Signing!ConstructPublicOldEnum
      <3>2. obj \in Signing!Contexts
        BY <2>2 DEF Signing!Contexts, Signing!EcdsaCtxs
      <3> HIDE DEF obj
      <3> QED
        BY <3>1, <3>2, ConstructStep
    <2>3. ASSUME NEW digest \in Signing!AllDigests,
                 Signing!RsaSignDigest(digest) \/ Signing!EcdsaSignDigest(digest)
          PROVE  SignatureIInv'
      BY <2>3, RsaSignStep, EcdsaSignStep
    <2>4. ASSUME NEW message \in Messages,
                 Signing!SignMessage(message) \/ Signing!EddsaSignMessage(message)
          PROVE  SignatureIInv'
      BY <2>4, MessageSignStep
    <2>5. ASSUME NEW sig, NEW digest, Signing!VerifyDigest(sig, digest)
          PROVE  SignatureIInv'
      BY <2>5, VerifyStep
    <2>6. ASSUME NEW sig, NEW message, Signing!VerifyMessage(sig, message)
          PROVE  SignatureIInv'
      BY <2>6, MessageVerifyStep
    <2>7. ASSUME NEW sig, NEW message, Signing!EddsaVerifyMessage(sig, message)
          PROVE  SignatureIInv'
      BY <2>7, EddsaVerifyStep
    <2>8. CASE UNCHANGED Signing!vars
      <3>1. /\ sPrivateCtx' = sPrivateCtx /\ sPublicCtx' = sPublicCtx /\ sMade' = sMade
            /\ sSignature' = sSignature /\ sOutcome' = sOutcome
        BY <2>8 DEF Signing!vars
      <3> QED
        BY <3>1 DEF SignatureIInv, MadeByContext, Signing!AcceptedWasSigned,
                    Signing!Verified, Signing!OwnSignatureAccepted, Signing!Matching,
                    Signing!MeansMgf, Signing!MeansSalt
    <2> QED
      BY <2>1, <2>2, <2>3, <2>4, <2>5, <2>6, <2>7, <2>8 DEF Signing!Next
  <1> QED
    BY <1>1, <1>2, PTL DEF Signing!Spec
-----------------------------------------------------------------------------
(* A behaviour of the run is one of the key objects, and one of the        *)
(* signature contexts.                                                     *)
LEMMA PartsRun == MCSpec => KeyObjects!Spec /\ Signing!Spec
  <1>1. MCInit => KeyObjects!Init /\ Signing!Init
    BY DEF MCInit
  <1>2. [MCNext]_mcvars => [KeyObjects!Next]_(KeyObjects!vars)
    BY DEF MCNext, mcvars, keyVars, KeyObjects!vars
  <1>3. [MCNext]_mcvars => [Signing!Next]_(Signing!vars)
    BY DEF MCNext, mcvars, signatureVars, Signing!vars
  <1> QED
    BY <1>1, <1>2, <1>3, PTL DEF MCSpec, KeyObjects!Spec, Signing!Spec

(* Signatures: what verifies was made by the private key for the digest    *)
(* that was given, a public context configured as the private one accepts  *)
(* its signatures, and raw ECDSA signatures keep their leading zeros.      *)
THEOREM SignaturesSound == MCSpec => []SignaturesAreSound
BY PartsRun, SignatureInvariance, SignatureIInvSuffices, PTL

(* Key objects: getKeySpec() describes the key whatever way it came in, a  *)
(* point has the length getECOctetLength() announces, and a private key in *)
(* PEM opens with the password it was written with and with no other.      *)
THEOREM KeysKeepMeaning == MCSpec => []KeysKeepTheirMeaning
BY PartsRun, KeyInvariance, KeyIInvSuffices, PTL
=============================================================================
