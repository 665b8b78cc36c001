--------------------------- MODULE DigestsProofs ---------------------------
(***************************************************************************)
(* Proofs about message authentication, message digests and key            *)
(* derivation, for every set of bytes and keys, messages of any length and *)
(* any number of objects.                                                  *)
(***************************************************************************)
EXTENDS MCDigests, SequenceTheorems, TLAPS

(* Until it is finished the object has absorbed what the caller gave it    *)
(* and no verdict is out; afterwards the result is the message's.          *)
AbsorbedIsFed ==
    ~mac.isFinished => mac.absorbed = fed /\ verdict = "none"

(* The inductive invariant. *)
IInv == TypeOK /\ AbsorbedIsFed /\ ResultCoversMessage /\ VerdictIsRight

(* A chunk of bounded length is a sequence.                                *)
LEMMA BoundedSeqIsSeq ==
    ASSUME NEW S, NEW n \in Nat, NEW s \in SeqOf(S, n)
    PROVE  s \in Seq(S)
BY DEF SeqOf

(* verify() leaves a finished object whose value is the message's. *)
LEMMA VerifiedIsFinished ==
    ASSUME IInv
    PROVE  /\ MacVerified(mac).isFinished
           /\ MacVerified(mac).key = mac.key
           /\ MacVerified(mac).result = MacValue(mac.key, fed)
           /\ MacVerified(mac) \in [key : Keys, absorbed : Seq(Bytes),
                    isFinished : BOOLEAN, result : MacValues \cup {NoMac}]
<1>1. CASE mac.isFinished
  BY <1>1 DEF IInv, TypeOK, ResultCoversMessage, MacVerified
<1>2. CASE ~mac.isFinished
  <2>1. MacVerified(mac) =
          [mac EXCEPT !.result = MacValue(mac.key, mac.absorbed), !.isFinished = TRUE]
    BY <1>2 DEF MacVerified, MacFinished
  <2>2. mac.absorbed = fed
    BY <1>2 DEF IInv, AbsorbedIsFed
  <2>3. MacValue(mac.key, fed) \in MacValues
    BY DEF IInv, TypeOK, MacValue, MacValues
  <2> QED
    BY <2>1, <2>2, <2>3 DEF IInv, TypeOK
<1> QED
  BY <1>1, <1>2

(* A fresh MAC object satisfies the invariant.                             *)
LEMMA InitInv == Init => IInv
BY DEF Init, IInv, TypeOK, AbsorbedIsFed, ResultCoversMessage, VerdictIsRight,
   NewMac, NoMac

(* Every step preserves the invariant.                                     *)
LEMMA NextInv == IInv /\ [Next]_vars => IInv'
<1> SUFFICES ASSUME IInv, [Next]_vars PROVE IInv'
  OBVIOUS
<1>1. ASSUME NEW message \in SeqOf(Bytes, MaxChunk), Update(message)
      PROVE  IInv'
  <2>1. message \in Seq(Bytes)
    BY BoundedSeqIsSeq, MacAssumption
  <2>2. /\ ~mac.isFinished /\ mac.absorbed = fed /\ verdict = "none"
        /\ mac' = [mac EXCEPT !.absorbed = @ \o message]
        /\ fed' = fed \o message /\ UNCHANGED <<checked, verdict>>
    BY <1>1 DEF Update, MacUpdateOk, MacUpdated, IInv, AbsorbedIsFed
  <2>3. /\ ~mac'.isFinished /\ mac'.absorbed = fed' /\ verdict' = "none"
    BY <2>2 DEF IInv, TypeOK
  <2>4. TypeOK'
    <3>1. mac.absorbed \o message \in Seq(Bytes) /\ fed' \in Seq(Bytes)
      BY <2>1, <2>2 DEF IInv, TypeOK
    <3>2. mac' \in [key : Keys, absorbed : Seq(Bytes), isFinished : BOOLEAN,
                    result : MacValues \cup {NoMac}]
      BY <2>2, <3>1 DEF IInv, TypeOK
    <3> QED
      BY <2>2, <3>1, <3>2 DEF IInv, TypeOK
  <2> QED
    BY <2>3, <2>4 DEF IInv, AbsorbedIsFed, ResultCoversMessage, VerdictIsRight
<1>2. CASE Finish
  <2>1. mac' = MacVerified(mac) /\ UNCHANGED <<fed, checked, verdict>>
    BY <1>2 DEF Finish, MacFinishOk, MacVerified
  <2>2. verdict = "none"
    BY <1>2 DEF Finish, MacFinishOk, IInv, AbsorbedIsFed
  <2>3. TypeOK'
    BY <2>1, VerifiedIsFinished DEF IInv, TypeOK
  <2> QED
    BY <2>1, <2>2, <2>3, VerifiedIsFinished
       DEF IInv, AbsorbedIsFed, ResultCoversMessage, VerdictIsRight
<1>3. ASSUME NEW key \in Keys, NEW message \in SeqOf(Bytes, MaxMessage),
             Verify(MacValue(key, message))
      PROVE  IInv'
  <2>1. /\ mac' = MacVerified(mac) /\ checked' = MacValue(key, message)
        /\ verdict' = (IF MacVerified(mac).result = MacValue(key, message)
                       THEN "accepted" ELSE "rejected")
        /\ fed' = fed
    BY <1>3 DEF Verify, MacVerifyOk
  <2>2. checked' \in MacValues
    BY <2>1, BoundedSeqIsSeq, MacAssumption DEF MacValue, MacValues
  <2>3. TypeOK'
    BY <2>1, <2>2, VerifiedIsFinished DEF IInv, TypeOK
  <2>4. mac'.isFinished /\ mac'.result = MacValue(mac'.key, fed')
    BY <2>1, VerifiedIsFinished
  <2>5. verdict' = "accepted" <=> checked' = MacValue(mac'.key, fed')
    BY <2>1, VerifiedIsFinished
  <2> QED
    BY <2>3, <2>4, <2>5 DEF IInv, AbsorbedIsFed, ResultCoversMessage, VerdictIsRight
<1>4. CASE UNCHANGED vars
  BY <1>4 DEF vars, IInv, TypeOK, AbsorbedIsFed, ResultCoversMessage, VerdictIsRight
<1> QED
  BY <1>1, <1>2, <1>3, <1>4 DEF Next

(* Every reachable state satisfies the inductive invariant. *)
THEOREM Invariance == Spec => []IInv
BY InitInv, NextInv, PTL DEF Spec

(* A computed MAC covers exactly the message passed to update().           *)
THEOREM ResultIsOfMessage == Spec => []ResultCoversMessage
BY Invariance, PTL DEF IInv

(* verify() accepts the MAC of the message and nothing else, and no later  *)
(* call outdates the verdict.                                              *)
THEOREM VerdictsAreRight == Spec => []VerdictIsRight
BY Invariance, PTL DEF IInv
-----------------------------------------------------------------------------
(***************************************************************************)
(* Hash.  The inductive invariant says that the EVP context has absorbed   *)
(* what callers were told it took, and that a cached digest is of that     *)
(* input, or the zeros of a vector that a failed call never filled.        *)
(***************************************************************************)

CacheIsOfInput ==
    \/ hFinalDigestValue = <<>>
    \/ hFinalDigestValue = <<HashObject!Digest(hDigestType, hOffered)>>
    \/ hFailedFinal /\ hFinalDigestValue = <<HashObject!Zeros(hDigestType)>>

HashIInv ==
    /\ HashObject!TypeOK
    /\ hDigestCtx = hOffered
    /\ Len(hOffered) <= hCalls
    /\ hDigestType = "none" => hFinalDigestValue = <<>>
    /\ CacheIsOfInput
    /\ HashObject!DigestCoversInput

(* The digest vector is given the size that OpenSSL's digest has. *)
LEMMA SizesAgree ==
    ASSUME NEW t \in HashObject!DigestTypes
    PROVE  HashObject!LengthInBytes(t) = HashObject!MDSize[t]
BY DEF HashObject!DigestTypes, HashObject!LengthInBytes, HashObject!MDSize

(* The inputs of a hash are the sequences of no more than MaxChunks chunks. *)
LEMMA InputsAreSequences ==
    ASSUME NEW s
    PROVE  s \in HashObject!Streams <=> s \in Seq(Chunks) /\ Len(s) <= MaxChunks
  <1>0. MaxChunks \in Nat
    BY DigestsAssumption DEF HashObject!HashAssumption
  <1>1. ASSUME s \in HashObject!Streams PROVE s \in Seq(Chunks) /\ Len(s) <= MaxChunks
    <2>1. PICK n \in 0 .. MaxChunks : s \in [1 .. n -> Chunks]
      BY <1>1 DEF HashObject!Streams
    <2> QED
      BY <1>0, <2>1
  <1>2. ASSUME s \in Seq(Chunks), Len(s) <= MaxChunks PROVE s \in HashObject!Streams
    <2>1. Len(s) \in 0 .. MaxChunks /\ s \in [1 .. Len(s) -> Chunks]
      BY <1>0, <1>2
    <2> QED
      BY <2>1 DEF HashObject!Streams
  <1> QED
    BY <1>1, <1>2

(* A digest vector is a sequence of one value. *)
LEMMA OneElement ==
    ASSUME NEW e
    PROVE  <<e>> # <<>> /\ \A i \in DOMAIN <<e>> : <<e>>[i] = e
  <1>1. DOMAIN <<e>> = {1} /\ <<e>>[1] = e /\ Len(<<e>>) = 1 /\ Len(<<>>) = 0
    OBVIOUS
  <1> QED
    BY <1>1, Zenon

(* The answer of digest() on an object that has a digest is what the       *)
(* caller asked for, unless the cached vector was never filled.            *)
LEMMA CallDigestKeeps ==
    ASSUME HashIInv, HashObject!CallDigest
    PROVE  HashIInv'
  <1> DEFINE d == HashObject!Digest(hDigestType, hOffered)
             z == HashObject!Zeros(hDigestType)
  <1>1. /\ hDigestType \in HashObject!DigestTypes /\ HashObject!DigestValue
        /\ hAsked' = <<hDigestType, hOffered>>
        /\ UNCHANGED <<hDigestType, hDigestCtx, hOffered, hCalls>>
    BY DEF HashObject!CallDigest, HashIInv, HashObject!TypeOK
  <1>2. /\ d = [alg |-> hDigestType, input |-> hOffered,
                length |-> HashObject!MDSize[hDigestType]]
        /\ d.length = HashObject!MDSize[hDigestType]
        /\ z.length = HashObject!MDSize[hDigestType]
    BY <1>1, SizesAgree DEF HashObject!Digest, HashObject!Zeros
  <1>3. hAsked'[1] = hDigestType /\ hAsked'[2] = hOffered
    BY <1>1
  <1> HIDE DEF d, z
  <1>4. /\ \A i \in DOMAIN <<d>> : <<d>>[i] = d
        /\ \A i \in DOMAIN <<z>> : <<z>>[i] = z
        /\ <<d>> # <<>> /\ <<z>> # <<>>
    BY OneElement
  <1>5. CASE /\ hFinalDigestValue # <<>> /\ hResult' = hFinalDigestValue
             /\ UNCHANGED <<hFinalDigestValue, hFailedFinal, hFinalised>>
    <2>1. HashObject!TypeOK' /\ CacheIsOfInput'
      BY <1>1, <1>5 DEF HashIInv, HashObject!TypeOK, CacheIsOfInput
    <2>2. ~hFailedFinal => hResult' = <<d>>
      BY <1>5 DEF HashIInv, CacheIsOfInput, d
    <2>3. HashObject!DigestCoversInput'
      BY <1>1, <1>2, <1>3, <1>5, <2>2 DEF HashObject!DigestCoversInput
    <2> QED
      BY <1>1, <1>5, <2>1, <2>3 DEF HashIInv
  <1>6. CASE /\ hFinalDigestValue = <<>> /\ hFinalDigestValue' = <<d>>
             /\ hResult' = <<d>> /\ hFinalised' = TRUE /\ UNCHANGED hFailedFinal
    <2>1. HashObject!TypeOK'
      BY <1>1, <1>2, <1>4, <1>6 DEF HashIInv, HashObject!TypeOK
    <2>2. CacheIsOfInput'
      BY <1>1, <1>6 DEF CacheIsOfInput, d
    <2>3. HashObject!DigestCoversInput'
      BY <1>1, <1>2, <1>3, <1>6 DEF HashObject!DigestCoversInput
    <2> QED
      BY <1>1, <1>6, <2>1, <2>2, <2>3 DEF HashIInv, HashObject!DigestTypes
  <1>7. CASE /\ hFinalDigestValue = <<>> /\ hFinalDigestValue' = <<z>>
             /\ hResult' = <<>> /\ hFailedFinal' = TRUE /\ hFinalised' = TRUE
    <2>1. HashObject!TypeOK'
      BY <1>1, <1>2, <1>4, <1>7 DEF HashIInv, HashObject!TypeOK
    <2>2. CacheIsOfInput'
      BY <1>1, <1>7 DEF CacheIsOfInput, z
    <2>3. HashObject!DigestCoversInput'
      BY <1>7 DEF HashObject!DigestCoversInput
    <2> QED
      BY <1>1, <1>7, <2>1, <2>2, <2>3 DEF HashIInv, HashObject!DigestTypes
  <1>8. d = HashObject!Digest(hDigestType, hDigestCtx)
    BY DEF d, HashIInv
  <1> QED
    BY <1>1, <1>5, <1>6, <1>7, <1>8 DEF HashObject!DigestValue, z

(* The invariant of a Hash is inductive. *)
LEMMA HashInvariance == HashObject!Spec => []HashIInv
  <1>0. MaxChunks \in Nat
    BY DigestsAssumption DEF HashObject!HashAssumption
  <1>1. HashObject!Init => HashIInv
    <2> SUFFICES ASSUME HashObject!Init PROVE HashIInv
      OBVIOUS
    <2>1. <<>> \in HashObject!Streams
      <3>1. <<>> \in Seq(Chunks) /\ Len(<<>>) <= MaxChunks
        BY <1>0, EmptySeq
      <3> QED
        BY <3>1, InputsAreSequences, Zenon
    <2>2. \A i \in DOMAIN hFinalDigestValue : FALSE
      BY DEF HashObject!Init
    <2>3. HashObject!TypeOK
      <3>1. 0 \in 0 .. MaxChunks
        BY <1>0
      <3> QED
        BY <2>1, <2>2, <3>1, Zenon DEF HashObject!Init, HashObject!TypeOK
    <2> QED
      BY <2>3 DEF HashObject!Init, HashIInv, CacheIsOfInput, HashObject!DigestCoversInput
  <1>2. HashIInv /\ [HashObject!Next]_(HashObject!vars) => HashIInv'
    <2> SUFFICES ASSUME HashIInv, [HashObject!Next]_(HashObject!vars) PROVE HashIInv'
      OBVIOUS
    <2>1. ASSUME NEW t \in HashObject!DigestTypes \union {"NONE"}, HashObject!Construct(t)
          PROVE  HashIInv'
      <3>1. /\ hDigestType = "none" /\ hFinalDigestValue = <<>> /\ hFinalDigestValue' = <<>>
            /\ hDigestType' \in HashObject!DigestTypes \union {"none"}
            /\ UNCHANGED <<hDigestCtx, hFinalised, hOffered, hCalls, hAsked, hResult,
                           hFailedFinal>>
        BY <2>1 DEF HashObject!Construct, HashIInv, HashObject!TypeOK
      <3>2. HashObject!TypeOK'
        BY <3>1 DEF HashIInv, HashObject!TypeOK
      <3> QED
        BY <3>1, <3>2 DEF HashIInv, CacheIsOfInput, HashObject!DigestCoversInput
    <2>2. ASSUME NEW c \in Chunks, HashObject!Update(c) PROVE HashIInv'
      <3>1. /\ hCalls < MaxChunks /\ hCalls' = hCalls + 1 /\ hResult' = <<>>
            /\ UNCHANGED <<hDigestType, hFinalised, hFinalDigestValue, hAsked, hFailedFinal>>
        BY <2>2 DEF HashObject!Update
      <3>2. /\ hOffered \in Seq(Chunks) /\ Len(hOffered) <= hCalls /\ hCalls \in 0 .. MaxChunks
            /\ hDigestCtx = hOffered
        BY InputsAreSequences DEF HashIInv, HashObject!TypeOK
      <3>3. CASE /\ hFinalDigestValue = <<>>
                 /\ hDigestCtx' = Append(hDigestCtx, c) /\ hOffered' = Append(hOffered, c)
        <4>1. /\ hOffered' \in Seq(Chunks) /\ Len(hOffered') = Len(hOffered) + 1
              /\ hDigestCtx' = hOffered' /\ Len(hOffered) \in Nat
          BY <3>2, <3>3
        <4>2. Len(hOffered') <= hCalls' /\ Len(hOffered') <= MaxChunks
              /\ hCalls' \in 0 .. MaxChunks
          BY <1>0, <3>1, <3>2, <4>1
        <4>3. hOffered' \in HashObject!Streams
          BY <4>1, <4>2, InputsAreSequences
        <4>4. HashObject!TypeOK'
          BY <3>1, <3>3, <4>1, <4>2, <4>3 DEF HashIInv, HashObject!TypeOK
        <4> QED
          BY <3>1, <3>3, <4>1, <4>2, <4>4
             DEF HashIInv, CacheIsOfInput, HashObject!DigestCoversInput
      <3>4. CASE UNCHANGED <<hDigestCtx, hOffered>>
        <4>1. Len(hOffered) \in Nat
          BY <3>2
        <4>2. Len(hOffered') <= hCalls' /\ hCalls' \in 0 .. MaxChunks
          BY <1>0, <3>1, <3>2, <3>4, <4>1
        <4>3. HashObject!TypeOK'
          BY <3>1, <3>4, <4>2 DEF HashIInv, HashObject!TypeOK
        <4> QED
          BY <3>1, <3>4, <4>2, <4>3 DEF HashIInv, CacheIsOfInput, HashObject!DigestCoversInput
      <3> QED
        BY <2>2, <3>3, <3>4 DEF HashObject!Update
    <2>3. CASE HashObject!CallDigest
      BY <2>3, CallDigestKeeps
    <2>4. ASSUME NEW t \in HashObject!DigestTypes, NEW m \in HashObject!Messages,
                 HashObject!OneShot(t, m)
          PROVE  HashIInv'
      <3>1. /\ hAsked' = <<t, m>> /\ hResult' \in {<<>>, <<HashObject!Digest(t, m)>>}
            /\ UNCHANGED <<hDigestType, hDigestCtx, hFinalised, hFinalDigestValue,
                           hOffered, hCalls, hFailedFinal>>
        BY <2>4 DEF HashObject!OneShot
      <3>2. HashObject!Digest(t, m) =
              [alg |-> hAsked'[1], input |-> hAsked'[2],
               length |-> HashObject!MDSize[hAsked'[1]]]
        BY <3>1, SizesAgree DEF HashObject!Digest
      <3>3. HashObject!DigestCoversInput'
        BY <3>1, <3>2 DEF HashObject!DigestCoversInput
      <3>4. HashObject!TypeOK' /\ CacheIsOfInput'
        BY <3>1 DEF HashIInv, HashObject!TypeOK, CacheIsOfInput
      <3> QED
        BY <3>1, <3>3, <3>4 DEF HashIInv
    <2>5. CASE UNCHANGED HashObject!vars
      BY <2>5 DEF HashObject!vars, HashIInv, HashObject!TypeOK, CacheIsOfInput,
                  HashObject!DigestCoversInput
    <2> QED
      BY <2>1, <2>2, <2>3, <2>4, <2>5 DEF HashObject!Next
  <1> QED
    BY <1>1, <1>2, PTL DEF HashObject!Spec

(* Only the first call of digest() writes the digest of an object. *)
LEMMA CacheIsWrittenOnce == HashObject!Spec => HashObject!DigestIsStable
  <1>1. HashIInv /\ [HashObject!Next]_(HashObject!vars) =>
            [hFinalDigestValue # <<>> => hFinalDigestValue' = hFinalDigestValue]_(HashObject!vars)
    BY DEF HashIInv, HashObject!Next, HashObject!Construct, HashObject!Update,
           HashObject!CallDigest, HashObject!DigestValue, HashObject!OneShot
  <1> QED
    BY <1>1, HashInvariance, PTL DEF HashObject!Spec, HashObject!DigestIsStable
-----------------------------------------------------------------------------
(***************************************************************************)
(* PBKDF2 and X963KDF.  The inductive invariant says that an object holds  *)
(* the parameters it was given, whatever copies and moves it came through, *)
(* so that every derived key is computed from them.                        *)
(***************************************************************************)

KdfIInv ==
    /\ Derivation!TypeOK
    /\ kGiven = kImpl
    /\ \A k \in kKeys :
        /\ k.params \in Derivation!Parameters
        /\ k.key = Derivation!DerivedKey(k.params, k.input)

(* Records of parameters are equal if their fields are. *)
LEMMA ParametersAreFields ==
    ASSUME NEW p \in Derivation!Parameters, NEW q \in Derivation!Parameters,
           p.kind = q.kind, p.hash = q.hash, p.iterations = q.iterations
    PROVE  p = q
BY DEF Derivation!Parameters

(* Within the range of an int, the iteration count can be told from the    *)
(* number of rounds.                                                       *)
LEMMA RoundsAreIterations ==
    ASSUME NEW n, n \in 1 .. Derivation!IntMax
    PROVE  Derivation!Rounds(Derivation!ToInt(n)) = n
  <1>1. n \in Int /\ 1 <= n /\ n <= Derivation!IntMax
    OBVIOUS
  <1>2. Derivation!ToInt(n) = n
    BY <1>1 DEF Derivation!ToInt
  <1> QED
    BY <1>1, <1>2 DEF Derivation!Rounds

(* The invariant implies that equal keys come from equal parameters. *)
LEMMA EqualKeysMeanEqualParameters ==
    ASSUME KdfIInv
    PROVE  Derivation!SameKeyIffSameParameters
  <1> SUFFICES ASSUME NEW k \in kKeys, NEW l \in kKeys,
                      Derivation!InRange(k.params), Derivation!InRange(l.params)
               PROVE  (k.key = l.key) <=> (k.params = l.params /\ k.input = l.input)
    BY DEF Derivation!SameKeyIffSameParameters
  <1> DEFINE p == k.params
             q == l.params
  <1>1. /\ p \in Derivation!Parameters /\ q \in Derivation!Parameters
        /\ k.key = Derivation!DerivedKey(p, k.input)
        /\ l.key = Derivation!DerivedKey(q, l.input)
    BY DEF KdfIInv
  <1> HIDE DEF p, q
  <1>2. ASSUME k.key = l.key PROVE p = q /\ k.input = l.input
    <2>1. /\ p.kind = q.kind /\ p.hash = q.hash /\ k.input = l.input
          /\ p.kind = "PBKDF2" =>
                Derivation!Rounds(Derivation!ToInt(p.iterations)) =
                Derivation!Rounds(Derivation!ToInt(q.iterations))
      BY <1>1, <1>2 DEF Derivation!DerivedKey
    <2>2. p.iterations = q.iterations
      <3>1. CASE p.kind = "PBKDF2"
        <4>1. /\ p.iterations \in 1 .. Derivation!IntMax
              /\ q.iterations \in 1 .. Derivation!IntMax
          BY <2>1, <3>1 DEF Derivation!InRange, p, q
        <4> QED
          BY <2>1, <3>1, <4>1, RoundsAreIterations
      <3>2. CASE p.kind # "PBKDF2"
        BY <1>1, <2>1, <3>2 DEF Derivation!Parameters
      <3> QED
        BY <3>1, <3>2
    <2> QED
      BY <1>1, <2>1, <2>2, ParametersAreFields
  <1> QED
    BY <1>1, <1>2 DEF p, q

(* The invariant of key derivation objects is inductive. *)
LEMMA KdfInvariance == Derivation!Spec => []KdfIInv
  <1>1. Derivation!Init => KdfIInv
    BY DEF Derivation!Init, KdfIInv, Derivation!TypeOK
  <1>2. KdfIInv /\ [Derivation!Next]_(Derivation!vars) => KdfIInv'
    <2> SUFFICES ASSUME KdfIInv, [Derivation!Next]_(Derivation!vars) PROVE KdfIInv'
      OBVIOUS
    <2> DEFINE Members == Derivation!Parameters \union {Derivation!Null}
    <2>0. kImpl \in [Objects -> Members] /\ kGiven = kImpl /\ Derivation!Null \in Members
      BY DEF KdfIInv, Derivation!TypeOK
    <2>1. ASSUME NEW o \in Objects, NEW m \in Members,
                 kImpl' = [kImpl EXCEPT ![o] = m], kGiven' = [kGiven EXCEPT ![o] = m],
                 kKeys' = kKeys
          PROVE  KdfIInv'
      BY <2>0, <2>1 DEF KdfIInv, Derivation!TypeOK
    <2>2. ASSUME NEW o \in Objects, NEW p \in Derivation!Parameters, Derivation!Construct(o, p)
          PROVE  KdfIInv'
      BY <2>1, <2>2 DEF Derivation!Construct
    <2>3. ASSUME NEW o \in Objects, NEW i \in Inputs, Derivation!DeriveKey(o, i)
          PROVE  KdfIInv'
      <3> DEFINE k == [params |-> kGiven[o], input |-> i,
                       key |-> Derivation!DerivedKey(kImpl[o], i)]
      <3>1. kImpl[o] # Derivation!Null /\ UNCHANGED <<kImpl, kGiven>>
            /\ (kKeys' = kKeys \union {k} \/ kKeys' = kKeys)
        BY <2>3 DEF Derivation!DeriveKey
      <3>2. k.params = kImpl[o] /\ k.params \in Derivation!Parameters
            /\ k.key = Derivation!DerivedKey(k.params, k.input)
        BY <2>0, <3>1
      <3> HIDE DEF k
      <3> QED
        BY <3>1, <3>2 DEF KdfIInv, Derivation!TypeOK
    <2>4. ASSUME NEW o \in Objects, NEW p \in Objects, Derivation!Copy(o, p)
          PROVE  KdfIInv'
      <3>1. kImpl[p] \in Members /\ kGiven[p] = kImpl[p]
        BY <2>0
      <3> QED
        BY <2>1, <2>4, <3>1 DEF Derivation!Copy
    <2>5. ASSUME NEW o \in Objects, NEW p \in Objects, Derivation!Move(o, p)
          PROVE  KdfIInv'
      <3>1. CASE o = p
        BY <2>5, <3>1 DEF Derivation!Move, KdfIInv, Derivation!TypeOK
      <3>2. CASE o # p
        <4>1. /\ kImpl' = [kImpl EXCEPT ![o] = kImpl[p], ![p] = Derivation!Null]
              /\ kGiven' = [kGiven EXCEPT ![o] = kGiven[p], ![p] = Derivation!Null]
              /\ kKeys' = kKeys
          BY <2>5, <3>2 DEF Derivation!Move
        <4>2. kImpl' \in [Objects -> Members] /\ kGiven' = kImpl'
          BY <2>0, <4>1
        <4> QED
          BY <4>1, <4>2 DEF KdfIInv, Derivation!TypeOK
      <3> QED
        BY <3>1, <3>2
    <2>6. CASE UNCHANGED Derivation!vars
      BY <2>6 DEF Derivation!vars, KdfIInv, Derivation!TypeOK
    <2> QED
      BY <2>2, <2>3, <2>4, <2>5, <2>6 DEF Derivation!Next
  <1> QED
    BY <1>1, <1>2, PTL DEF Derivation!Spec
-----------------------------------------------------------------------------
(* The parts together: a step of the whole is a step of one part, and the  *)
(* others stutter.                                                         *)

(* A behaviour of the whole is one of every part. *)
LEMMA PartsRun == MCSpec => Spec /\ HashObject!Spec /\ Derivation!Spec
  <1>1. MCInit => Init /\ HashObject!Init /\ Derivation!Init
    BY DEF MCInit
  <1>2. [MCNext]_mcvars => [Next]_vars
    BY DEF MCNext, mcvars
  <1>3. [MCNext]_mcvars => [HashObject!Next]_(HashObject!vars)
    BY DEF MCNext, mcvars, hashVars, HashObject!vars
  <1>4. [MCNext]_mcvars => [Derivation!Next]_(Derivation!vars)
    BY DEF MCNext, mcvars, kdfVars, Derivation!vars
  <1> QED
    BY <1>1, <1>2, <1>3, <1>4, PTL DEF MCSpec, Spec, HashObject!Spec, Derivation!Spec

(* Hash: a digest is of the algorithm that was named and of exactly the    *)
(* chunks whose update() returned, and digest() returns it again whatever  *)
(* is tried in between.                                                    *)
THEOREM DigestsRight == MCSpec => DigestsAreRight
  <1>1. HashIInv => HashObject!TypeOK /\ HashObject!DigestCoversInput
    BY DEF HashIInv
  <1>2. HashObject!Spec => [](HashObject!TypeOK /\ HashObject!DigestCoversInput)
    BY <1>1, HashInvariance, PTL
  <1> QED
    BY <1>2, CacheIsWrittenOnce, PartsRun DEF DigestsAreRight

(* PBKDF2 and X963KDF: two calls of deriveKey() agree exactly if their     *)
(* parameters and inputs do, through all copies and (self-)moves.          *)
THEOREM DerivedKeysRight == MCSpec => []DerivedKeysAreRight
  <1>1. KdfIInv => DerivedKeysAreRight
    BY EqualKeysMeanEqualParameters DEF KdfIInv, DerivedKeysAreRight
  <1> QED
    BY <1>1, PartsRun, KdfInvariance, PTL
=============================================================================
