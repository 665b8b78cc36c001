--------------------------- MODULE IssuingProofs ---------------------------
(***************************************************************************)
(* Proofs about what issuing a certificate takes: the certificate          *)
(* authority, for every range of serial numbers, every set of times and    *)
(* any number of issued certificates; the requests it signs; the           *)
(* parameters it signs with; serial numbers of any length; and names with  *)
(* any attributes.                                                         *)
(***************************************************************************)
EXTENDS MCIssuing, SequenceTheorems, WellFoundedInduction, TLAPS

(* Before the constructor has run nothing is issued. *)
NothingIssuedEarly == ~ca.constructed => issued = <<>>

(* The inductive invariant. *)
IInv ==
    /\ TypeOK
    /\ NothingIssuedEarly
    /\ SerialsConsecutive
    /\ SerialsInRange
    /\ IssuedVerifiesThroughout

(* The counter does not wrap while serial numbers are still accepted. *)
LEMMA IncrementedNoWrap ==
    ASSUME NEW s \in 0 .. UInt64Max, SetSerialNumberOk(s)
    PROVE  /\ Incremented(s) = s + 1
           /\ Incremented(s) \in 0 .. UInt64Max
           /\ AsLong(s) = s
<1>1. /\ s + 1 \in Nat /\ UInt64Max + 1 \in Nat /\ s + 1 < UInt64Max + 1
      /\ s <= LongMax
  BY CAAssumption DEF UInt64Max, SetSerialNumberOk
<1>2. \A a, b \in Nat : a < b => a % b = a
  OBVIOUS
<1>3. (s + 1) % (UInt64Max + 1) = s + 1
  BY <1>1, <1>2
<1>4. Incremented(s) = s + 1
  BY <1>3 DEF Incremented
<1>5. s + 1 \in 0 .. UInt64Max
  BY CAAssumption DEF UInt64Max, SetSerialNumberOk
<1>6. AsLong(s) = s
  BY <1>1 DEF AsLong
<1> QED
  BY <1>4, <1>5, <1>6

(* What signing produces is a certificate. *)
LEMMA SignedCertificateType ==
    ASSUME NEW subject \in Keys, NEW signer \in Keys, NEW serial \in 0 .. UInt64Max,
           NEW params \in SignParams, NEW t \in Nat, NEW chainOk \in BOOLEAN
    PROVE  SignedCertificate(subject, serial, params, t, signer, chainOk) \in Certificate
<1>1. AsLong(serial) \in Int
  BY CAAssumption DEF AsLong, UInt64Max
<1>2. notBeforeAsn1(params, t) \in Int
  <2>1. params.notBefore.value \in Int
    <3>1. params.notBefore \in OptionalStart
      BY DEF SignParams
    <3>2. CASE params.notBefore = Unset
      BY <3>2 DEF Unset
    <3>3. CASE params.notBefore \in [initialized : {TRUE}, value : Starts]
      BY <3>3, CAAssumption
    <3> QED
      BY <3>1, <3>2, <3>3 DEF OptionalStart
  <2>2. t - 1 \in Int
    OBVIOUS
  <2> QED
    BY <2>1, <2>2 DEF notBeforeAsn1
<1>3. params.certificateValidity \in Int
  BY CAAssumption DEF SignParams
<1> QED
  BY <1>1, <1>2, <1>3 DEF SignedCertificate, Certificate

(* The two instants signCSR tries stand for all those between them. *)
LEMMA EndsSuffice ==
    ASSUME NEW root \in Certificate, NEW cert \in Certificate, SanityCheck(root, cert)
    PROVE  /\ cert.notBefore < cert.notAfter
           /\ \A t \in cert.notBefore .. (cert.notAfter - 1) : VerifiesAt(root, cert, t)
BY DEF Certificate, SanityCheck, VerifiesAt, ValidAt

(* Before a CA exists the invariant holds.                                 *)
LEMMA InitInv == Init => IInv
<1> SUFFICES ASSUME Init PROVE IInv
  OBVIOUS
<1>1. roots \subseteq Certificate
  <2>1. \A c \in ForeignCertificates : c \in Certificate
    <3> TAKE c \in ForeignCertificates
    <3>1. PICK k \in Keys :
            c = [key |-> k, serial |-> 0, notBefore |-> 0, notAfter |-> MaxNow,
                 isCA |-> FALSE, signedBy |-> k, chainOk |-> TRUE]
      BY DEF ForeignCertificates
    <3> QED
      BY <3>1, CAAssumption DEF Certificate
  <2> QED
    BY <2>1 DEF Init
<1> QED
  BY <1>1, CAAssumption DEF Init, IInv, TypeOK, NothingIssuedEarly, SerialsConsecutive,
     SerialsInRange, IssuedVerifiesThroughout, NoCA, UInt64Max

(* Every step preserves the invariant; only SignCSR touches the            *)
(* certificates issued.                                                    *)
LEMMA NextInv == IInv /\ [Next]_vars => IInv'
<1> SUFFICES ASSUME IInv, [Next]_vars PROVE IInv'
  OBVIOUS
<1> USE DEF IInv
<1>1. ASSUME NEW key \in Keys, NEW serial \in Serials, NEW params \in SignParams,
             CreateRootCertificate(key, serial, params)
      PROVE  IInv'
  <2>1. roots' \subseteq Certificate
    <3>1. serial \in 0 .. UInt64Max /\ now \in Nat
      BY CAAssumption DEF TypeOK
    <3> QED
      BY <1>1, <3>1, SignedCertificateType DEF CreateRootCertificate
  <2> QED
    BY <1>1, <2>1 DEF CreateRootCertificate, TypeOK, NothingIssuedEarly,
       SerialsConsecutive, SerialsInRange, IssuedVerifiesThroughout
<1>2. ASSUME NEW params \in SignParams, NEW serial \in Serials, NEW root \in roots,
             NEW key \in Keys, Construct(params, serial, root, key)
      PROVE  IInv'
  <2>1. issued = <<>> /\ issued' = <<>>
    BY <1>2 DEF Construct, NothingIssuedEarly
  <2>2. ca' \in CAObject /\ firstSerial' \in 0 .. UInt64Max
    BY <1>2, CAAssumption DEF Construct, CAObject, TypeOK
  <2>3. ca'.nextSerialNumber = firstSerial' /\ ca'.constructed
    BY <1>2 DEF Construct
  <2>4. TypeOK'
    BY <1>2, <2>2 DEF Construct, TypeOK
  <2>5. Len(issued') = 0
    BY <2>1
  <2>6. SerialsConsecutive'
    <3>1. firstSerial' \in Int /\ ca'.nextSerialNumber = firstSerial'
      BY <2>2, <2>3
    <3>2. ca'.nextSerialNumber = firstSerial' + Len(issued')
      <4>1. \A x \in Int : x = x + 0
        OBVIOUS
      <4> QED
        BY <4>1, <3>1, <2>5, Zenon
    <3> QED
      BY <3>2, <2>5 DEF SerialsConsecutive
  <2>7. 1 .. Len(issued') = {}
    BY <2>5
  <2>8. SerialsInRange' /\ IssuedVerifiesThroughout'
    BY <2>7 DEF SerialsInRange, IssuedVerifiesThroughout
  <2> QED
    BY <2>1, <2>4, <2>6, <2>8 DEF NothingIssuedEarly
<1>3. ASSUME NEW subject \in Keys, NEW chainOk \in BOOLEAN, SignCSR(subject, chainOk)
      PROVE  IInv'
  <2> DEFINE cert == SignedCertificate(subject, ca.nextSerialNumber,
                         ca.defaultSignParams, now, ca.privateKey, chainOk)
  <2>1. ca \in CAObject
    BY <1>3 DEF SignCSR, TypeOK, NoCA
  <2>2. /\ SetSerialNumberOk(ca.nextSerialNumber)
        /\ SanityCheck(ca.rootCert, cert)
        /\ issued' = Append(issued, cert)
        /\ ca' = [ca EXCEPT !.nextSerialNumber = Incremented(@)]
        /\ UNCHANGED <<now, roots, firstSerial>>
    BY <1>3 DEF SignCSR
  <2>3. /\ ca.nextSerialNumber \in 0 .. UInt64Max /\ ca.privateKey \in Keys
        /\ ca.defaultSignParams \in SignParams /\ ca.rootCert \in Certificate
        /\ now \in Nat /\ ca.constructed
    BY <2>1 DEF CAObject, TypeOK
  <2>4. cert \in Certificate
    BY <2>3, SignedCertificateType
  <2>5. /\ Incremented(ca.nextSerialNumber) = ca.nextSerialNumber + 1
        /\ Incremented(ca.nextSerialNumber) \in 0 .. UInt64Max
        /\ AsLong(ca.nextSerialNumber) = ca.nextSerialNumber
    BY <2>2, <2>3, IncrementedNoWrap
  <2>6. cert.serial = ca.nextSerialNumber
    BY <2>5 DEF SignedCertificate
  <2>7. /\ ca' \in CAObject /\ ca'.rootCert = ca.rootCert /\ ca'.constructed
        /\ ca'.nextSerialNumber = ca.nextSerialNumber + 1
    BY <2>1, <2>2, <2>5 DEF CAObject
  <2>8. /\ issued \in Seq(Certificate) /\ Len(issued) \in Nat
        /\ issued' \in Seq(Certificate) /\ Len(issued') = Len(issued) + 1
        /\ issued'[Len(issued) + 1] = cert
        /\ \A i \in 1 .. Len(issued) : issued'[i] = issued[i]
    BY <2>2, <2>4 DEF TypeOK
  <2> HIDE DEF cert
  <2>9. \A i \in 1 .. Len(issued') : i \in 1 .. Len(issued) \/ i = Len(issued) + 1
    BY <2>8
  <2>a. TypeOK'
    BY <2>2, <2>7, <2>8 DEF TypeOK
  <2>b. SerialsConsecutive'
    <3>1. /\ firstSerial \in Nat /\ firstSerial' = firstSerial
          /\ ca.nextSerialNumber = firstSerial + Len(issued)
          /\ \A i \in 1 .. Len(issued) : issued[i].serial = firstSerial + (i - 1)
      BY <2>2, <2>3 DEF TypeOK, SerialsConsecutive
    <3>2. \A i \in 1 .. Len(issued') : issued'[i].serial = firstSerial' + (i - 1)
      <4> TAKE i \in 1 .. Len(issued')
      <4>1. CASE i \in 1 .. Len(issued)
        BY <4>1, <3>1, <2>8
      <4>2. CASE i = Len(issued) + 1
        <5>1. i - 1 = Len(issued)
          BY <4>2, <2>8
        <5> QED
          BY <4>2, <5>1, <3>1, <2>6, <2>8
      <4> QED
        BY <4>1, <4>2, <2>9
    <3> QED
      BY <3>1, <3>2, <2>7, <2>8 DEF SerialsConsecutive
  <2>c. SerialsInRange'
    <3>1. cert.serial \in 0 .. LongMax
      BY <2>2, <2>3, <2>6, CAAssumption DEF SetSerialNumberOk
    <3> QED
      BY <3>1, <2>8, <2>9 DEF SerialsInRange
  <2>d. IssuedVerifiesThroughout'
    <3>1. /\ cert.notBefore < cert.notAfter
          /\ \A t \in cert.notBefore .. (cert.notAfter - 1) :
                VerifiesAt(ca.rootCert, cert, t)
      BY <2>2, <2>3, <2>4, EndsSuffice
    <3> QED
      BY <3>1, <2>7, <2>8, <2>9 DEF IssuedVerifiesThroughout
  <2> QED
    BY <2>a, <2>b, <2>c, <2>d, <2>7 DEF NothingIssuedEarly
<1>4. CASE Tick
  <2>1. now' = now + 1 /\ UNCHANGED <<roots, ca, firstSerial, issued>>
    BY <1>4 DEF Tick
  <2>2. TypeOK'
    BY <2>1 DEF TypeOK
  <2>3. NothingIssuedEarly' /\ SerialsConsecutive' /\ SerialsInRange'
    BY <2>1 DEF NothingIssuedEarly, SerialsConsecutive, SerialsInRange
  <2>4. IssuedVerifiesThroughout'
    BY <2>1 DEF IssuedVerifiesThroughout
  <2> QED
    BY <2>2, <2>3, <2>4
<1>5. CASE UNCHANGED vars
  BY <1>5 DEF vars, TypeOK, NothingIssuedEarly, SerialsConsecutive, SerialsInRange,
     IssuedVerifiesThroughout
<1> QED
  BY <1>1, <1>2, <1>3, <1>4, <1>5 DEF Next

(* Every reachable state satisfies the inductive invariant. *)
THEOREM Invariance == Spec => []IInv
BY InitInv, NextInv, PTL DEF Spec

(* Type correctness: every member of the CA and of its certificates keeps  *)
(* its type.                                                               *)
THEOREM TypeCorrect == Spec => []TypeOK
BY Invariance, PTL DEF IInv

(* signCSR hands out consecutive serial numbers, one per certificate it    *)
(* returns and none for a request it refuses.                              *)
THEOREM SerialsAreConsecutive == Spec => []SerialsConsecutive
BY Invariance, PTL DEF IInv

(* No certificate is issued with a serial number outside a long.           *)
THEOREM SerialsStayInRange == Spec => []SerialsInRange
BY Invariance, PTL DEF IInv

(* Checking the first and the last second is enough: an issued certificate *)
(* verifies against the root during all of its validity.                   *)
THEOREM IssuedVerifies == Spec => []IssuedVerifiesThroughout
BY Invariance, PTL DEF IInv
-----------------------------------------------------------------------------
(***************************************************************************)
(* Certificate signing requests.  Whatever travels carries a signature     *)
(* that some constructor made over the subject and the key it had then;    *)
(* altering a request changes what stands beside the signature.            *)
(***************************************************************************)

(* The signature a constructor makes. *)
RequestSignature(key, digest, subject) ==
    Requests!Signature(key, Requests!EffectiveDigest(key, Requests!DigestType(key, digest)),
                       subject, key)

RequestSignatures ==
    {RequestSignature(k, d, s) : k \in Keys, d \in RequestDigests, s \in Subjects}

RequestsMade == [subject : Subjects, pubkey : Keys, signature : RequestSignatures]

(* A constructor never asks for a digest its key cannot use. *)
LEMMA DigestIsAllowed ==
    ASSUME NEW key \in Keys, NEW digest
    PROVE  Requests!DigestAllowed(key, Requests!EffectiveDigest(key, Requests!DigestType(key, digest)))
BY DEF Requests!DigestAllowed, Requests!EffectiveDigest, Requests!DigestType

(* A request verifies exactly if it is as a constructor made it. *)
LEMMA ValidIsMade ==
    ASSUME NEW r \in RequestsMade
    PROVE  Requests!Valid(r) <=> Requests!Made(r)
  <1>1. PICK k \in Keys, d \in RequestDigests, s \in Subjects :
            r.signature = RequestSignature(k, d, s)
    BY DEF RequestsMade, RequestSignatures
  <1>2. r = [subject |-> r.subject, pubkey |-> r.pubkey, signature |-> r.signature]
        /\ r.pubkey \in Keys
    BY DEF RequestsMade
  <1>3. ASSUME Requests!Valid(r) PROVE Requests!Made(r)
    <2>1. k = r.pubkey /\ s = r.subject
      BY <1>1, <1>3 DEF Requests!Valid, RequestSignature, Requests!Signature
    <2>2. r = Requests!Signed(r.subject, r.pubkey, d)
      BY <1>1, <1>2, <2>1 DEF Requests!Signed, RequestSignature
    <2> QED
      BY <2>2 DEF Requests!Made
  <1>4. ASSUME Requests!Made(r) PROVE Requests!Valid(r)
    <2>1. PICK e \in RequestDigests : r = Requests!Signed(r.subject, r.pubkey, e)
      BY <1>4 DEF Requests!Made
    <2>2. r.signature = RequestSignature(r.pubkey, e, r.subject)
      BY <2>1 DEF Requests!Signed, RequestSignature
    <2>3. Requests!DigestAllowed(r.pubkey, r.signature.digest)
      BY <1>2, <2>2, DigestIsAllowed DEF RequestSignature, Requests!Signature
    <2> QED
      BY <2>2, <2>3 DEF Requests!Valid, RequestSignature, Requests!Signature
  <1> QED
    BY <1>3, <1>4

RequestIInv ==
    /\ rReq \subseteq RequestsMade
    /\ rWire \subseteq [encoding : {"PEM", "DER"}, content : RequestsMade]
    /\ rVerified \subseteq RequestsMade /\ \A r \in rVerified : Requests!Valid(r)
    /\ rRefused \subseteq RequestsMade /\ \A r \in rRefused : ~Requests!Valid(r)
    /\ rFailed = {}

(* The invariant implies what is checked of requests. *)
LEMMA RequestIInvSuffices == RequestIInv => RequestsProveTheirKey
  <1> SUFFICES ASSUME RequestIInv PROVE RequestsProveTheirKey
    OBVIOUS
  <1>1. ASSUME NEW r \in rReq
        PROVE  /\ r.subject \in Subjects /\ r.pubkey \in Keys
               /\ Requests!DigestAllowed(r.signature.key, r.signature.digest)
    <2>1. r \in RequestsMade
      BY DEF RequestIInv
    <2>2. PICK k \in Keys, d \in RequestDigests, s \in Subjects :
              r.signature = RequestSignature(k, d, s)
      BY <2>1 DEF RequestsMade, RequestSignatures
    <2> QED
      BY <2>1, <2>2, DigestIsAllowed DEF RequestsMade, RequestSignature, Requests!Signature
  <1>2. Requests!TypeOK
    BY <1>1 DEF Requests!TypeOK
  <1>3. Requests!VerifiedWasMadeByKeyHolder /\ Requests!OwnRequestsVerify
    BY ValidIsMade DEF RequestIInv, Requests!VerifiedWasMadeByKeyHolder,
                       Requests!OwnRequestsVerify
  <1>4. Requests!EveryKeyMakesRequests
    BY DEF RequestIInv, Requests!EveryKeyMakesRequests
  <1> QED
    BY <1>2, <1>3, <1>4 DEF RequestsProveTheirKey

(* The invariant is inductive. *)
LEMMA RequestInvariance == Requests!Spec => []RequestIInv
  <1>1. Requests!Init => RequestIInv
    BY DEF Requests!Init, RequestIInv
  <1>2. ASSUME RequestIInv, [Requests!Next]_(Requests!vars) PROVE RequestIInv'
    <2>1. ASSUME NEW s \in Subjects, NEW k \in Keys, NEW d \in RequestDigests,
                 Requests!Construct(s, k, d)
          PROVE  RequestIInv'
      <3>1. /\ rReq' = rReq \union {Requests!Signed(s, k, d)}
            /\ UNCHANGED <<rWire, rVerified, rRefused, rFailed>>
        BY <2>1, DigestIsAllowed DEF Requests!Construct
      <3>2. Requests!Signed(s, k, d) \in RequestsMade
        <4>1. RequestSignature(k, d, s) \in RequestSignatures
          BY DEF RequestSignatures
        <4> QED
          BY <4>1 DEF Requests!Signed, RequestsMade, RequestSignature
      <3> QED
        BY <1>2, <3>1, <3>2 DEF RequestIInv
    <2>2. ASSUME NEW r \in rReq, Requests!Verify(r) PROVE RequestIInv'
      BY <1>2, <2>2 DEF RequestIInv, Requests!Verify
    <2>3. ASSUME NEW r \in rReq, NEW e \in {"PEM", "DER"}, Requests!Write(r, e)
          PROVE  RequestIInv'
      <3>1. [encoding |-> e, content |-> r] \in [encoding : {"PEM", "DER"}, content : RequestsMade]
        BY <1>2 DEF RequestIInv
      <3> QED
        BY <1>2, <2>3, <3>1 DEF RequestIInv, Requests!Write
    <2>4. ASSUME NEW t \in rWire, NEW e \in {"PEM", "DER"}, Requests!Read(t, e)
          PROVE  RequestIInv'
      BY <1>2, <2>4 DEF RequestIInv, Requests!Read
    <2>5. ASSUME NEW t \in rWire, NEW s \in Subjects, NEW k \in Keys, Requests!Alter(t, s, k)
          PROVE  RequestIInv'
      <3> DEFINE altered == [t EXCEPT !.content.subject = s, !.content.pubkey = k]
      <3>1. t \in [encoding : {"PEM", "DER"}, content : RequestsMade]
        BY <1>2 DEF RequestIInv
      <3>2. altered = [encoding |-> t.encoding,
                       content |-> [subject |-> s, pubkey |-> k,
                                    signature |-> t.content.signature]]
        <4> DEFINE one == [t EXCEPT !.content.subject = s]
        <4>1. altered = [one EXCEPT !.content.pubkey = k]
          OBVIOUS
        <4>2. one = [encoding |-> t.encoding,
                     content |-> [subject |-> s, pubkey |-> t.content.pubkey,
                                  signature |-> t.content.signature]]
          BY <3>1 DEF RequestsMade
        <4> HIDE DEF one, altered
        <4> QED
          BY <4>1, <4>2
      <3>3. altered \in [encoding : {"PEM", "DER"}, content : RequestsMade]
        BY <3>1, <3>2 DEF RequestsMade
      <3> HIDE DEF altered
      <3>4. rWire' = rWire \union {altered} /\ UNCHANGED <<rReq, rVerified, rRefused, rFailed>>
        BY <2>5 DEF Requests!Alter, altered
      <3> QED
        BY <1>2, <3>3, <3>4 DEF RequestIInv
    <2>6. CASE UNCHANGED Requests!vars
      BY <1>2, <2>6 DEF RequestIInv, Requests!vars
    <2> QED
      BY <1>2, <2>1, <2>2, <2>3, <2>4, <2>5, <2>6 DEF Requests!Next
  <1> QED
    BY <1>1, <1>2, PTL DEF Requests!Spec
-----------------------------------------------------------------------------
(***************************************************************************)
(* Signing parameters.  The settings are compared with what the builder    *)
(* keeps of them; then the words of a configuration string are shown to    *)
(* mean the usages they were written for.                                  *)
(***************************************************************************)

(* A sequence of one element is not empty. *)
LEMMA OneElement == ASSUME NEW e PROVE <<e>> # <<>>
  <1>1. Len(<<e>>) = 1 /\ Len(<<>>) = 0
    OBVIOUS
  <1> QED
    BY <1>1, Zenon

(* What two sequences contain one behind the other. *)
LEMMA ToSetConcat ==
    ASSUME NEW S, NEW a \in Seq(S), NEW b \in Seq(S)
    PROVE  /\ a \o b \in Seq(S)
           /\ Params!ToSet(a \o b) = Params!ToSet(a) \union Params!ToSet(b)
  <1>1. a \o b \in Seq(S) /\ Len(a \o b) = Len(a) + Len(b)
        /\ Len(a) \in Nat /\ Len(b) \in Nat
    OBVIOUS
  <1>2. /\ DOMAIN a = 1 .. Len(a) /\ DOMAIN b = 1 .. Len(b)
        /\ DOMAIN (a \o b) = 1 .. Len(a) + Len(b)
    BY <1>1
  <1>3. /\ \A i \in 1 .. Len(a) : (a \o b)[i] = a[i]
        /\ \A i \in 1 .. Len(b) : (a \o b)[i + Len(a)] = b[i]
    OBVIOUS
  <1>4. ASSUME NEW x \in Params!ToSet(a \o b) PROVE x \in Params!ToSet(a) \union Params!ToSet(b)
    <2>1. PICK i \in 1 .. Len(a) + Len(b) : x = (a \o b)[i]
      BY <1>2 DEF Params!ToSet
    <2>2. CASE i <= Len(a)
      BY <1>1, <1>2, <1>3, <2>1, <2>2 DEF Params!ToSet
    <2>3. CASE i > Len(a)
      <3>1. i - Len(a) \in 1 .. Len(b) /\ i = (i - Len(a)) + Len(a)
        BY <1>1, <2>3
      <3> QED
        BY <1>2, <1>3, <2>1, <3>1 DEF Params!ToSet
    <2> QED
      BY <1>1, <2>2, <2>3
  <1>5. ASSUME NEW x \in Params!ToSet(a) PROVE x \in Params!ToSet(a \o b)
    BY <1>1, <1>2, <1>3 DEF Params!ToSet
  <1>6. ASSUME NEW x \in Params!ToSet(b) PROVE x \in Params!ToSet(a \o b)
    <2>1. PICK i \in 1 .. Len(b) : x = b[i]
      BY <1>2 DEF Params!ToSet
    <2>2. i + Len(a) \in 1 .. Len(a) + Len(b)
      BY <1>1
    <2> QED
      BY <1>2, <1>3, <2>1, <2>2 DEF Params!ToSet
  <1> QED
    BY <1>1, <1>4, <1>5, <1>6

(* The word of a flag. *)
LEMMA WordIs ==
    ASSUME NEW u \in Params!AllUsages, NEW set
    PROVE  /\ Params!Word(u, set) \in Seq(Params!AllUsages)
           /\ Params!ToSet(Params!Word(u, set)) = {u} \intersect set
  <1>1. CASE u \in set
    <2>1. Params!Word(u, set) = <<u>>
      BY <1>1 DEF Params!Word
    <2>2. <<u>> \in Seq(Params!AllUsages) /\ DOMAIN <<u>> = {1} /\ <<u>>[1] = u
      OBVIOUS
    <2> QED
      BY <1>1, <2>1, <2>2 DEF Params!ToSet
  <1>2. CASE u \notin set
    <2>1. Params!Word(u, set) = <<>>
      BY <1>2 DEF Params!Word
    <2> QED
      BY <1>2, <2>1, EmptySeq DEF Params!ToSet
  <1> QED
    BY <1>1, <1>2

(* The configuration is the word critical followed by exactly these words. *)
Says(conf, words) ==
    \E rest \in Seq(Params!AllUsages) :
        conf = <<"critical">> \o rest /\ Params!ToSet(rest) = words

(* One more conditional word adds its usage if and only if it is set. *)
LEMMA SaysOneMore ==
    ASSUME NEW conf, NEW words, Says(conf, words), NEW u \in Params!AllUsages, NEW set
    PROVE  Says(conf \o Params!Word(u, set), words \union ({u} \intersect set))
  <1> DEFINE w == Params!Word(u, set)
             All == Params!AllUsages
  <1>1. PICK rest \in Seq(All) : conf = <<"critical">> \o rest /\ Params!ToSet(rest) = words
    BY DEF Says
  <1>2. w \in Seq(All) /\ Params!ToSet(w) = {u} \intersect set
    BY WordIs
  <1> HIDE DEF w
  <1>3. rest \o w \in Seq(All)
        /\ Params!ToSet(rest \o w) = words \union ({u} \intersect set)
    BY <1>1, <1>2, ToSetConcat
  <1>4. conf \o w = <<"critical">> \o (rest \o w)
    <2> DEFINE S == All \union {"critical"}
    <2>1. <<"critical">> \in Seq(S) /\ rest \in Seq(S) /\ w \in Seq(S)
      BY <1>2, SeqMonotonic
    <2> HIDE DEF S
    <2> QED
      BY <1>1, <2>1, ConcatAssociative
  <1> QED
    BY <1>3, <1>4 DEF Says, w

(* The configuration of a key usage extension says which usages it has. *)
LEMMA KeyUsageWords ==
    ASSUME NEW set, set \subseteq Params!AllUsages
    PROVE  Says(Params!KeyUsageConfiguration(set), set)
  <1> DEFINE W(u) == Params!Word(u, set)
             O(u) == {u} \intersect set
             c0 == <<"critical">>
             c1 == c0 \o W("decipherOnly")
             c2 == c1 \o W("encipherOnly")
             c3 == c2 \o W("cRLSign")
             c4 == c3 \o W("keyCertSign")
             c5 == c4 \o W("keyAgreement")
             c6 == c5 \o W("dataEncipherment")
             c7 == c6 \o W("keyEncipherment")
             c8 == c7 \o W("nonRepudiation")
             c9 == c8 \o W("digitalSignature")
             s0 == {}
             s1 == s0 \union O("decipherOnly")
             s2 == s1 \union O("encipherOnly")
             s3 == s2 \union O("cRLSign")
             s4 == s3 \union O("keyCertSign")
             s5 == s4 \union O("keyAgreement")
             s6 == s5 \union O("dataEncipherment")
             s7 == s6 \union O("keyEncipherment")
             s8 == s7 \union O("nonRepudiation")
             s9 == s8 \union O("digitalSignature")
  <1>1. Params!KeyUsageConfiguration(set) = c9
    BY DEF Params!KeyUsageConfiguration
  <1>2. Params!AllUsages =
            {"decipherOnly", "encipherOnly", "cRLSign", "keyCertSign", "keyAgreement",
             "dataEncipherment", "keyEncipherment", "nonRepudiation", "digitalSignature"}
    BY DEF Params!AllUsages
  <1>3. s9 = set
    BY <1>2
  <1>4. Says(c0, s0)
    <2>1. <<>> \in Seq(Params!AllUsages) /\ <<"critical">> \o <<>> = <<"critical">>
      BY EmptySeq
    <2>2. Params!ToSet(<<>>) = {}
      BY DEF Params!ToSet
    <2> QED
      BY <2>1, <2>2 DEF Says
  <1> HIDE DEF c0, c1, c2, c3, c4, c5, c6, c7, c8, c9, s0, s1, s2, s3, s4, s5, s6, s7, s8, s9
  <1>5. ASSUME NEW conf, NEW words, Says(conf, words), NEW u \in Params!AllUsages
        PROVE  Says(conf \o W(u), words \union O(u))
    BY <1>5, SaysOneMore
  <1> HIDE DEF W, O
  <1>6. Says(c3, s3)
    BY <1>2, <1>4, <1>5 DEF c1, c2, c3, s1, s2, s3
  <1>7. Says(c6, s6)
    BY <1>2, <1>5, <1>6 DEF c4, c5, c6, s4, s5, s6
  <1>8. Says(c9, s9)
    BY <1>2, <1>5, <1>7 DEF c7, c8, c9, s7, s8, s9
  <1> QED
    BY <1>1, <1>3, <1>8

(* What OpenSSL makes of the words: the extension is refused if it has no  *)
(* usage, and otherwise has the usages that were set.                      *)
LEMMA ConfOfKeyUsage ==
    ASSUME NEW set, set \subseteq Params!AllUsages
    PROVE  Params!Conf("KeyUsage", Params!KeyUsageConfiguration(set))
              \in {{}, {[nid |-> "KeyUsage", critical |-> TRUE, usages |-> set]}}
  <1> DEFINE All == Params!AllUsages
             conf == Params!KeyUsageConfiguration(set)
  <1>1. PICK rest \in Seq(All) : conf = <<"critical">> \o rest /\ Params!ToSet(rest) = set
    BY KeyUsageWords DEF Says
  <1> HIDE DEF conf
  <1>2. Len(rest) \in Nat /\ <<"critical">> \in Seq({"critical"})
    OBVIOUS
  <1>3. Len(conf) = 1 + Len(rest) /\ conf[1] = "critical" /\ conf \in Seq(All \union {"critical"})
    BY <1>1, <1>2
  <1>4. CASE Len(rest) = 0
    <2>1. ~Params!Critical(conf)
      BY <1>3, <1>4 DEF Params!Critical
    <2>2. "critical" \in Params!ToSet(conf)
      BY <1>3, <1>4 DEF Params!ToSet
    <2> QED
      BY <2>1, <2>2 DEF Params!Conf, conf
  <1>5. CASE Len(rest) > 0
    <2>1. Params!Critical(conf)
      BY <1>2, <1>3, <1>5 DEF Params!Critical
    <2>2. Tail(conf) = rest
      <3>1. Tail(conf) \in Seq(All \union {"critical"}) /\ Len(Tail(conf)) = Len(rest)
            /\ \A i \in 1 .. Len(rest) : Tail(conf)[i] = conf[i + 1]
        BY <1>2, <1>3, <1>5
      <3>2. \A i \in 1 .. Len(rest) : conf[i + 1] = rest[i]
        BY <1>1, <1>2
      <3>3. rest \in Seq(All \union {"critical"})
        BY SeqMonotonic
      <3> QED
        BY <3>1, <3>2, <3>3, SeqEqual
    <2>3. "critical" \notin set
      BY DEF Params!AllUsages
    <2> QED
      BY <1>1, <2>1, <2>2, <2>3 DEF Params!Conf, conf
  <1> QED
    BY <1>2, <1>4, <1>5

(* The basic constraints: a path length only for a CA. *)
LEMMA ConfOfBasicConstraints ==
    ASSUME NEW isCa \in BOOLEAN, NEW p
    PROVE  \E c : /\ Params!Conf("BasicConstraints", Params!BasicConstraintsConfiguration(
                                                Params!BasicConstraints(isCa, p))) = {c}
                  /\ c.nid = "BasicConstraints" /\ c.critical /\ c.ca = isCa
                  /\ isCa => c.pathlength = p
  <1> DEFINE e == Params!BasicConstraints(isCa, p)
             conf == Params!BasicConstraintsConfiguration(e)
             words == IF isCa THEN <<"CA:TRUE", p>> ELSE <<"CA:FALSE">>
             c == [nid |-> "BasicConstraints", critical |-> Params!Critical(conf),
                   ca |-> words[1] = "CA:TRUE",
                   pathlength |-> IF Len(words) = 2 THEN words[2] ELSE Params!Unset]
  <1>1. e.ca = isCa /\ e.pathlength = p
    BY DEF Params!BasicConstraints
  <1>2. Params!Critical(conf) /\ Tail(conf) = words
    <2>1. CASE isCa
      <3>1. conf = <<"critical", "CA:TRUE", p>>
        BY <1>1, <2>1 DEF Params!BasicConstraintsConfiguration
      <3> HIDE DEF conf
      <3> QED
        BY <2>1, <3>1 DEF Params!Critical
    <2>2. CASE ~isCa
      <3>1. conf = <<"critical", "CA:FALSE">>
        BY <1>1, <2>2 DEF Params!BasicConstraintsConfiguration
      <3> HIDE DEF conf
      <3> QED
        BY <2>2, <3>1 DEF Params!Critical
    <2> QED
      BY <2>1, <2>2
  <1>3. words[1] = "CA:TRUE" <=> isCa
    OBVIOUS
  <1>4. isCa => Len(words) = 2 /\ words[2] = p
    OBVIOUS
  <1> HIDE DEF words, conf
  <1>5. Params!Conf("BasicConstraints", conf) = {c}
    BY <1>2, Zenon DEF Params!Conf
  <1>6. c.nid = "BasicConstraints" /\ (c.critical <=> Params!Critical(conf))
        /\ (c.ca <=> words[1] = "CA:TRUE") /\ c.ca \in BOOLEAN
        /\ c.pathlength = IF Len(words) = 2 THEN words[2] ELSE Params!Unset
    OBVIOUS
  <1>7. c.ca = isCa
    BY <1>3, <1>6, Zenon
  <1>8. isCa => c.pathlength = p
    BY <1>4, <1>6
  <1> HIDE DEF c
  <1> QED
    BY <1>2, <1>5, <1>6, <1>7, <1>8, Zenon DEF conf

(* The identifier of the subject's key. *)
LEMMA ConfOfSubjectKeyIdentifier ==
    \E c : Params!Conf("SubjectKeyIdentifier", <<"hash">>) = {c} /\ c.nid = "SubjectKeyIdentifier"
  <1> DEFINE c == [nid |-> "SubjectKeyIdentifier", critical |-> Params!Critical(<<"hash">>)]
  <1>1. Params!Conf("SubjectKeyIdentifier", <<"hash">>) = {c}
    BY Zenon DEF Params!Conf
  <1>2. c.nid = "SubjectKeyIdentifier"
    OBVIOUS
  <1> HIDE DEF c
  <1> QED
    BY <1>1, <1>2
-----------------------------------------------------------------------------
BasicConstraintsSet == {Params!BasicConstraints(c, p) : c \in BOOLEAN, p \in PathLengths}
KeyUsageSet == {Params!KeyUsage(set) : set \in SUBSET Usages}
ExtensionSet == KeyUsageSet \union BasicConstraintsSet \union {Params!SubjectKeyIdentifier}

Kinds == Params!ExtensionNIDs \union {"notBefore", "validity", "digest"}
SettingSet == [kind : Kinds, value : ExtensionSet \union Lifetimes \union Digests \union Times]

(* What a setting of the builder holds and what was set last agree. *)
ParameterIInv ==
    /\ pUsages \subseteq Usages
    /\ pSettings \in Seq(SettingSet) /\ Len(pSettings) <= MaxSettings
    /\ DOMAIN pExtensions = Params!ExtensionNIDs /\ pExtensions \in [Params!ExtensionNIDs -> Seq(ExtensionSet)]
    /\ \A nid \in Params!ExtensionNIDs :
          \/ pExtensions[nid] = <<>> /\ Params!LastSet(nid) = {}
          \/ \E e \in ExtensionSet : e.nid = nid /\ pExtensions[nid] = <<e>>
                                     /\ Params!LastSet(nid) = {e}
    /\ \/ pNotBefore = <<>> /\ Params!LastSet("notBefore") = {}
       \/ \E t \in Times : pNotBefore = <<t>> /\ Params!LastSet("notBefore") = {t}
    /\ pValidity \in Lifetimes /\ Params!LastSet("validity") \in {{}, {pValidity}}
    /\ pDigest \in Digests /\ Params!LastSet("digest") \in {{}, {pDigest}}
    /\ Params!CertificateSaysWhatWasAsked
    /\ Params!SettingsAreUsed

(* A setting of a kind is the last one of its kind, and leaves those of    *)
(* the other kinds as they were.                                           *)
LEMMA LastSetFollows ==
    ASSUME NEW kind, NEW value, [kind |-> kind, value |-> value] \in SettingSet,
           pSettings \in Seq(SettingSet), Params!Setting(kind, value)
    PROVE  /\ pSettings' \in Seq(SettingSet) /\ Len(pSettings') <= MaxSettings
           /\ Params!LastSet(kind)' = {value}
           /\ \A other : other # kind => Params!LastSet(other)' = Params!LastSet(other)
           /\ pCertificate' = <<>>
  <1> DEFINE s == pSettings
             n == Len(pSettings)
             c == [kind |-> kind, value |-> value]
  <1>1. pSettings' = Append(s, c) /\ n < MaxSettings /\ pCertificate' = <<>>
    BY DEF Params!Setting
  <1>2. /\ pSettings' \in Seq(SettingSet) /\ n \in Nat /\ Len(pSettings') = n + 1
        /\ DOMAIN pSettings' = 1 .. n + 1 /\ DOMAIN s = 1 .. n
        /\ \A i \in 1 .. n : pSettings'[i] = s[i]
        /\ pSettings'[n + 1] = c
    BY <1>1, AppendProperties
  <1>3. Len(pSettings') <= MaxSettings
    BY <1>1, <1>2, IssuingAssumption DEF Params!ParametersAssumption
  <1>4. c.kind = kind /\ c.value = value
    OBVIOUS
  <1> HIDE DEF n, s, c
  <1>5. Params!LastSet(kind)' = {value}
    <2> DEFINE calls == {i \in DOMAIN pSettings' : pSettings'[i].kind = kind}
    <2>1. n + 1 \in calls /\ \A i \in calls : i \in Int /\ i <= n + 1
      BY <1>2, <1>4
    <2>2. {i \in calls : \A m \in calls : m <= i} = {n + 1}
      <3> HIDE DEF calls
      <3>1. ASSUME NEW i \in calls, \A m \in calls : m <= i PROVE i = n + 1
        BY <1>2, <2>1, <3>1
      <3>2. \A m \in calls : m <= n + 1
        BY <2>1
      <3> QED
        BY <2>1, <3>1, <3>2
    <2>3. Params!LastSet(kind)' = {pSettings'[i].value : i \in {i \in calls : \A m \in calls : m <= i}}
      BY DEF Params!LastSet
    <2> QED
      BY <1>2, <1>4, <2>2, <2>3
  <1>6. ASSUME NEW other, other # kind PROVE Params!LastSet(other)' = Params!LastSet(other)
    <2> DEFINE new == {i \in DOMAIN pSettings' : pSettings'[i].kind = other}
               old == {i \in DOMAIN s : s[i].kind = other}
               top(calls) == {i \in calls : \A m \in calls : m <= i}
    <2>1. new = old
      BY <1>2, <1>4, <1>6
    <2>2. \A i \in old : pSettings'[i].value = s[i].value
      BY <1>2
    <2>3. Params!LastSet(other)' = {pSettings'[i].value : i \in top(new)}
      BY DEF Params!LastSet
    <2>4. Params!LastSet(other) = {s[i].value : i \in top(old)}
      BY DEF Params!LastSet, s
    <2>5. top(old) \subseteq old
      OBVIOUS
    <2> HIDE DEF new, old, top
    <2> QED
      BY <2>1, <2>2, <2>3, <2>4, <2>5
  <1> QED
    BY <1>1, <1>2, <1>3, <1>5, <1>6

(* What building an extension yields, from what was set last of its kind. *)
LEMMA BuiltAsSet ==
    ASSUME ParameterIInv, NEW nid \in Params!ExtensionNIDs,
           pExtensions[nid] # <<>> => Params!BuildExtension(nid) # {}
    PROVE  /\ Params!LastSet(nid) = {} => Params!BuildExtension(nid) = {}
           /\ \A e \in Params!LastSet(nid) :
                 \E c : /\ Params!BuildExtension(nid) = {c} /\ c.nid = nid
                        /\ nid = "KeyUsage" =>
                              c = [nid |-> "KeyUsage", critical |-> TRUE, usages |-> e.usages]
                        /\ nid = "BasicConstraints" =>
                              c.critical /\ c.ca = e.ca /\ (e.ca => c.pathlength = e.pathlength)
  <1>1. CASE pExtensions[nid] = <<>>
    <2>1. Params!BuildExtension(nid) = {}
      BY <1>1 DEF Params!BuildExtension
    <2>2. Params!LastSet(nid) = {}
      <3>1. ASSUME NEW e, pExtensions[nid] = <<e>> PROVE FALSE
        BY <1>1, <3>1, OneElement
      <3> QED
        BY <3>1 DEF ParameterIInv
    <2> QED
      BY <2>1, <2>2
  <1>2. CASE pExtensions[nid] # <<>>
    <2>1. PICK e \in ExtensionSet : e.nid = nid /\ pExtensions[nid] = <<e>>
                                    /\ Params!LastSet(nid) = {e}
      BY <1>2 DEF ParameterIInv
    <2>2. Params!BuildExtension(nid) = Params!Conf(nid, Params!ConfigurationString(e))
          /\ Params!BuildExtension(nid) # {}
      <3>1. pExtensions[nid][1] = e
        BY <2>1
      <3> QED
        BY <1>2, <3>1 DEF Params!BuildExtension
    <2>3. CASE e \in KeyUsageSet
      <3>1. PICK set \in SUBSET Usages : e = Params!KeyUsage(set)
        BY <2>3 DEF KeyUsageSet
      <3>2. e.nid = "KeyUsage" /\ e.usages = set
        BY <3>1 DEF Params!KeyUsage
      <3>3. set \subseteq Params!AllUsages
        BY IssuingAssumption DEF Params!ParametersAssumption
      <3>4. Params!ConfigurationString(e) = Params!KeyUsageConfiguration(set)
        BY <3>2 DEF Params!ConfigurationString
      <3>5. nid = "KeyUsage"
        BY <2>1, <3>2
      <3> DEFINE c == [nid |-> "KeyUsage", critical |-> TRUE, usages |-> set]
      <3>6. Params!BuildExtension(nid) \in {{}, {c}}
        BY <2>2, <3>3, <3>4, <3>5, ConfOfKeyUsage
      <3>7. c.nid = "KeyUsage"
        OBVIOUS
      <3> QED
        BY <2>1, <2>2, <3>2, <3>5, <3>6, <3>7
    <2>4. CASE e \in BasicConstraintsSet
      <3>1. PICK isCa \in BOOLEAN, p \in PathLengths : e = Params!BasicConstraints(isCa, p)
        BY <2>4 DEF BasicConstraintsSet
      <3>2. e.nid = "BasicConstraints" /\ e.ca = isCa /\ e.pathlength = p
        BY <3>1 DEF Params!BasicConstraints
      <3>3. Params!ConfigurationString(e) = Params!BasicConstraintsConfiguration(e)
        BY <3>2 DEF Params!ConfigurationString
      <3>4. nid = "BasicConstraints"
        BY <2>1, <3>2
      <3>5. PICK c : /\ Params!BuildExtension(nid) = {c} /\ c.nid = "BasicConstraints"
                     /\ c.critical /\ c.ca = isCa /\ (isCa => c.pathlength = p)
        BY <2>2, <3>1, <3>3, <3>4, ConfOfBasicConstraints
      <3> QED
        BY <2>1, <2>2, <3>2, <3>4, <3>5
    <2>5. CASE e = Params!SubjectKeyIdentifier
      <3>1. e.nid = "SubjectKeyIdentifier"
        BY <2>5 DEF Params!SubjectKeyIdentifier
      <3>2. Params!ConfigurationString(e) = <<"hash">> /\ nid = "SubjectKeyIdentifier"
        BY <2>1, <3>1 DEF Params!ConfigurationString
      <3>3. PICK c : Params!BuildExtension(nid) = {c} /\ c.nid = "SubjectKeyIdentifier"
        BY <2>2, <3>2, ConfOfSubjectKeyIdentifier
      <3> QED
        BY <2>1, <2>2, <3>2, <3>3
    <2> QED
      BY <2>3, <2>4, <2>5 DEF ExtensionSet
  <1> QED
    BY <1>1, <1>2

(* The invariant holds of everything a caller does with the builder. *)
LEMMA ParameterInvariance == Params!Spec => []ParameterIInv
  <1> USE DEF Params!ExtensionNIDs
  <1>1. Params!Init => ParameterIInv
    <2> SUFFICES ASSUME Params!Init PROVE ParameterIInv
      OBVIOUS
    <2>1. pSettings = <<>> /\ \A kind : Params!LastSet(kind) = {}
      BY DEF Params!Init, Params!LastSet
    <2>2. <<>> \in Seq(SettingSet) /\ Len(<<>>) <= MaxSettings /\ <<>> \in Seq(ExtensionSet)
      BY EmptySeq, IssuingAssumption DEF Params!ParametersAssumption
    <2> QED
      BY <2>1, <2>2 DEF Params!Init, ParameterIInv, Params!CertificateSaysWhatWasAsked,
                        Params!SettingsAreUsed
  <1>2. ASSUME ParameterIInv, [Params!Next]_(Params!vars) PROVE ParameterIInv'
    <2>1. ASSUME UNCHANGED <<pExtensions, pValidity, pDigest, pNotBefore, pSettings, pCertificate>>,
                 pUsages' \subseteq Usages
          PROVE  ParameterIInv'
      <3>1. \A kind : Params!LastSet(kind)' = Params!LastSet(kind)
        BY <2>1 DEF Params!LastSet
      <3>2. Params!CertificateSaysWhatWasAsked' /\ Params!SettingsAreUsed'
        BY <1>2, <2>1, <3>1 DEF ParameterIInv, Params!CertificateSaysWhatWasAsked,
                                Params!SettingsAreUsed
      <3> QED
        BY <1>2, <2>1, <3>1, <3>2 DEF ParameterIInv
    <2>2. ASSUME NEW u \in Usages, Params!SetUsage(u) PROVE ParameterIInv'
      BY <1>2, <2>1, <2>2 DEF Params!SetUsage, ParameterIInv
    <2>3. ASSUME NEW e \in ExtensionSet, e.nid \in Params!ExtensionNIDs, Params!AddExtension(e)
          PROVE  ParameterIInv'
      <3>1. [kind |-> e.nid, value |-> e] \in SettingSet
        BY <2>3 DEF SettingSet, Kinds
      <3>2. /\ pSettings' \in Seq(SettingSet) /\ Len(pSettings') <= MaxSettings
            /\ Params!LastSet(e.nid)' = {e}
            /\ \A other : other # e.nid => Params!LastSet(other)' = Params!LastSet(other)
            /\ pCertificate' = <<>>
        BY <1>2, <2>3, <3>1, LastSetFollows DEF Params!AddExtension, ParameterIInv
      <3>3. pExtensions' = [pExtensions EXCEPT ![e.nid] = <<e>>]
            /\ UNCHANGED <<pUsages, pValidity, pDigest, pNotBefore>>
        BY <2>3 DEF Params!AddExtension
      <3>4. <<e>> \in Seq(ExtensionSet)
        OBVIOUS
      <3>5. DOMAIN pExtensions' = Params!ExtensionNIDs /\ pExtensions' \in [Params!ExtensionNIDs -> Seq(ExtensionSet)]
        BY <1>2, <2>3, <3>3, <3>4 DEF ParameterIInv
      <3>6. ASSUME NEW nid \in Params!ExtensionNIDs
            PROVE  \/ pExtensions'[nid] = <<>> /\ Params!LastSet(nid)' = {}
                   \/ \E x \in ExtensionSet : x.nid = nid /\ pExtensions'[nid] = <<x>>
                                              /\ Params!LastSet(nid)' = {x}
        <4>1. CASE nid = e.nid
          <5>1. pExtensions'[nid] = <<e>>
            BY <1>2, <2>3, <3>3, <4>1 DEF ParameterIInv
          <5> QED
            BY <3>2, <4>1, <5>1
        <4>2. CASE nid # e.nid
          <5>1. pExtensions'[nid] = pExtensions[nid]
            BY <1>2, <2>3, <3>3, <4>2 DEF ParameterIInv
          <5> QED
            BY <1>2, <3>2, <4>2, <5>1 DEF ParameterIInv
        <4> QED
          BY <4>1, <4>2
      <3>7. e.nid # "notBefore" /\ e.nid # "validity" /\ e.nid # "digest"
        BY <2>3
      <3>8. Params!CertificateSaysWhatWasAsked' /\ Params!SettingsAreUsed'
        BY <3>2 DEF Params!CertificateSaysWhatWasAsked, Params!SettingsAreUsed
      <3> QED
        BY <1>2, <3>2, <3>3, <3>5, <3>6, <3>7, <3>8 DEF ParameterIInv
    <2>4. ASSUME NEW kind \in {"notBefore", "validity", "digest"}, NEW value,
                 value \in Lifetimes \union Digests \union Times, Params!Setting(kind, value),
                 UNCHANGED <<pUsages, pExtensions>>
          PROVE  /\ pSettings' \in Seq(SettingSet) /\ Len(pSettings') <= MaxSettings
                 /\ Params!LastSet(kind)' = {value}
                 /\ \A other : other # kind => Params!LastSet(other)' = Params!LastSet(other)
                 /\ Params!CertificateSaysWhatWasAsked' /\ Params!SettingsAreUsed'
                 /\ \A nid \in Params!ExtensionNIDs : Params!LastSet(nid)' = Params!LastSet(nid)
      <3>1. [kind |-> kind, value |-> value] \in SettingSet
        BY <2>4 DEF SettingSet, Kinds
      <3>2. /\ pSettings' \in Seq(SettingSet) /\ Len(pSettings') <= MaxSettings
            /\ Params!LastSet(kind)' = {value}
            /\ \A other : other # kind => Params!LastSet(other)' = Params!LastSet(other)
            /\ pCertificate' = <<>>
        BY <1>2, <2>4, <3>1, LastSetFollows DEF ParameterIInv
      <3>3. Params!CertificateSaysWhatWasAsked' /\ Params!SettingsAreUsed'
        BY <3>2 DEF Params!CertificateSaysWhatWasAsked, Params!SettingsAreUsed
      <3> QED
        BY <3>2, <3>3
    <2>5. ASSUME NEW v \in Lifetimes, Params!SetValidity(v) PROVE ParameterIInv'
      <3>1. Params!Setting("validity", v) /\ pValidity' = v
            /\ UNCHANGED <<pUsages, pExtensions, pDigest, pNotBefore>>
        BY <2>5 DEF Params!SetValidity
      <3> QED
        BY <1>2, <2>4, <3>1 DEF ParameterIInv
    <2>6. ASSUME NEW d \in Digests, Params!SetDigest(d) PROVE ParameterIInv'
      <3>1. Params!Setting("digest", d) /\ pDigest' = d
            /\ UNCHANGED <<pUsages, pExtensions, pValidity, pNotBefore>>
        BY <2>6 DEF Params!SetDigest
      <3> QED
        BY <1>2, <2>4, <3>1 DEF ParameterIInv
    <2>7. ASSUME NEW t \in Times, Params!SetNotBefore(t) PROVE ParameterIInv'
      <3>1. Params!Setting("notBefore", t) /\ pNotBefore' = <<t>>
            /\ UNCHANGED <<pUsages, pExtensions, pValidity, pDigest>>
        BY <2>7 DEF Params!SetNotBefore
      <3> QED
        BY <1>2, <2>4, <3>1 DEF ParameterIInv
    <2>8. ASSUME NEW clock \in Times, Params!Sign(clock) PROVE ParameterIInv'
      <3> DEFINE carried == UNION {Params!BuildExtension(nid) : nid \in Params!ExtensionNIDs}
                 start == Params!NotBeforeAsn1(clock)
                 cert == [clock |-> clock, digest |-> pDigest, notBefore |-> start,
                          notAfter |-> start + pValidity, extensions |-> carried]
      <3>1. Params!AllBuilt /\ pCertificate' = <<cert>>
            /\ UNCHANGED <<pUsages, pExtensions, pValidity, pDigest, pNotBefore, pSettings>>
        BY <2>8 DEF Params!Sign
      <3>2. \A kind : Params!LastSet(kind)' = Params!LastSet(kind)
        BY <3>1 DEF Params!LastSet
      <3>3. pCertificate'[1] = cert /\ cert.extensions = carried /\ cert.clock = clock
            /\ cert.digest = pDigest /\ cert.notBefore = start
            /\ cert.notAfter = start + pValidity
        BY <3>1
      <3>4. \A nid \in Params!ExtensionNIDs : pExtensions[nid] # <<>> => Params!BuildExtension(nid) # {}
        BY <3>1 DEF Params!AllBuilt
      <3>5. \A nid \in Params!ExtensionNIDs :
              /\ Params!LastSet(nid) = {} => Params!BuildExtension(nid) = {}
              /\ \A e \in Params!LastSet(nid) :
                   \E c : /\ Params!BuildExtension(nid) = {c} /\ c.nid = nid
                          /\ nid = "KeyUsage" =>
                                c = [nid |-> "KeyUsage", critical |-> TRUE, usages |-> e.usages]
                          /\ nid = "BasicConstraints" =>
                                c.critical /\ c.ca = e.ca /\ (e.ca => c.pathlength = e.pathlength)
        BY <1>2, <3>4, BuiltAsSet
      <3>6. start \in Int /\ pValidity \in Int /\ clock \in Int
        <4>1. Times \subseteq Int /\ Lifetimes \subseteq Int
          BY IssuingAssumption DEF Params!ParametersAssumption
        <4> QED
          BY <1>2, <4>1 DEF ParameterIInv, Params!NotBeforeAsn1
      <3>7. \/ start = clock - 1 /\ Params!LastSet("notBefore") = {}
            \/ Params!LastSet("notBefore") = {start}
        <4>1. \/ pNotBefore = <<>> /\ Params!LastSet("notBefore") = {}
              \/ \E t \in Times : pNotBefore = <<t>> /\ Params!LastSet("notBefore") = {t}
          BY <1>2 DEF ParameterIInv
        <4>2. start = IF pNotBefore # <<>> THEN pNotBefore[1] ELSE clock - 1
          BY DEF Params!NotBeforeAsn1
        <4>3. \A t : <<t>> # <<>> /\ <<t>>[1] = t
          OBVIOUS
        <4> HIDE DEF start
        <4> QED
          BY <4>1, <4>2, <4>3
      <3> HIDE DEF start, cert
      <3>8. Params!SettingsAreUsed'
        <4>1. cert.notAfter - cert.notBefore = pValidity
          BY <3>3, <3>6
        <4> QED
          BY <1>2, <3>2, <3>3, <3>7, <4>1 DEF ParameterIInv, Params!SettingsAreUsed
      <3>9. Params!CertificateSaysWhatWasAsked'
        <4>1. \A e \in Params!LastSet("KeyUsage") :
                [nid |-> "KeyUsage", critical |-> TRUE, usages |-> e.usages] \in carried
          <5>1. ASSUME NEW e \in Params!LastSet("KeyUsage")
                PROVE  [nid |-> "KeyUsage", critical |-> TRUE, usages |-> e.usages]
                          \in Params!BuildExtension("KeyUsage")
            BY <3>5
          <5> QED
            BY <5>1
        <4>2. \A e \in Params!LastSet("BasicConstraints") :
                \E c \in carried : /\ c.nid = "BasicConstraints" /\ c.critical /\ c.ca = e.ca
                                   /\ e.ca => c.pathlength = e.pathlength
          <5>1. ASSUME NEW e \in Params!LastSet("BasicConstraints")
                PROVE  \E c \in Params!BuildExtension("BasicConstraints") :
                          /\ c.nid = "BasicConstraints" /\ c.critical /\ c.ca = e.ca
                          /\ e.ca => c.pathlength = e.pathlength
            BY <3>5
          <5> QED
            BY <5>1
        <4>3. \A e \in Params!LastSet("SubjectKeyIdentifier") :
                \E c \in carried : c.nid = "SubjectKeyIdentifier"
          BY <3>5
        <4>4. \A c \in carried : Params!LastSet(c.nid) # {}
          <5>1. ASSUME NEW nid \in Params!ExtensionNIDs, NEW c \in Params!BuildExtension(nid)
                PROVE  Params!LastSet(c.nid) # {}
            BY <3>5
          <5> QED
            BY <5>1
        <4> HIDE DEF carried
        <4> QED
          BY <3>2, <3>3, <4>1, <4>2, <4>3, <4>4 DEF Params!CertificateSaysWhatWasAsked
      <3> QED
        BY <1>2, <3>1, <3>2, <3>8, <3>9 DEF ParameterIInv
    <2>9. CASE UNCHANGED Params!vars
      BY <1>2, <2>1, <2>9 DEF Params!vars, ParameterIInv
    <2>10. ASSUME Params!AddExtension(Params!KeyUsage(pUsages)) PROVE ParameterIInv'
      <3>1. Params!KeyUsage(pUsages) \in ExtensionSet /\ Params!KeyUsage(pUsages).nid = "KeyUsage"
        BY <1>2 DEF ExtensionSet, KeyUsageSet, ParameterIInv, Params!KeyUsage
      <3> QED
        BY <2>3, <2>10, <3>1
    <2>11. ASSUME NEW isCa \in BOOLEAN, NEW p \in PathLengths,
                  Params!AddExtension(Params!BasicConstraints(isCa, p))
           PROVE  ParameterIInv'
      <3>1. /\ Params!BasicConstraints(isCa, p) \in ExtensionSet
            /\ Params!BasicConstraints(isCa, p).nid = "BasicConstraints"
        BY DEF ExtensionSet, BasicConstraintsSet, Params!BasicConstraints
      <3> QED
        BY <2>3, <2>11, <3>1
    <2>12. ASSUME Params!AddExtension(Params!SubjectKeyIdentifier) PROVE ParameterIInv'
      <3>1. /\ Params!SubjectKeyIdentifier \in ExtensionSet
            /\ Params!SubjectKeyIdentifier.nid = "SubjectKeyIdentifier"
        BY DEF ExtensionSet, Params!SubjectKeyIdentifier
      <3> QED
        BY <2>3, <2>12, <3>1
    <2> QED
      BY <1>2, <2>2, <2>5, <2>6, <2>7, <2>8, <2>9, <2>10, <2>11, <2>12 DEF Params!Next
  <1> QED
    BY <1>1, <1>2, PTL DEF Params!Spec

(* The invariant implies what is checked of the parameters. *)
LEMMA ParameterIInvSuffices == ParameterIInv => CertificateIsAsAsked
  <1> SUFFICES ASSUME ParameterIInv PROVE CertificateIsAsAsked
    OBVIOUS
  <1>1. ASSUME NEW nid \in Params!ExtensionNIDs, pExtensions[nid] # <<>> PROVE pExtensions[nid][1].nid = nid
    <2>1. PICK e \in ExtensionSet : e.nid = nid /\ pExtensions[nid] = <<e>>
      BY <1>1 DEF ParameterIInv
    <2> QED
      BY <2>1
  <1>2. Params!TypeOK
    BY <1>1 DEF ParameterIInv, Params!TypeOK
  <1> QED
    BY <1>2 DEF ParameterIInv, CertificateIsAsAsked
-----------------------------------------------------------------------------
(* The order of numbers, for the induction of the lemmas below. *)
Less == {ss \in Nat \X Nat : ss[1] < ss[2]}

(* A set of naturals that is not empty has a least element. *)
LEMMA LeastNumber ==
    ASSUME NEW T \in SUBSET Nat, T # {}
    PROVE  \E x \in T : \A y \in T : x <= y
  <1>1. IsWellFoundedOn(Less, Nat)
    BY NatLessThanWellFounded DEF OpToRel, Less
  <1>2. PICK x \in T : \A y \in T : <<y, x>> \notin Less
    <2>1. T \subseteq Nat
      OBVIOUS
    <2> QED
      BY <1>1, <2>1, WFMin
  <1>3. ASSUME NEW y \in T PROVE x <= y
    <2>1. x \in Nat /\ y \in Nat
      OBVIOUS
    <2>2. <<y, x>> \in Nat \X Nat /\ <<y, x>>[1] = y /\ <<y, x>>[2] = x
      BY <2>1
    <2>3. ~(y < x)
      BY <1>2, <2>2 DEF Less
    <2> QED
      BY <2>1, <2>3
  <1> QED
    BY <1>3

(* A function of numbers on 0 .. n can be computed step by step. *)
LEMMA StepsExist ==
    ASSUME NEW x \in Nat, NEW n \in Nat, NEW h \in [(1 .. n) \X Nat -> Nat]
    PROVE  \E f \in [0 .. n -> Nat] : f[0] = x /\ \A i \in 1 .. n : f[i] = h[<<i, f[i - 1]>>]
  <1> DEFINE Computes(f, m) == /\ f \in [0 .. m -> Nat] /\ f[0] = x
                               /\ \A i \in 1 .. m : f[i] = h[<<i, f[i - 1]>>]
             Without == {m \in Nat : m <= n /\ ~ \E f : Computes(f, m)}
  <1>1. Without = {}
    <2> SUFFICES ASSUME Without # {} PROVE FALSE
      OBVIOUS
    <2>1. PICK m \in Without : \A k \in Without : m <= k
      BY LeastNumber
    <2>2. m # 0
      <3>1. Computes([i \in 0 .. 0 |-> x], 0)
        OBVIOUS
      <3> QED
        BY <3>1
    <2>3. m - 1 \in Nat /\ m - 1 \notin Without
      <3>1. m \in Nat /\ m - 1 \in Nat /\ ~(m <= m - 1)
        BY <2>2
      <3> HIDE DEF Without
      <3> QED
        BY <2>1, <3>1
    <2>4. PICK f : Computes(f, m - 1)
      BY <2>3
    <2> DEFINE g == [i \in 0 .. m |-> IF i = m THEN h[<<m, f[m - 1]>>] ELSE f[i]]
    <2>5. Computes(g, m)
      <3>1. m \in 1 .. n /\ m - 1 \in 0 .. m - 1
        BY <2>2, <2>3
      <3>2. h[<<m, f[m - 1]>>] \in Nat
        BY <2>4, <3>1
      <3>3. g \in [0 .. m -> Nat]
        <4> SUFFICES ASSUME NEW i \in 0 .. m
                     PROVE  (IF i = m THEN h[<<m, f[m - 1]>>] ELSE f[i]) \in Nat
          OBVIOUS
        <4>1. i # m => i \in 0 .. m - 1
          BY <2>3
        <4> QED
          BY <2>4, <3>2, <4>1
      <3>4. g[0] = x
        BY <2>2, <2>3, <2>4
      <3>5. ASSUME NEW i \in 1 .. m PROVE g[i] = h[<<i, g[i - 1]>>]
        <4>1. i - 1 \in 0 .. m /\ i - 1 # m /\ g[i - 1] = f[i - 1]
          BY <2>3
        <4>2. i \in 0 .. m /\ g[i] = IF i = m THEN h[<<m, f[m - 1]>>] ELSE f[i]
          BY <2>3
        <4>3. CASE i = m
          <5>1. g[i] = h[<<i, f[i - 1]>>]
            BY <4>2, <4>3
          <5> HIDE DEF g
          <5> QED
            BY <4>1, <5>1
        <4>4. CASE i # m
          <5>1. i \in 1 .. m - 1
            BY <2>3, <4>4
          <5>2. f[i] = h[<<i, f[i - 1]>>]
            BY <2>4, <5>1
          <5>3. g[i] = f[i]
            BY <4>2, <4>4
          <5> HIDE DEF g
          <5> QED
            BY <4>1, <5>2, <5>3
        <4> QED
          BY <4>3, <4>4
      <3> QED
        BY <3>3, <3>4, <3>5
    <2> QED
      BY <2>5
  <1>2. \E f : Computes(f, n)
    <2>1. n \notin Without
      <3> HIDE DEF Without
      <3> QED
        BY <1>1
    <2>2. n <= n
      OBVIOUS
    <2> HIDE DEF Computes
    <2> QED
      BY <2>1, <2>2
  <1> QED
    BY <1>2

(* Division by a radix *)
LEMMA DivisionByRadix ==
    ASSUME NEW radix \in Nat, radix > 1, NEW n \in Nat
    PROVE  /\ n \div radix \in Nat /\ n % radix \in 0 .. radix - 1
           /\ n = (n \div radix) * radix + (n % radix)
           /\ n # 0 => n \div radix <= n - 1
           /\ n \div radix = 0 => n % radix = n
  <1>1. /\ n \div radix \in Nat /\ n % radix \in 0 .. radix - 1
        /\ n = (n \div radix) * radix + (n % radix)
    OBVIOUS
  <1> DEFINE q == n \div radix
  <1>2. n # 0 => q <= n - 1
    <2> SUFFICES ASSUME n # 0, n <= q PROVE FALSE
      BY <1>1
    <2>1. q \in Nat /\ n = q * radix + (n % radix)
      BY <1>1
    <2> HIDE DEF q
    <2>2. q * 2 <= q * radix /\ q * 2 = q + q /\ q * radix \in Nat
      BY <2>1
    <2> QED
      BY <1>1, <2>1, <2>2
  <1>3. q = 0 => n % radix = n
    <2> SUFFICES ASSUME q = 0 PROVE n % radix = n
      OBVIOUS
    <2>1. n = q * radix + (n % radix) /\ n % radix \in Nat
      BY <1>1
    <2> HIDE DEF q
    <2>2. q * radix = 0
      OBVIOUS
    <2> QED
      BY <2>1, <2>2
  <1> QED
    BY <1>1, <1>2, <1>3

(* Leading() divides step by step. *)
LEMMA LeadingSteps ==
    ASSUME NEW radix \in Nat, radix > 1, NEW n \in Nat
    PROVE  /\ SerialNumbers!Leading(n, radix) \in [0 .. n -> Nat]
           /\ SerialNumbers!Leading(n, radix)[0] = n
           /\ \A j \in 1 .. n : SerialNumbers!Leading(n, radix)[j]
                                   = SerialNumbers!Leading(n, radix)[j - 1] \div radix
  <1> DEFINE h == [a \in (1 .. n) \X Nat |-> a[2] \div radix]
  <1>1. h \in [(1 .. n) \X Nat -> Nat]
    <2> SUFFICES ASSUME NEW a \in (1 .. n) \X Nat PROVE a[2] \div radix \in Nat
      OBVIOUS
    <2> QED
      BY DivisionByRadix
  <1>2. PICK f \in [0 .. n -> Nat] :
            f[0] = n /\ \A i \in 1 .. n : f[i] = h[<<i, f[i - 1]>>]
    <2> HIDE DEF h
    <2> QED
      BY <1>1, StepsExist
  <1>3. ASSUME NEW i \in 1 .. n PROVE f[i] = f[i - 1] \div radix
    <2>1. f[i - 1] \in Nat
      OBVIOUS
    <2> QED
      BY <1>2, <2>1
  <1> DEFINE Fix(c) == c = [j \in 0 .. n |-> IF j = 0 THEN n ELSE c[j - 1] \div radix]
             cut    == CHOOSE c : Fix(c)
  <1>4. Fix(f)
    <2>1. ASSUME NEW j \in 0 .. n
          PROVE  f[j] = IF j = 0 THEN n ELSE f[j - 1] \div radix
      BY <1>2, <1>3
    <2> HIDE DEF h
    <2> QED
      BY <2>1
  <1>5. Fix(cut)
    BY <1>4
  <1>6. SerialNumbers!Leading(n, radix) = cut
    BY DEF SerialNumbers!Leading
  <1> HIDE DEF cut, Fix
  <1>7. cut = [j \in 0 .. n |-> IF j = 0 THEN n ELSE cut[j - 1] \div radix]
    BY <1>5 DEF Fix
  <1>8. \A j \in 0 .. n : cut[j] = IF j = 0 THEN n ELSE cut[j - 1] \div radix
    BY <1>7
  <1>9. \A j \in 0 .. n : cut[j] = f[j]
    <2> DEFINE Differ == {j \in Nat : j <= n /\ cut[j] # f[j]}
    <2>1. Differ = {}
      <3> SUFFICES ASSUME Differ # {} PROVE FALSE
        OBVIOUS
      <3>1. PICK j \in Differ : \A k \in Differ : j <= k
        BY LeastNumber
      <3>2. j # 0
        BY <1>2, <1>8
      <3>3. j - 1 \in Nat /\ j - 1 \notin Differ
        <4>1. j - 1 \in Nat /\ ~(j <= j - 1)
          BY <3>2
        <4> HIDE DEF Differ
        <4> QED
          BY <3>1, <4>1
      <3>4. cut[j - 1] = f[j - 1]
        BY <3>3
      <3>5. cut[j] = cut[j - 1] \div radix /\ f[j] = f[j - 1] \div radix
        BY <1>3, <1>8, <3>2
      <3> QED
        BY <3>4, <3>5
    <2> QED
      BY <2>1
  <1>10. cut \in [0 .. n -> Nat]
    BY <1>7, <1>9
  <1> QED
    BY <1>2, <1>3, <1>6, <1>9, <1>10

(* A number is read digit by digit. *)
LEMMA ReadSteps ==
    ASSUME NEW radix \in Nat, radix > 1, NEW digits \in Seq(Nat)
    PROVE  \E f \in [0 .. Len(digits) -> Nat] :
              /\ f[0] = 0
              /\ \A i \in 1 .. Len(digits) : f[i] = f[i - 1] * radix + digits[i]
              /\ SerialNumbers!Value(digits, radix) = f[Len(digits)]
  <1> DEFINE length == Len(digits)
             h == [a \in (1 .. length) \X Nat |-> a[2] * radix + digits[a[1]]]
  <1>1. length \in Nat
    BY LenProperties
  <1>2. radix \in Nat /\ radix > 1
    OBVIOUS
  <1>3. ASSUME NEW i \in 1 .. length PROVE digits[i] \in Nat
    BY ElementOfSeq
  <1>n. SerialNumbers!Value(digits, radix) = (CHOOSE c : c = [j \in 0 .. Len(digits) |->
                          IF j = 0 THEN 0 ELSE c[j - 1] * radix + digits[j]])[Len(digits)]
    BY DEF SerialNumbers!Value
  <1> HIDE DEF length
  <1>4. h \in [(1 .. length) \X Nat -> Nat]
    <2> SUFFICES ASSUME NEW a \in (1 .. length) \X Nat
                 PROVE  a[2] * radix + digits[a[1]] \in Nat
      OBVIOUS
    <2>1. a[2] \in Nat /\ digits[a[1]] \in Nat
      BY <1>3
    <2>2. a[2] * radix \in Nat
      BY <1>2, <2>1
    <2> QED
      BY <2>1, <2>2
  <1>5. PICK f \in [0 .. length -> Nat] :
            f[0] = 0 /\ \A i \in 1 .. length : f[i] = h[<<i, f[i - 1]>>]
    <2> HIDE DEF h
    <2>1. \A x \in Nat : \E f \in [0 .. length -> Nat] :
              f[0] = x /\ \A i \in 1 .. length : f[i] = h[<<i, f[i - 1]>>]
      BY <1>1, <1>4, StepsExist, ZenonT(30)
    <2> QED
      BY <2>1
  <1>6. ASSUME NEW i \in 1 .. length PROVE f[i] = f[i - 1] * radix + digits[i]
    <2>1. f[i - 1] \in Nat
      BY <1>1
    <2> QED
      BY <1>5, <2>1
  <1> DEFINE Fix(c) == c = [j \in 0 .. length |->
                               IF j = 0 THEN 0 ELSE c[j - 1] * radix + digits[j]]
             upTo == CHOOSE c : Fix(c)
  <1>7. Fix(f)
    <2>1. ASSUME NEW j \in 0 .. length
          PROVE  f[j] = IF j = 0 THEN 0 ELSE f[j - 1] * radix + digits[j]
      <3>1. CASE j = 0
        BY <1>5, <3>1
      <3>2. CASE j # 0
        <4>1. j \in 1 .. length
          BY <1>1, <3>2
        <4> QED
          BY <1>6, <3>2, <4>1
      <3> QED
        BY <3>1, <3>2
    <2> HIDE DEF h
    <2> QED
      BY <2>1
  <1>8. Fix(upTo)
    BY <1>7
  <1>9. SerialNumbers!Value(digits, radix) = upTo[length]
    BY <1>n DEF length
  <1> HIDE DEF upTo, Fix, h
  <1>10. upTo = [j \in 0 .. length |-> IF j = 0 THEN 0 ELSE upTo[j - 1] * radix + digits[j]]
    BY <1>8 DEF Fix
  <1>11. \A j \in 0 .. length :
            upTo[j] = IF j = 0 THEN 0 ELSE upTo[j - 1] * radix + digits[j]
    BY <1>10
  <1> DEFINE Differ == {j \in Nat : j <= length /\ upTo[j] # f[j]}
  <1>12. Differ = {}
    <2> SUFFICES ASSUME Differ # {} PROVE FALSE
      OBVIOUS
    <2>1. PICK j \in Differ : \A k \in Differ : j <= k
      BY LeastNumber
    <2>2. j # 0
      BY <1>1, <1>5, <1>11
    <2>3. j - 1 \in Nat /\ j - 1 \notin Differ
      <3>1. j - 1 \in Nat /\ ~(j <= j - 1)
        BY <2>2
      <3> HIDE DEF Differ
      <3> QED
        BY <2>1, <3>1
    <2>4. upTo[j - 1] = f[j - 1] /\ j \in 1 .. length /\ j \in 0 .. length
      BY <1>1, <2>2, <2>3
    <2>5. upTo[j] = upTo[j - 1] * radix + digits[j]
      BY <1>11, <2>2, <2>4
    <2>6. f[j] = f[j - 1] * radix + digits[j]
      BY <1>6, <2>4
    <2> QED
      BY <2>4, <2>5, <2>6
  <1>13. upTo[length] = f[length]
    <2>1. length \notin Differ
      BY <1>12
    <2> QED
      BY <1>1, <2>1
  <1>14. /\ f \in [0 .. length -> Nat] /\ f[0] = 0
         /\ \A i \in 1 .. length : f[i] = f[i - 1] * radix + digits[i]
         /\ SerialNumbers!Value(digits, radix) = f[length]
    BY <1>5, <1>6, <1>9, <1>13
  <1> QED
    BY <1>14 DEF length

(* The number of digits of a number is the least that leaves nothing.      *)
LEMMA NumDigitsIs ==
    ASSUME NEW radix \in Nat, radix > 1, NEW n \in Nat
    PROVE  /\ SerialNumbers!NumDigits(n, radix) \in 0 .. n
           /\ SerialNumbers!Leading(n, radix)[SerialNumbers!NumDigits(n, radix)] = 0
           /\ \A j \in 0 .. n : SerialNumbers!Leading(n, radix)[j] = 0 =>
                 SerialNumbers!NumDigits(n, radix) <= j
  <1> DEFINE p == SerialNumbers!Leading(n, radix)
             Left == {j \in Nat : j <= n /\ ~(p[j] <= n - j)}
             Zeros == {j \in Nat : j <= n /\ p[j] = 0}
             Least(k) == p[k] = 0 /\ \A j \in 0 .. n : p[j] = 0 => k <= j
  <1>1. /\ p \in [0 .. n -> Nat] /\ p[0] = n
        /\ \A j \in 1 .. n : p[j] = p[j - 1] \div radix
    BY LeadingSteps
  <1>2. SerialNumbers!NumDigits(n, radix) = CHOOSE k \in 0 .. n : Least(k)
    BY DEF SerialNumbers!NumDigits
  <1> HIDE DEF p
  <1>3. Left = {}
    <2> SUFFICES ASSUME Left # {} PROVE FALSE
      OBVIOUS
    <2>1. PICK j \in Left : \A k \in Left : j <= k
      BY LeastNumber
    <2>2. j # 0
      BY <1>1
    <2>3. j - 1 \in Nat /\ j - 1 \notin Left
      <3>1. j - 1 \in Nat /\ ~(j <= j - 1)
        BY <2>2
      <3> HIDE DEF Left
      <3> QED
        BY <2>1, <3>1
    <2>4. p[j - 1] <= n - (j - 1) /\ p[j - 1] \in Nat
      BY <1>1, <2>3
    <2>5. j \in 1 .. n
      BY <2>2
    <2>6. p[j] = p[j - 1] \div radix
      BY <1>1, <2>5
    <2>7. p[j - 1] # 0 => p[j] <= p[j - 1] - 1
      BY <2>4, <2>6, DivisionByRadix
    <2>8. p[j - 1] = 0 => p[j] = 0
      <3> SUFFICES ASSUME p[j - 1] = 0 PROVE p[j] = 0
        OBVIOUS
      <3>1. 0 \div radix = 0
        OBVIOUS
      <3> QED
        BY <2>6, <3>1
    <2>9. p[j] \in Nat
      BY <1>1, <2>5
    <2>10. p[j] <= n - j
      <3> HIDE DEF Left
      <3> QED
        BY <2>4, <2>5, <2>7, <2>8, <2>9
    <2> QED
      BY <2>10
  <1>4. p[n] = 0
    <2>1. n \notin Left
      <3> HIDE DEF Left
      <3> QED
        BY <1>3
    <2>2. p[n] <= n - n /\ p[n] \in Nat
      BY <1>1, <2>1
    <2> QED
      BY <2>2
  <1>5. PICK k \in Zeros : \A j \in Zeros : k <= j
    <2>1. n \in Zeros
      BY <1>4
    <2> QED
      BY <2>1, LeastNumber
  <1>6. k \in 0 .. n /\ Least(k)
    BY <1>5
  <1> DEFINE c == CHOOSE i \in 0 .. n : Least(i)
  <1> HIDE DEF Least
  <1>7. c \in 0 .. n /\ Least(c)
    BY <1>6
  <1> QED
    BY <1>2, <1>7 DEF Least, p

(* The digits of a number mean it, and the first one is not zero. *)
LEMMA DigitsMean ==
    ASSUME NEW radix \in Nat, radix > 1, NEW n \in Nat
    PROVE  /\ SerialNumbers!Digits(n, radix) \in Seq(0 .. radix - 1)
           /\ SerialNumbers!Value(SerialNumbers!Digits(n, radix), radix) = n
           /\ Len(SerialNumbers!Digits(n, radix)) > 0 <=> n # 0
           /\ n # 0 => SerialNumbers!Digits(n, radix)[1] # 0
  <1> DEFINE p == SerialNumbers!Leading(n, radix)
             length == SerialNumbers!NumDigits(n, radix)
             b == SerialNumbers!Digits(n, radix)
  <1>1. /\ p \in [0 .. n -> Nat] /\ p[0] = n
        /\ \A j \in 1 .. n : p[j] = p[j - 1] \div radix
    BY LeadingSteps
  <1>2. /\ length \in 0 .. n /\ p[length] = 0
        /\ \A j \in 0 .. n : p[j] = 0 => length <= j
    BY NumDigitsIs
  <1>3. b = [i \in 1 .. length |-> p[length - i] % radix]
    BY DEF SerialNumbers!Digits
  <1> HIDE DEF p, b, length
  <1>4. ASSUME NEW i \in 1 .. length
        PROVE  length - i \in 0 .. n /\ p[length - i] \in Nat
    BY <1>1, <1>2
  <1>5. ASSUME NEW i \in 1 .. length PROVE p[length - i] % radix \in 0 .. radix - 1
    BY <1>4, DivisionByRadix
  <1>6. b \in [1 .. length -> 0 .. radix - 1]
    BY <1>3, <1>5
  <1>7. b \in Seq(0 .. radix - 1) /\ Len(b) = length
    BY <1>2, <1>6
  <1>8. b \in Seq(Nat)
    <2>1. b \in [1 .. length -> Nat]
      BY <1>6
    <2> QED
      BY <1>2, <2>1
  <1>9. PICK f \in [0 .. length -> Nat] :
            /\ f[0] = 0
            /\ \A i \in 1 .. length : f[i] = f[i - 1] * radix + b[i]
            /\ SerialNumbers!Value(b, radix) = f[length]
    BY <1>7, <1>8, ReadSteps
  <1> DEFINE Wrong == {i \in Nat : i <= length /\ f[i] # p[length - i]}
  <1>10. Wrong = {}
    <2> SUFFICES ASSUME Wrong # {} PROVE FALSE
      OBVIOUS
    <2>1. PICK i \in Wrong : \A k \in Wrong : i <= k
      BY LeastNumber
    <2>2. i # 0
      BY <1>2, <1>9
    <2>3. i - 1 \in Nat /\ i - 1 \notin Wrong
      <3>1. i - 1 \in Nat /\ ~(i <= i - 1)
        BY <2>2
      <3> HIDE DEF Wrong
      <3> QED
        BY <2>1, <3>1
    <2>4. /\ i \in 1 .. length
          /\ length - (i - 1) \in 1 .. n /\ (length - (i - 1)) - 1 = length - i
      BY <1>2, <2>2
    <2>5. f[i - 1] = p[length - (i - 1)]
      BY <1>2, <2>3, <2>4
    <2>6. p[length - (i - 1)] = p[length - i] \div radix
      BY <1>1, <2>4
    <2>7. b[i] = p[length - i] % radix /\ p[length - i] \in Nat
      BY <1>3, <1>4, <2>4
    <2>8. f[i] = f[i - 1] * radix + b[i]
      BY <1>9, <2>4
    <2>9. f[i] = (p[length - i] \div radix) * radix + (p[length - i] % radix)
      BY <2>5, <2>6, <2>7, <2>8
    <2>10. f[i] = p[length - i]
      BY <2>7, <2>9, DivisionByRadix
    <2> QED
      BY <2>10
  <1>11. SerialNumbers!Value(b, radix) = n
    <2>1. length \notin Wrong
      <3> HIDE DEF Wrong
      <3> QED
        BY <1>10
    <2>2. f[length] = p[length - length] /\ length - length = 0
      BY <1>2, <2>1
    <2> QED
      BY <1>1, <1>9, <2>2
  <1>12. length > 0 <=> n # 0
    <2>1. n = 0 => length = 0
      BY <1>2
    <2>2. length = 0 => n = 0
      BY <1>1, <1>2
    <2> QED
      BY <1>2, <2>1, <2>2
  <1>13. ASSUME n # 0 PROVE b[1] # 0
    <2>1. 1 \in 1 .. length /\ length \in 1 .. n
      BY <1>2, <1>12, <1>13
    <2>2. b[1] = p[length - 1] % radix /\ p[length - 1] \in Nat
      BY <1>3, <1>4, <2>1
    <2>3. p[length - 1] # 0
      <3>1. length - 1 \in 0 .. n /\ ~(length <= length - 1)
        BY <2>1
      <3> QED
        BY <1>2, <3>1
    <2>4. p[length - 1] \div radix = 0
      BY <1>1, <1>2, <2>1
    <2>5. p[length - 1] % radix = p[length - 1]
      BY <2>2, <2>4, DivisionByRadix
    <2> QED
      BY <2>2, <2>3, <2>5
  <1> QED
    BY <1>7, <1>11, <1>12, <1>13 DEF b

(* The magnitude of a number, and what is written of it. *)
LEMMA MagnitudeIs ==
    ASSUME NEW n \in Int
    PROVE  /\ SerialNumbers!Magnitude(n) \in Nat
           /\ SerialNumbers!Magnitude(n) = 0 <=> n = 0
           /\ n < 0 => (-1) * SerialNumbers!Magnitude(n) = n
           /\ n >= 0 => 1 * SerialNumbers!Magnitude(n) = n
BY DEF SerialNumbers!Magnitude

(* The last answer is about the serial number that is in the certificate. *)
SerialIInv ==
    /\ sSerial \in CertSerials \union SerialNumbers!UInt64
    /\ sGiven \in SerialNumbers!UInt64 \union {-1}
    /\ sGiven >= 0 => sSerial = sGiven /\ sGiven <= CertLongMax
    /\ \/ sAnswer.call \in {"none", "set"}
       \/ sAnswer = SerialNumbers!Asn1IntegerToInt64(sSerial)
       \/ sAnswer = SerialNumbers!Answer("dec", SerialNumbers!Bn2dec(sSerial).sign,
                                         SerialNumbers!Bn2dec(sSerial).digits)
       \/ sAnswer = SerialNumbers!Asn1IntegerToBinary(sSerial)

(* A digit string reads zero as zero. *)
LEMMA ZeroIsRead == SerialNumbers!Value(<<0>>, 10) = 0
  <1> DEFINE z == <<0>>
             ten == 10
  <1>1. z \in Seq(Nat) /\ Len(z) = 1 /\ z[1] = 0 /\ ten \in Nat /\ ten > 1
    OBVIOUS
  <1> HIDE DEF z, ten
  <1>2. PICK f \in [0 .. Len(z) -> Nat] :
            /\ f[0] = 0 /\ \A i \in 1 .. Len(z) : f[i] = f[i - 1] * ten + z[i]
            /\ SerialNumbers!Value(z, ten) = f[Len(z)]
    BY <1>1, ReadSteps
  <1>3. f[1] = f[0] * ten + 0
    BY <1>1, <1>2
  <1>4. 0 * ten + 0 = 0
    BY <1>1
  <1> QED
    BY <1>1, <1>2, <1>3, <1>4 DEF z, ten

(* The elements of a sequence of digits are digits. *)
LEMMA DigitsOf ==
    ASSUME NEW S, NEW digits \in Seq(S)
    PROVE  SerialNumbers!ToSet(digits) \subseteq S
  <1>1. ASSUME NEW i \in DOMAIN digits PROVE digits[i] \in S
    BY LenProperties, ElementOfSeq
  <1> QED
    BY <1>1 DEF SerialNumbers!ToSet

(* The invariant implies what is checked of serial numbers. *)
LEMMA SerialIInvSuffices == SerialIInv => SerialNumbersAreExact
  <1> SUFFICES ASSUME SerialIInv PROVE SerialNumbersAreExact
    OBVIOUS
  <1> DEFINE m == SerialNumbers!Magnitude(sSerial)
             bin == SerialNumbers!Digits(m, Radix)
             dec == SerialNumbers!Bn2dec(sSerial)
  <1>1. /\ CertLongMax \in Nat /\ Radix \in Nat /\ Radix > 1 /\ CertSerials \subseteq Int
    BY IssuingAssumption DEF SerialNumbers!SerialAssumption
  <1>2. sSerial \in Int
    BY <1>1 DEF SerialIInv, SerialNumbers!UInt64
  <1>3. /\ m \in Nat /\ (m = 0 <=> sSerial = 0)
        /\ sSerial < 0 => (-1) * m = sSerial
        /\ sSerial >= 0 => 1 * m = sSerial
    BY <1>2, MagnitudeIs
  <1>4. /\ bin \in Seq(0 .. Radix - 1) /\ SerialNumbers!Value(bin, Radix) = m
        /\ Len(bin) > 0 <=> m # 0
        /\ m # 0 => bin[1] # 0
    <2> HIDE DEF m
    <2> QED
      BY <1>1, <1>3, DigitsMean
  <1>5. dec.sign \in {-1, 1} /\ dec.digits \in Seq(0 .. 9)
        /\ dec.sign * SerialNumbers!Value(dec.digits, 10) = sSerial
    <2> DEFINE d == SerialNumbers!Digits(m, 10)
    <2>1. d \in Seq(0 .. 9) /\ SerialNumbers!Value(d, 10) = m
      <3>1. 10 \in Nat /\ 10 > 1 /\ 10 - 1 = 9
        OBVIOUS
      <3> HIDE DEF m
      <3> QED
        BY <1>3, <3>1, DigitsMean
    <2>2. dec.sign = (IF sSerial < 0 THEN -1 ELSE 1)
          /\ dec.digits = IF sSerial = 0 THEN <<0>> ELSE d
      BY DEF SerialNumbers!Bn2dec
    <2> HIDE DEF m, d, dec
    <2>3. CASE sSerial = 0
      <3>1. dec.sign = 1 /\ dec.digits = <<0>> /\ <<0>> \in Seq(0 .. 9)
        BY <2>2, <2>3
      <3>2. 1 * SerialNumbers!Value(<<0>>, 10) = 0
        BY ZeroIsRead
      <3> QED
        BY <2>3, <3>1, <3>2
    <2>4. CASE sSerial # 0
      <3>1. dec.digits = d /\ SerialNumbers!Value(dec.digits, 10) = m
        BY <2>1, <2>2, <2>4
      <3>2. CASE sSerial < 0
        <4>1. dec.sign = -1
          BY <2>2, <3>2
        <4> QED
          BY <1>3, <2>1, <3>1, <3>2, <4>1
      <3>3. CASE sSerial >= 0
        <4>1. dec.sign = 1
          BY <1>2, <2>2, <3>3
        <4> QED
          BY <1>3, <2>1, <3>1, <3>3, <4>1
      <3> QED
        BY <1>2, <3>2, <3>3
    <2> QED
      BY <2>3, <2>4
  <1>6. CASE sAnswer.call \in {"none", "set"}
    BY <1>6 DEF SerialIInv, SerialNumbersAreExact, SerialNumbers!TypeOK,
                SerialNumbers!AnswersAreTheSerial, SerialNumbers!SetSerialsAreReturned
  <1>7. CASE sAnswer = SerialNumbers!Asn1IntegerToInt64(sSerial)
    <2>1. /\ sAnswer.call = "int" /\ sAnswer.value \in SerialNumbers!UInt64
          /\ sAnswer.end = "returned" => sAnswer.value = sSerial
          /\ sSerial \in 0 .. CertLongMax => sAnswer.end = "returned"
      BY <1>1, <1>2, <1>7
         DEF SerialNumbers!Asn1IntegerToInt64, SerialNumbers!Answer, SerialNumbers!Throws,
             SerialNumbers!UInt64
    <2>2. sGiven >= 0 => sSerial \in 0 .. CertLongMax
      BY <1>1, <1>2 DEF SerialIInv
    <2> QED
      BY <2>1, <2>2 DEF SerialIInv, SerialNumbersAreExact, SerialNumbers!TypeOK,
                SerialNumbers!AnswersAreTheSerial, SerialNumbers!SetSerialsAreReturned
  <1>8. CASE sAnswer = SerialNumbers!Answer("dec", dec.sign, dec.digits)
    <2> HIDE DEF dec
    <2>1. sAnswer.call = "dec" /\ sAnswer.value = dec.sign /\ sAnswer.bytes = dec.digits
      BY <1>8 DEF SerialNumbers!Answer
    <2>2. SerialNumbers!ToSet(dec.digits) \subseteq 0 .. 9
      BY <1>5, DigitsOf
    <2> QED
      BY <1>5, <2>1, <2>2 DEF SerialIInv, SerialNumbersAreExact, SerialNumbers!TypeOK,
                SerialNumbers!AnswersAreTheSerial, SerialNumbers!SetSerialsAreReturned
  <1>9. CASE sAnswer = SerialNumbers!Asn1IntegerToBinary(sSerial)
    <2>1. sAnswer = IF Len(bin) > 0 THEN SerialNumbers!Answer("bin", 0, bin)
                    ELSE SerialNumbers!Throws("bin")
      BY <1>4, <1>9 DEF SerialNumbers!Asn1IntegerToBinary, SerialNumbers!IsPositive,
                 SerialNumbers!NumBytes, SerialNumbers!Bn2bin
    <2> HIDE DEF bin, m
    <2>2. /\ sAnswer.call = "bin" /\ sAnswer.value = 0 /\ sAnswer.bytes \in {bin, <<>>}
          /\ sAnswer.end = "returned" => sAnswer.bytes = bin /\ Len(bin) > 0
      BY <2>1 DEF SerialNumbers!Answer, SerialNumbers!Throws
    <2>3. SerialNumbers!ToSet(sAnswer.bytes) \subseteq 0 .. (Radix - 1)
      <3>0. <<>> \in Seq(0 .. Radix - 1)
        BY EmptySeq
      <3>1. sAnswer.bytes \in Seq(0 .. Radix - 1)
        BY <1>4, <2>2, <3>0
      <3> QED
        BY <3>1, DigitsOf
    <2>4. 0 \in SerialNumbers!UInt64
      BY <1>1 DEF SerialNumbers!UInt64
    <2>5. sAnswer.end = "returned" =>
              SerialNumbers!Value(sAnswer.bytes, Radix) = m /\ sAnswer.bytes[1] # 0
      BY <1>4, <2>2
    <2> QED
      BY <2>2, <2>3, <2>4, <2>5
         DEF m, SerialIInv, SerialNumbersAreExact, SerialNumbers!TypeOK,
             SerialNumbers!AnswersAreTheSerial, SerialNumbers!SetSerialsAreReturned
  <1> QED
    BY <1>6, <1>7, <1>8, <1>9 DEF SerialIInv

(* Every call keeps the invariant. *)
LEMMA SerialInvariance == SerialNumbers!Spec => []SerialIInv
  <1>0. CertLongMax \in Nat
    BY IssuingAssumption DEF SerialNumbers!SerialAssumption
  <1>1. SerialNumbers!Init => SerialIInv
    BY DEF SerialNumbers!Init, SerialIInv, SerialNumbers!NoAnswer
  <1>2. SerialIInv /\ [SerialNumbers!Next]_(SerialNumbers!vars) => SerialIInv'
    <2> SUFFICES ASSUME SerialIInv, [SerialNumbers!Next]_(SerialNumbers!vars)
                 PROVE  SerialIInv'
      OBVIOUS
    <2>1. ASSUME NEW n \in SerialNumbers!UInt64, SerialNumbers!SetSerialNumber(n)
          PROVE  SerialIInv'
      <3>1. sAnswer'.call = "set"
        BY <2>1 DEF SerialNumbers!SetSerialNumber, SerialNumbers!Answer,
                    SerialNumbers!Throws
      <3>2. \/ sSerial' = sSerial /\ sGiven' = sGiven
            \/ sSerial' = n /\ sGiven' = n /\ n <= CertLongMax
        BY <2>1 DEF SerialNumbers!SetSerialNumber
      <3> QED
        BY <3>1, <3>2 DEF SerialIInv
    <2>2. CASE SerialNumbers!GetSerialNumber
      BY <2>2 DEF SerialNumbers!GetSerialNumber, SerialIInv
    <2>3. CASE SerialNumbers!GetSerialNumberDecimal
      BY <2>3 DEF SerialNumbers!GetSerialNumberDecimal, SerialIInv
    <2>4. CASE SerialNumbers!GetSerialNumberBinary
      BY <2>4 DEF SerialNumbers!GetSerialNumberBinary, SerialIInv
    <2>5. CASE UNCHANGED SerialNumbers!vars
      BY <2>5 DEF SerialNumbers!vars, SerialIInv
    <2> QED
      BY <2>1, <2>2, <2>3, <2>4, <2>5 DEF SerialNumbers!Next
  <1> QED
    BY <1>1, <1>2, PTL DEF SerialNumbers!Spec
-----------------------------------------------------------------------------
(* Attributes, what a look-up of one returns, and names. *)
AnyNID == Names!ToSet(Names!FixedOrder)
AttributeSet == [id : AnyNID, name : Values \union {<<>>}]
OptionSet == {<<>>} \union {<<a>> : a \in AttributeSet}
DNSet == [custom : BOOLEAN, attributes : Seq(AttributeSet)]

(* Adding an attribute to a name leaves a sequence of attributes, with it  *)
(* if it has a value.                                                      *)
LEMMA AddStringIs ==
    ASSUME NEW x \in Seq(AttributeSet), NEW o \in OptionSet
    PROVE  /\ Names!AddString(x, o) \in Seq(AttributeSet)
           /\ \/ /\ o = <<>> \/ o[1].name = <<>>
                 /\ Names!AddString(x, o) = x
              \/ /\ o # <<>> /\ o[1] \in AttributeSet /\ o[1].name # <<>>
                 /\ Names!AddString(x, o) = Append(x, o[1])
  <1>1. CASE o = <<>>
    BY <1>1 DEF Names!AddString
  <1>2. ASSUME NEW a \in AttributeSet, o = <<a>>
        PROVE  /\ Names!AddString(x, o) \in Seq(AttributeSet)
               /\ \/ /\ o[1].name = <<>>
                     /\ Names!AddString(x, o) = x
                  \/ /\ o # <<>> /\ o[1] \in AttributeSet /\ o[1].name # <<>>
                     /\ Names!AddString(x, o) = Append(x, o[1])
    <2>1. o # <<>> /\ o[1] = a
      BY <1>2
    <2>2. Append(x, a) \in Seq(AttributeSet)
      BY AppendProperties
    <2> HIDE DEF AttributeSet
    <2> QED
      BY <2>1, <2>2 DEF Names!AddString
  <1> QED
    BY <1>1, <1>2 DEF OptionSet

(* A name is filled step by step. *)
NameSteps(f, offered) ==
    /\ f \in [0 .. Len(offered) -> Seq(AttributeSet)] /\ f[0] = <<>>
    /\ \A i \in 1 .. Len(offered) : f[i] = Names!AddString(f[i - 1], offered[i])

(* The steps of filling a name exist. *)
LEMMA NameStepsExist ==
    ASSUME NEW offered \in Seq(OptionSet)
    PROVE  \E f : NameSteps(f, offered)
  <1> DEFINE n == Len(offered)
             Computes(f, m) ==
                /\ f \in [0 .. m -> Seq(AttributeSet)] /\ f[0] = <<>>
                /\ \A i \in 1 .. m : f[i] = Names!AddString(f[i - 1], offered[i])
             Without == {m \in Nat : m <= n /\ ~ \E f : Computes(f, m)}
  <1>0. n \in Nat
    BY LenProperties
  <1>s. NameSteps(CHOOSE f : Computes(f, n), offered) <=> Computes(CHOOSE f : Computes(f, n), n)
    BY DEF NameSteps
  <1> HIDE DEF n
  <1>1. Without = {}
    <2> SUFFICES ASSUME Without # {} PROVE FALSE
      OBVIOUS
    <2>1. PICK m \in Without : \A k \in Without : m <= k
      BY LeastNumber
    <2>2. m # 0
      <3>0. <<>> \in Seq(AttributeSet)
        BY EmptySeq
      <3>1. Computes([i \in 0 .. 0 |-> <<>>], 0)
        BY <3>0
      <3> QED
        BY <3>1
    <2>3. m - 1 \in Nat /\ m - 1 \notin Without
      <3>1. m \in Nat /\ m - 1 \in Nat /\ ~(m <= m - 1)
        BY <2>2
      <3> HIDE DEF Without
      <3> QED
        BY <2>1, <3>1
    <2>4. PICK f : Computes(f, m - 1)
      <3>1. m - 1 <= n
        BY <1>0, <2>3
      <3> HIDE DEF Computes
      <3> QED
        BY <2>3, <3>1
    <2> DEFINE e == Names!AddString(f[m - 1], offered[m])
               g == [i \in 0 .. m |-> IF i = m THEN e ELSE f[i]]
    <2>5. Computes(g, m)
      <3>1. m \in 1 .. n /\ m - 1 \in 0 .. m - 1
        BY <1>0, <2>2, <2>3
      <3>2. e \in Seq(AttributeSet)
        <4>1. offered[m] \in OptionSet
          BY <3>1, ElementOfSeq DEF n
        <4> QED
          BY <2>4, <3>1, <4>1, AddStringIs
      <3> HIDE DEF e
      <3>3. g \in [0 .. m -> Seq(AttributeSet)]
        <4> SUFFICES ASSUME NEW i \in 0 .. m
                     PROVE  (IF i = m THEN e ELSE f[i]) \in Seq(AttributeSet)
          OBVIOUS
        <4>1. i # m => i \in 0 .. m - 1
          BY <2>3
        <4> QED
          BY <2>4, <3>2, <4>1
      <3>4. g[0] = <<>>
        BY <2>2, <2>3, <2>4
      <3>5. ASSUME NEW i \in 1 .. m PROVE g[i] = Names!AddString(g[i - 1], offered[i])
        <4>1. i - 1 \in 0 .. m /\ i - 1 # m /\ g[i - 1] = f[i - 1]
          BY <2>3
        <4>2. i \in 0 .. m /\ g[i] = IF i = m THEN e ELSE f[i]
          BY <2>3
        <4>3. CASE i = m
          <5>1. g[i] = Names!AddString(f[i - 1], offered[i])
            BY <4>2, <4>3 DEF e
          <5> HIDE DEF g
          <5> QED
            BY <4>1, <5>1
        <4>4. CASE i # m
          <5>1. i \in 1 .. m - 1
            BY <2>3, <4>4
          <5>2. f[i] = Names!AddString(f[i - 1], offered[i])
            BY <2>4, <5>1
          <5>3. g[i] = f[i]
            BY <4>2, <4>4
          <5> HIDE DEF g
          <5> QED
            BY <4>1, <5>2, <5>3
        <4> QED
          BY <4>3, <4>4
      <3> QED
        BY <3>3, <3>4, <3>5
    <2> HIDE DEF Computes
    <2> QED
      BY <2>5
  <1>2. n \notin Without
    <2> HIDE DEF Without
    <2> QED
      BY <1>1
  <1>3. n <= n
    BY <1>0
  <1> HIDE DEF Computes
  <1>4. \E f : Computes(f, n)
    BY <1>0, <1>2, <1>3
  <1>5. Computes(CHOOSE f : Computes(f, n), n)
    BY <1>4
  <1> QED
    BY <1>5, <1>s

(* What is added is the outcome of the steps, and offers that are taken    *)
(* alike add the same.                                                     *)
LEMMA AddedIsStep ==
    ASSUME NEW offered \in Seq(OptionSet), NEW f, NameSteps(f, offered),
           NEW other, Len(other) = Len(offered),
           \A i \in 1 .. Len(offered), x \in Seq(AttributeSet) :
              Names!AddString(x, other[i]) = Names!AddString(x, offered[i])
    PROVE  Names!Added(other) = f[Len(offered)]
  <1> DEFINE n == Len(offered)
             Fix(h) == h = [i \in 0 .. n |-> IF i = 0 THEN <<>>
                                             ELSE Names!AddString(h[i - 1], other[i])]
             upTo == CHOOSE h : Fix(h)
  <1>0. n \in Nat
    BY LenProperties
  <1>1. /\ f \in [0 .. n -> Seq(AttributeSet)] /\ f[0] = <<>>
        /\ \A i \in 1 .. n : f[i] = Names!AddString(f[i - 1], offered[i])
    BY DEF NameSteps
  <1>2. Names!Added(other) = upTo[n]
    BY DEF Names!Added
  <1>x. \A i \in 1 .. n, x \in Seq(AttributeSet) :
              Names!AddString(x, other[i]) = Names!AddString(x, offered[i])
    OBVIOUS
  <1> HIDE DEF n
  <1>3. ASSUME NEW i \in 1 .. n PROVE f[i] = Names!AddString(f[i - 1], other[i])
    <2>1. i - 1 \in 0 .. n
      BY <1>0
    <2>2. f[i - 1] \in Seq(AttributeSet)
      BY <1>1, <2>1
    <2> QED
      BY <1>1, <1>x, <2>2
  <1>4. Fix(f)
    <2>1. ASSUME NEW i \in 0 .. n
          PROVE  f[i] = IF i = 0 THEN <<>> ELSE Names!AddString(f[i - 1], other[i])
      <3>1. i # 0 => i \in 1 .. n
        BY <1>0
      <3> QED
        BY <1>1, <1>3, <3>1
    <2> QED
      BY <1>1, <2>1
  <1>5. Fix(upTo)
    BY <1>4
  <1> HIDE DEF upTo, Fix
  <1>6. upTo = [i \in 0 .. n |-> IF i = 0 THEN <<>>
                                 ELSE Names!AddString(upTo[i - 1], other[i])]
    BY <1>5 DEF Fix
  <1>7. \A i \in 0 .. n : upTo[i] = IF i = 0 THEN <<>>
                                    ELSE Names!AddString(upTo[i - 1], other[i])
    BY <1>6
  <1> DEFINE Differ == {i \in Nat : i <= n /\ upTo[i] # f[i]}
  <1>8. Differ = {}
    <2> SUFFICES ASSUME Differ # {} PROVE FALSE
      OBVIOUS
    <2>1. PICK i \in Differ : \A k \in Differ : i <= k
      BY LeastNumber
    <2>2. i # 0
      BY <1>0, <1>1, <1>7
    <2>3. i - 1 \in Nat /\ i - 1 \notin Differ
      <3>1. i - 1 \in Nat /\ ~(i <= i - 1)
        BY <2>2
      <3> HIDE DEF Differ
      <3> QED
        BY <2>1, <3>1
    <2>4. upTo[i - 1] = f[i - 1] /\ i \in 1 .. n /\ i \in 0 .. n
      BY <1>0, <2>2, <2>3
    <2>5. upTo[i] = Names!AddString(upTo[i - 1], other[i])
      BY <1>7, <2>2, <2>4
    <2>6. f[i] = Names!AddString(f[i - 1], other[i])
      BY <1>3, <2>4
    <2> QED
      BY <2>4, <2>5, <2>6
  <1>9. n \notin Differ
    <2> HIDE DEF Differ
    <2> QED
      BY <1>8
  <1>10. upTo[n] = f[n]
    BY <1>0, <1>9
  <1> QED
    BY <1>2, <1>10 DEF n

(* The elements of a filled name are the attributes with a value. *)
LEMMA AddedElements ==
    ASSUME NEW offered \in Seq(OptionSet)
    PROVE  /\ Names!Added(offered) \in Seq(AttributeSet)
           /\ \A k \in 1 .. Len(Names!Added(offered)) : \E i \in 1 .. Len(offered) :
                 /\ offered[i] # <<>> /\ offered[i][1].name # <<>>
                 /\ Names!Added(offered)[k] = offered[i][1]
           /\ \A i \in 1 .. Len(offered) :
                 offered[i] # <<>> /\ offered[i][1].name # <<>> =>
                    \E k \in 1 .. Len(Names!Added(offered)) :
                       Names!Added(offered)[k] = offered[i][1]
  <1> DEFINE n == Len(offered)
             Holds(x, m) ==
                /\ \A k \in 1 .. Len(x) : \E i \in 1 .. m :
                      /\ offered[i] # <<>> /\ offered[i][1].name # <<>>
                      /\ x[k] = offered[i][1]
                /\ \A i \in 1 .. m : offered[i] # <<>> /\ offered[i][1].name # <<>> =>
                      \E k \in 1 .. Len(x) : x[k] = offered[i][1]
  <1>0. n \in Nat
    BY LenProperties
  <1>1. PICK f : NameSteps(f, offered)
    BY NameStepsExist
  <1>2. Names!Added(offered) = f[n]
    BY <1>1, AddedIsStep
  <1>3. /\ f \in [0 .. n -> Seq(AttributeSet)] /\ f[0] = <<>>
        /\ \A i \in 1 .. n : f[i] = Names!AddString(f[i - 1], offered[i])
    BY <1>1 DEF NameSteps
  <1>4. \A i \in 1 .. n : offered[i] \in OptionSet
    BY ElementOfSeq
  <1> HIDE DEF n
  <1> DEFINE Wrong == {m \in Nat : m <= n /\ ~Holds(f[m], m)}
  <1>5. Wrong = {}
    <2> SUFFICES ASSUME Wrong # {} PROVE FALSE
      OBVIOUS
    <2>1. PICK m \in Wrong : \A k \in Wrong : m <= k
      BY LeastNumber
    <2>2. m # 0
      <3>1. Len(<<>>) = 0
        OBVIOUS
      <3>2. Holds(f[0], 0)
        BY <1>3, <3>1
      <3> HIDE DEF Holds
      <3> QED
        BY <3>2
    <2>3. m - 1 \in Nat /\ m - 1 \notin Wrong
      <3>1. m - 1 \in Nat /\ ~(m <= m - 1)
        BY <2>2
      <3> HIDE DEF Wrong
      <3> QED
        BY <2>1, <3>1
    <2>4. m \in 1 .. n /\ m - 1 \in 0 .. n
      BY <1>0, <2>2, <2>3
    <2>5. Holds(f[m - 1], m - 1)
      <3> HIDE DEF Holds
      <3> QED
        BY <1>0, <2>3, <2>4
    <2> DEFINE x == f[m - 1]
               o == offered[m]
    <2>6. x \in Seq(AttributeSet) /\ o \in OptionSet /\ f[m] = Names!AddString(x, o)
      BY <1>3, <1>4, <2>4
    <2>7. Holds(x, m - 1)
      BY <2>5
    <2>9. /\ m - 1 \in Nat /\ m \in Nat
          /\ \A i \in 1 .. m : i \in 1 .. m - 1 \/ i = m
          /\ \A i \in 1 .. m - 1 : i \in 1 .. m
          /\ m \in 1 .. m
      BY <2>3, <2>4
    <2>8. Holds(f[m], m)
      <3> HIDE DEF x
      <3>1. CASE (o = <<>> \/ o[1].name = <<>>) /\ Names!AddString(x, o) = x
        <4>1. f[m] = x
          BY <2>6, <3>1
        <4>2. Holds(x, m)
          BY <2>7, <2>9, <3>1
        <4> QED
          BY <4>1, <4>2
      <3>2. CASE /\ o # <<>> /\ o[1] \in AttributeSet /\ o[1].name # <<>>
                 /\ Names!AddString(x, o) = Append(x, o[1])
        <4> DEFINE y == Append(x, o[1])
        <4>1. /\ Len(x) \in Nat /\ Len(y) = Len(x) + 1 /\ y[Len(x) + 1] = o[1]
              /\ \A k \in 1 .. Len(x) : y[k] = x[k]
          BY <2>6, <3>2, AppendProperties, LenProperties
        <4>2. /\ \A k \in 1 .. Len(y) : k \in 1 .. Len(x) \/ k = Len(x) + 1
              /\ \A k \in 1 .. Len(x) : k \in 1 .. Len(y)
              /\ Len(x) + 1 \in 1 .. Len(y)
          BY <4>1
        <4> HIDE DEF y
        <4>3. ASSUME NEW k \in 1 .. Len(y)
              PROVE  \E i \in 1 .. m : /\ offered[i] # <<>> /\ offered[i][1].name # <<>>
                                       /\ y[k] = offered[i][1]
          <5>1. CASE k = Len(x) + 1
            BY <2>9, <3>2, <4>1, <5>1
          <5>2. CASE k \in 1 .. Len(x)
            <6>1. y[k] = x[k]
              BY <4>1, <5>2
            <6>2. PICK i \in 1 .. m - 1 : /\ offered[i] # <<>> /\ offered[i][1].name # <<>>
                                          /\ x[k] = offered[i][1]
              BY <2>7, <5>2
            <6> QED
              BY <2>9, <6>1, <6>2
          <5> QED
            BY <4>2, <5>1, <5>2
        <4>4. ASSUME NEW i \in 1 .. m, offered[i] # <<>>, offered[i][1].name # <<>>
              PROVE  \E k \in 1 .. Len(y) : y[k] = offered[i][1]
          <5>1. CASE i = m
            BY <4>1, <4>2, <5>1
          <5>2. CASE i \in 1 .. m - 1
            <6>1. PICK k \in 1 .. Len(x) : x[k] = offered[i][1]
              BY <2>7, <4>4, <5>2
            <6> QED
              BY <4>1, <4>2, <6>1
          <5> QED
            BY <2>9, <5>1, <5>2
        <4>5. Holds(y, m)
          BY <4>3, <4>4
        <4>6. f[m] = y
          BY <2>6, <3>2 DEF y
        <4> QED
          BY <4>5, <4>6
      <3> HIDE DEF o
      <3>3. \/ (o = <<>> \/ o[1].name = <<>>) /\ Names!AddString(x, o) = x
            \/ /\ o # <<>> /\ o[1] \in AttributeSet /\ o[1].name # <<>>
               /\ Names!AddString(x, o) = Append(x, o[1])
        BY <2>6, AddStringIs
      <3> HIDE DEF Holds
      <3> QED
        BY <3>1, <3>2, <3>3
    <2> HIDE DEF Holds
    <2> QED
      BY <2>8
  <1>6. n \notin Wrong
    <2> HIDE DEF Wrong
    <2> QED
      BY <1>5
  <1>7. Holds(f[n], n)
    <2> HIDE DEF Holds
    <2>1. n <= n
      BY <1>0
    <2> QED
      BY <1>0, <1>6, <2>1
  <1>8. f[n] \in Seq(AttributeSet)
    BY <1>0, <1>3
  <1> QED
    BY <1>2, <1>7, <1>8 DEF n

(* Every attribute has a place in the fixed order. *)
LEMMA FixedOrderIs ==
    /\ Len(Names!FixedOrder) \in Nat
    /\ \A i \in 1 .. Len(Names!FixedOrder) : Names!FixedOrder[i] \in AnyNID
    /\ \A nid \in AnyNID : \E i \in 1 .. Len(Names!FixedOrder) : Names!FixedOrder[i] = nid
  <1> DEFINE fo == Names!FixedOrder
  <1>1. Len(fo) \in Nat /\ DOMAIN fo = 1 .. Len(fo)
    BY DEF Names!FixedOrder
  <1>2. AnyNID = {fo[i] : i \in DOMAIN fo}
    BY DEF AnyNID, Names!ToSet
  <1> HIDE DEF fo
  <1>3. /\ \A i \in 1 .. Len(fo) : fo[i] \in AnyNID
        /\ \A nid \in AnyNID : \E i \in 1 .. Len(fo) : fo[i] = nid
    BY <1>1, <1>2
  <1> QED
    BY <1>1, <1>3 DEF fo

(* A set of positions has a last one. *)
LEMMA LastPosition ==
    ASSUME NEW n \in Nat, NEW S, S \subseteq 1 .. n, S # {}
    PROVE  \E i \in S : \A j \in S : j <= i
  <1> DEFINE Back == {m \in Nat : n - m \in S}
  <1>1. PICK e : e \in S
    OBVIOUS
  <1>2. n - e \in Nat /\ n - (n - e) = e
    BY <1>1
  <1>3. n - e \in Back
    BY <1>1, <1>2
  <1>4. PICK m \in Back : \A k \in Back : m <= k
    BY <1>3, LeastNumber
  <1>5. m \in Nat /\ n - m \in S
    BY <1>4
  <1>6. ASSUME NEW j \in S PROVE j <= n - m
    <2>1. n - j \in Nat /\ n - (n - j) = j /\ j \in Int
      OBVIOUS
    <2>2. n - j \in Back
      BY <2>1
    <2>3. m <= n - j
      BY <1>4, <2>2
    <2> QED
      BY <1>5, <2>1, <2>3
  <1> QED
    BY <1>5, <1>6

(* A look-up in a name finds the last attribute of that kind. *)
LEMMA LookUpFindsLast ==
    ASSUME NEW d \in DNSet, NEW nid
    PROVE  /\ Names!GetAttributeByNID(d, nid) \in OptionSet
           /\ \/ /\ \A i \in 1 .. Len(d.attributes) : d.attributes[i].id # nid
                 /\ Names!GetAttributeByNID(d, nid) = <<>>
              \/ \E i \in 1 .. Len(d.attributes) :
                    /\ d.attributes[i] \in AttributeSet /\ d.attributes[i].id = nid
                    /\ Names!GetAttributeByNID(d, nid) = <<d.attributes[i]>>
  <1> DEFINE list == d.attributes
             found == {i \in DOMAIN list : list[i].id = nid}
             last == CHOOSE i \in found : \A j \in found : j <= i
             g == Names!GetAttributeByNID(d, nid)
  <1>0. list \in Seq(AttributeSet)
    BY DEF DNSet
  <1>1. Len(list) \in Nat /\ DOMAIN list = 1 .. Len(list)
    BY <1>0, LenProperties
  <1>2. g = IF found = {} THEN <<>> ELSE <<list[last]>>
    BY DEF Names!GetAttributeByNID
  <1>3. \A i \in 1 .. Len(list) : list[i] \in AttributeSet
    BY <1>0, ElementOfSeq
  <1> HIDE DEF list, g
  <1>4. CASE found = {}
    <2>1. \A i \in 1 .. Len(list) : list[i].id # nid
      BY <1>1, <1>4
    <2>2. g = <<>> /\ g \in OptionSet
      BY <1>2, <1>4 DEF OptionSet
    <2> QED
      BY <2>1, <2>2 DEF list, g
  <1>5. CASE found # {}
    <2>1. \E i \in found : \A j \in found : j <= i
      <3>1. found \subseteq 1 .. Len(list)
        BY <1>1
      <3> HIDE DEF found
      <3> QED
        BY <1>1, <1>5, <3>1, LastPosition
    <2>2. last \in found
      <3> HIDE DEF found
      <3> QED
        BY <2>1
    <2> HIDE DEF last
    <2>3. last \in 1 .. Len(list) /\ list[last].id = nid /\ list[last] \in AttributeSet
      BY <1>1, <1>3, <2>2
    <2>4. g = <<list[last]>>
      <3> HIDE DEF found
      <3> QED
        BY <1>2, <1>5
    <2>5. g \in OptionSet
      BY <2>3, <2>4 DEF OptionSet
    <2>6. \E i \in 1 .. Len(list) : list[i] \in AttributeSet /\ list[i].id = nid /\ g = <<list[i]>>
      BY <2>3, <2>4
    <2> QED
      BY <2>5, <2>6 DEF list, g
  <1> QED
    BY <1>4, <1>5

(* A look-up in an X509_NAME returns an entry of that kind. *)
LEMMA EntryIs ==
    ASSUME NEW x \in Seq(AttributeSet), NEW nid
    PROVE  \/ /\ \A i \in 1 .. Len(x) : x[i].id # nid
              /\ Names!EntryByNIDAsString(x, nid) = <<>>
           \/ \E i \in 1 .. Len(x) :
                 /\ x[i] \in AttributeSet /\ x[i].id = nid
                 /\ Names!EntryByNIDAsString(x, nid) = x[i].name
  <1> DEFINE found == {i \in 1 .. Len(x) : x[i].id = nid}
             first == CHOOSE i \in found : \A j \in found : i <= j
             g == Names!EntryByNIDAsString(x, nid)
  <1>1. g = IF found = {} THEN <<>> ELSE x[first].name
    BY DEF Names!EntryByNIDAsString, Names!Indices
  <1>2. \A i \in 1 .. Len(x) : x[i] \in AttributeSet
    BY ElementOfSeq
  <1>3. Len(x) \in Nat
    BY LenProperties
  <1> HIDE DEF g
  <1>4. CASE found = {}
    <2>1. \A i \in 1 .. Len(x) : x[i].id # nid
      BY <1>4
    <2>2. g = <<>>
      BY <1>1, <1>4
    <2> QED
      BY <2>1, <2>2 DEF g
  <1>5. CASE found # {}
    <2>1. \E i \in found : \A j \in found : i <= j
      <3>1. found \subseteq Nat
        BY <1>3
      <3> HIDE DEF found
      <3> QED
        BY <1>5, <3>1, LeastNumber
    <2>2. first \in found
      <3> HIDE DEF found
      <3> QED
        BY <2>1
    <2> HIDE DEF first
    <2>3. first \in 1 .. Len(x) /\ x[first].id = nid /\ x[first] \in AttributeSet
      BY <1>2, <2>2
    <2>4. g = x[first].name
      <3> HIDE DEF found
      <3> QED
        BY <1>1, <1>5
    <2> QED
      BY <2>3, <2>4 DEF g
  <1> QED
    BY <1>4, <1>5

(* What the name in an attribute look-up is: the value, or nothing. *)
LEMMA AsStringIs ==
    ASSUME NEW d \in DNSet, NEW nid
    PROVE  \/ /\ Names!GetAttributeByNID(d, nid) = <<>>
              /\ Names!GetAttributeByNIDAsString(d, nid) = <<>>
              /\ \A i \in 1 .. Len(d.attributes) : d.attributes[i].id # nid
           \/ \E i \in 1 .. Len(d.attributes) :
                 /\ d.attributes[i] \in AttributeSet /\ d.attributes[i].id = nid
                 /\ Names!GetAttributeByNID(d, nid) = <<d.attributes[i]>>
                 /\ Names!GetAttributeByNIDAsString(d, nid) = d.attributes[i].name
  <1> DEFINE g == Names!GetAttributeByNID(d, nid)
             v == Names!GetAttributeByNIDAsString(d, nid)
  <1>1. v = IF g = <<>> THEN <<>> ELSE g[1].name
    BY DEF Names!GetAttributeByNIDAsString
  <1>2. \A a : <<a>> # <<>> /\ <<a>>[1] = a
    OBVIOUS
  <1>3. \/ /\ \A i \in 1 .. Len(d.attributes) : d.attributes[i].id # nid
           /\ g = <<>>
        \/ \E i \in 1 .. Len(d.attributes) :
              /\ d.attributes[i] \in AttributeSet /\ d.attributes[i].id = nid
              /\ g = <<d.attributes[i]>>
    BY LookUpFindsLast
  <1> HIDE DEF g, v
  <1>4. CASE /\ \A i \in 1 .. Len(d.attributes) : d.attributes[i].id # nid
             /\ g = <<>>
    BY <1>1, <1>4 DEF g, v
  <1>5. CASE \E i \in 1 .. Len(d.attributes) :
              /\ d.attributes[i] \in AttributeSet /\ d.attributes[i].id = nid
              /\ g = <<d.attributes[i]>>
    <2>1. PICK i \in 1 .. Len(d.attributes) :
              /\ d.attributes[i] \in AttributeSet /\ d.attributes[i].id = nid
              /\ g = <<d.attributes[i]>>
      BY <1>5
    <2>2. v = d.attributes[i].name
      BY <1>1, <1>2, <2>1
    <2> QED
      BY <2>1, <2>2 DEF g, v
  <1> QED
    BY <1>3, <1>4, <1>5

(* What populateX509Name() offers. *)
LEMMA OfferedIs ==
    ASSUME NEW d \in DNSet
    PROVE  /\ Names!Offered(d) \in Seq(OptionSet)
           /\ d.custom =>
                /\ Len(Names!Offered(d)) = Len(d.attributes)
                /\ \A i \in 1 .. Len(d.attributes) : Names!Offered(d)[i] = <<d.attributes[i]>>
           /\ ~d.custom =>
                /\ Len(Names!Offered(d)) = Len(Names!FixedOrder)
                /\ \A i \in 1 .. Len(Names!FixedOrder) :
                      Names!Offered(d)[i] = Names!GetAttributeByNID(d, Names!FixedOrder[i])
  <1> DEFINE list == d.attributes
             n == Len(list)
             m == Len(Names!FixedOrder)
             one == [i \in 1 .. n |-> <<list[i]>>]
             all == [i \in 1 .. m |-> Names!GetAttributeByNID(d, Names!FixedOrder[i])]
  <1>0. list \in Seq(AttributeSet) /\ d.custom \in BOOLEAN
    BY DEF DNSet
  <1>1. n \in Nat /\ \A i \in 1 .. n : list[i] \in AttributeSet
    BY <1>0, ElementOfSeq, LenProperties
  <1>2. m \in Nat
    BY FixedOrderIs
  <1>3. Names!Offered(d) = IF d.custom THEN one ELSE all
    BY DEF Names!Offered
  <1>4. \A i \in 1 .. m : Names!GetAttributeByNID(d, Names!FixedOrder[i]) \in OptionSet
    BY LookUpFindsLast
  <1> HIDE DEF list, m, n
  <1>5. all \in Seq(OptionSet) /\ Len(all) = m
    BY <1>2, <1>4
  <1>6. one \in Seq(OptionSet) /\ Len(one) = n
    <2> DEFINE opt(i) == <<list[i]>>
    <2>1. \A i \in 1 .. n : opt(i) \in OptionSet
      BY <1>1 DEF OptionSet
    <2>2. one = [i \in 1 .. n |-> opt(i)]
      OBVIOUS
    <2> HIDE DEF opt, one
    <2> QED
      BY <1>1, <2>1, <2>2
  <1>7. CASE d.custom
    BY <1>3, <1>6, <1>7 DEF list, n
  <1>8. CASE ~d.custom
    BY <1>3, <1>5, <1>8 DEF m
  <1> QED
    BY <1>0, <1>7, <1>8

(* What is read from an X509_NAME is a name with the entries' values. *)
LEMMA ReadBackIs ==
    ASSUME NEW x \in Seq(AttributeSet)
    PROVE  /\ Names!FromX509Name(x) \in DNSet
           /\ ~Names!FromX509Name(x).custom
           /\ \A nid \in AnyNID : Names!GetAttributeByNIDAsString(Names!FromX509Name(x), nid)
                                    = Names!EntryByNIDAsString(x, nid)
  <1> DEFINE m == Len(Names!FixedOrder)
             at(i) == Names!Attribute(Names!FixedOrder[i],
                          Names!EntryByNIDAsString(x, Names!FixedOrder[i]))
             list == [i \in 1 .. m |-> at(i)]
             d == Names!FromX509Name(x)
  <1>1. d = [custom |-> FALSE, attributes |-> list]
    BY DEF Names!FromX509Name
  <1>2. m \in Nat
    BY FixedOrderIs
  <1>3. \A nid : Names!EntryByNIDAsString(x, nid) \in Values \union {<<>>}
    BY EntryIs DEF AttributeSet
  <1>4. \A i \in 1 .. m : at(i) \in AttributeSet
    <2> SUFFICES ASSUME NEW i \in 1 .. m PROVE at(i) \in AttributeSet
      OBVIOUS
    <2>1. Names!FixedOrder[i] \in AnyNID
      BY FixedOrderIs
    <2> DEFINE v == Names!EntryByNIDAsString(x, Names!FixedOrder[i])
               o == Names!FixedOrder[i]
    <2>2. v \in Values \union {<<>>} /\ o \in AnyNID
      BY <1>3, <2>1
    <2>3. at(i) = [id |-> o, name |-> v]
      BY DEF Names!Attribute
    <2> HIDE DEF v, o, at
    <2> QED
      BY <2>2, <2>3 DEF AttributeSet
  <1>5. \A i \in 1 .. m : /\ at(i).id = Names!FixedOrder[i]
                          /\ at(i).name = Names!EntryByNIDAsString(x, Names!FixedOrder[i])
    BY DEF Names!Attribute
  <1>6. \A nid \in AnyNID : \E i \in 1 .. m : Names!FixedOrder[i] = nid
    BY FixedOrderIs
  <1> HIDE DEF m, at
  <1>7. list \in Seq(AttributeSet) /\ Len(list) = m /\ \A i \in 1 .. m : list[i] = at(i)
    BY <1>2, <1>4
  <1> HIDE DEF list, d
  <1>8. d \in DNSet /\ ~d.custom /\ d.attributes = list
    <2>1. d.custom = FALSE /\ d.attributes = list
      BY <1>1
    <2>2. d \in DNSet
      BY <1>1, <1>7 DEF DNSet
    <2> QED
      BY <2>1, <2>2, Zenon
  <1>9. ASSUME NEW nid \in AnyNID
        PROVE  Names!GetAttributeByNIDAsString(d, nid) = Names!EntryByNIDAsString(x, nid)
    <2>1. PICK k \in 1 .. m : Names!FixedOrder[k] = nid
      BY <1>6
    <2>2. list[k].id = nid
      BY <1>5, <1>7, <2>1
    <2>3. PICK i \in 1 .. Len(list) :
              /\ list[i].id = nid
              /\ Names!GetAttributeByNIDAsString(d, nid) = list[i].name
      <3>1. \/ \A i \in 1 .. Len(d.attributes) : d.attributes[i].id # nid
            \/ \E i \in 1 .. Len(d.attributes) :
                  /\ d.attributes[i].id = nid
                  /\ Names!GetAttributeByNIDAsString(d, nid) = d.attributes[i].name
        BY <1>8, AsStringIs
      <3>2. d.attributes = list /\ k \in 1 .. Len(list)
        BY <1>7, <1>8
      <3> QED
        BY <2>2, <3>1, <3>2
    <2>4. i \in 1 .. m /\ list[i] = at(i)
      BY <1>7, <2>3
    <2> QED
      BY <1>5, <2>3, <2>4
  <1> QED
    BY <1>8, <1>9 DEF d

(* An X509_NAME has for every kind the value that the name has. *)
LEMMA EntriesKeepValues ==
    ASSUME NEW d \in DNSet, ~d.custom \/ Names!SetOnce(d), NEW nid \in AnyNID
    PROVE  Names!EntryByNIDAsString(Names!Entries(d), nid)
             = Names!GetAttributeByNIDAsString(d, nid)
  <1> DEFINE list == d.attributes
             off == Names!Offered(d)
             x == Names!Entries(d)
             m == Len(Names!FixedOrder)
             v == Names!GetAttributeByNIDAsString(d, nid)
             w == Names!EntryByNIDAsString(x, nid)
  <1>0. list \in Seq(AttributeSet) /\ d.custom \in BOOLEAN
    BY DEF DNSet
  <1>1. DOMAIN list = 1 .. Len(list)
    BY <1>0, LenProperties
  <1>2. off \in Seq(OptionSet)
    BY OfferedIs
  <1>3. /\ x \in Seq(AttributeSet)
        /\ \A k \in 1 .. Len(x) : \E i \in 1 .. Len(off) :
              off[i] # <<>> /\ off[i][1].name # <<>> /\ x[k] = off[i][1]
        /\ \A i \in 1 .. Len(off) : off[i] # <<>> /\ off[i][1].name # <<>> =>
              \E k \in 1 .. Len(x) : x[k] = off[i][1]
    BY <1>2, AddedElements DEF Names!Entries
  <1>4. \A a : <<a>> # <<>> /\ <<a>>[1] = a
    OBVIOUS
  <1>5. /\ d.custom => Len(off) = Len(list) /\ \A i \in 1 .. Len(list) : off[i] = <<list[i]>>
        /\ ~d.custom => /\ Len(off) = m
                        /\ \A i \in 1 .. m :
                              off[i] = Names!GetAttributeByNID(d, Names!FixedOrder[i])
    BY OfferedIs
  <1>6. \A i \in 1 .. Len(list) : list[i].id = nid /\ v = list[i].name /\ v # <<>>
                                /\ Names!GetAttributeByNID(d, nid) = <<list[i]>> =>
            \E k \in 1 .. Len(x) : x[k] = list[i]
    <2> SUFFICES ASSUME NEW i \in 1 .. Len(list), list[i].id = nid, v = list[i].name, v # <<>>,
                        Names!GetAttributeByNID(d, nid) = <<list[i]>>
                 PROVE  \E k \in 1 .. Len(x) : x[k] = list[i]
      OBVIOUS
    <2>1. \E j \in 1 .. Len(off) : off[j] = <<list[i]>>
      <3>1. CASE d.custom
        <4> HIDE DEF off, list
        <4> QED
          BY <1>5, <3>1
      <3>2. CASE ~d.custom
        <4>1. PICK j \in 1 .. m : Names!FixedOrder[j] = nid
          BY FixedOrderIs
        <4> HIDE DEF off, list, m
        <4> QED
          BY <1>5, <3>2, <4>1
      <3> QED
        BY <1>0, <3>1, <3>2
    <2> HIDE DEF off, list, x, v
    <2>2. PICK j \in 1 .. Len(off) : off[j] = <<list[i]>>
      BY <2>1
    <2>3. off[j] # <<>> /\ off[j][1] = list[i]
      BY <1>4, <2>2
    <2> QED
      BY <1>3, <2>3
  <1>7. ASSUME NEW k \in 1 .. Len(x), x[k].id = nid PROVE x[k].name = v
    <2>1. PICK i \in 1 .. Len(off) : off[i] # <<>> /\ x[k] = off[i][1]
      BY <1>3
    <2>2. CASE d.custom
      <3>1. i \in 1 .. Len(list) /\ off[i] = <<list[i]>>
        BY <1>5, <2>1, <2>2
      <3>2. x[k] = list[i]
        <4> HIDE DEF off, list, x
        <4> QED
          BY <1>4, <2>1, <3>1
      <3>3. list[i].id = nid
        BY <1>7, <3>2
      <3>4. PICK j \in 1 .. Len(list) : list[j].id = nid /\ v = list[j].name
        BY <3>1, <3>3, AsStringIs
      <3>5. i = j
        BY <1>1, <2>2, <3>1, <3>3, <3>4 DEF Names!SetOnce
      <3> QED
        BY <3>2, <3>4, <3>5
    <2>3. CASE ~d.custom
      <3> DEFINE o == Names!FixedOrder[i]
      <3>1. i \in 1 .. m /\ off[i] = Names!GetAttributeByNID(d, o)
        BY <1>5, <2>1, <2>3
      <3> HIDE DEF o
      <3>2. PICK j \in 1 .. Len(list) : /\ list[j].id = o
                                        /\ Names!GetAttributeByNID(d, o) = <<list[j]>>
                                        /\ Names!GetAttributeByNIDAsString(d, o) = list[j].name
        BY <2>1, <3>1, AsStringIs
      <3>3. x[k] = list[j]
        <4> HIDE DEF off, list, x
        <4> QED
          BY <1>4, <2>1, <3>1, <3>2
      <3>4. o = nid
        BY <1>7, <3>2, <3>3
      <3> QED
        BY <3>2, <3>3, <3>4
    <2> QED
      BY <1>0, <2>2, <2>3
  <1>8. \/ (\A i \in 1 .. Len(x) : x[i].id # nid) /\ w = <<>>
        \/ \E i \in 1 .. Len(x) : x[i].id = nid /\ w = x[i].name
    <2> HIDE DEF x
    <2>1. x \in Seq(AttributeSet)
      BY <1>3
    <2> QED
      BY <2>1, EntryIs
  <1>9. \/ v = <<>>
        \/ \E i \in 1 .. Len(list) : /\ list[i].id = nid /\ v = list[i].name
                                     /\ Names!GetAttributeByNID(d, nid) = <<list[i]>>
    BY AsStringIs
  <1> HIDE DEF list, x, v, w
  <1>10. CASE (\A i \in 1 .. Len(x) : x[i].id # nid) /\ w = <<>>
    BY <1>6, <1>9, <1>10 DEF v, w, x
  <1>11. CASE \E i \in 1 .. Len(x) : x[i].id = nid /\ w = x[i].name
    <2>1. w = v
      BY <1>7, <1>11
    <2> QED
      BY <2>1 DEF v, w, x
  <1> QED
    BY <1>8, <1>10, <1>11

(* Default names with the same value for every kind fill an X509_NAME      *)
(* alike: an attribute that is missing and one that is empty are both      *)
(* skipped.                                                                *)
LEMMA TuplesDecide ==
    ASSUME NEW d \in DNSet, NEW e \in DNSet, ~d.custom, ~e.custom,
           Names!CreateTuple(d) = Names!CreateTuple(e)
    PROVE  Names!Entries(d) = Names!Entries(e)
  <1> DEFINE m == Len(Names!FixedOrder)
             off == Names!Offered(d)
             other == Names!Offered(e)
  <1>1. /\ off \in Seq(OptionSet) /\ Len(off) = m /\ Len(other) = m
        /\ \A i \in 1 .. m : /\ off[i] = Names!GetAttributeByNID(d, Names!FixedOrder[i])
                             /\ other[i] = Names!GetAttributeByNID(e, Names!FixedOrder[i])
    BY OfferedIs
  <1>2. \A nid \in AnyNID : Names!GetAttributeByNIDAsString(d, nid)
                              = Names!GetAttributeByNIDAsString(e, nid)
    <2> SUFFICES ASSUME NEW nid \in AnyNID
                 PROVE  Names!GetAttributeByNIDAsString(d, nid)
                          = Names!GetAttributeByNIDAsString(e, nid)
      OBVIOUS
    <2>1. Names!CreateTuple(d)[nid] = Names!CreateTuple(e)[nid]
      OBVIOUS
    <2> QED
      BY <2>1 DEF Names!CreateTuple, AnyNID
  <1>3. ASSUME NEW i \in 1 .. m, NEW x \in Seq(AttributeSet)
        PROVE  Names!AddString(x, other[i]) = Names!AddString(x, off[i])
    <2> DEFINE nid == Names!FixedOrder[i]
               a == off[i]
               b == other[i]
               v == Names!GetAttributeByNIDAsString(d, nid)
    <2>1. nid \in AnyNID
      BY FixedOrderIs
    <2>2. v = Names!GetAttributeByNIDAsString(e, nid)
      BY <1>2, <2>1
    <2>3. a = Names!GetAttributeByNID(d, nid) /\ b = Names!GetAttributeByNID(e, nid)
      BY <1>1
    <2> HIDE DEF nid, a, b, v
    <2>4. \/ a = <<>> /\ v = <<>>
          \/ \E t \in AttributeSet : a = <<t>> /\ t.id = nid /\ t.name = v
      BY <2>3, AsStringIs DEF v
    <2>5. \/ b = <<>> /\ v = <<>>
          \/ \E t \in AttributeSet : b = <<t>> /\ t.id = nid /\ t.name = v
      BY <2>2, <2>3, AsStringIs
    <2>6. CASE v = <<>>
      BY <2>4, <2>5, <2>6 DEF Names!AddString, a, b
    <2>7. CASE v # <<>>
      <3>1. PICK t \in AttributeSet : a = <<t>> /\ t.id = nid /\ t.name = v
        BY <2>4, <2>7
      <3>2. PICK u \in AttributeSet : b = <<u>> /\ u.id = nid /\ u.name = v
        BY <2>5, <2>7
      <3>3. t = u
        BY <3>1, <3>2 DEF AttributeSet
      <3> QED
        BY <3>1, <3>2, <3>3 DEF a, b
    <2> QED
      BY <2>6, <2>7
  <1>4. PICK f : NameSteps(f, off)
    BY <1>1, NameStepsExist
  <1> HIDE DEF off, other, m
  <1>5. \A i \in 1 .. Len(off), x \in Seq(AttributeSet) :
           Names!AddString(x, other[i]) = Names!AddString(x, off[i])
    BY <1>1, <1>3
  <1>6. Len(other) = Len(off)
    BY <1>1
  <1>7. Names!Added(other) = f[Len(off)]
    BY <1>1, <1>4, <1>5, <1>6, AddedIsStep
  <1>8. Names!Added(off) = f[Len(off)]
    BY <1>1, <1>4, AddedIsStep
  <1> QED
    BY <1>7, <1>8 DEF Names!Entries, off, other

(* The entries of an X509_NAME have values. *)
LEMMA EntriesHaveValues ==
    ASSUME NEW d \in DNSet
    PROVE  /\ Names!Entries(d) \in Seq(AttributeSet)
           /\ \A k \in 1 .. Len(Names!Entries(d)) : Names!Entries(d)[k].name # <<>>
  <1> DEFINE off == Names!Offered(d)
  <1>1. off \in Seq(OptionSet)
    BY OfferedIs
  <1>2. Names!Entries(d) = Names!Added(off)
    BY DEF Names!Entries
  <1> HIDE DEF off
  <1>3. /\ Names!Added(off) \in Seq(AttributeSet)
        /\ \A k \in 1 .. Len(Names!Added(off)) : Names!Added(off)[k].name # <<>>
    BY <1>1, AddedElements
  <1> QED
    BY <1>2, <1>3

(* A name under construction. *)
BuiltName(d) ==
    /\ d \in DNSet /\ Len(d.attributes) <= MaxAttributes
    /\ \A i \in 1 .. Len(d.attributes) :
          /\ d.attributes[i].id \in NIDs
          /\ d.attributes[i].id = "CountryName" => Len(d.attributes[i].name) <= 2

(* An X509_NAME. *)
FilledName(x) ==
    x \in Seq(AttributeSet) /\ \A i \in 1 .. Len(x) : x[i].name # <<>>

(* The inductive invariant of names: an X509_NAME whose filling succeeded  *)
(* holds the entries of its source, and what was read is what it holds.    *)
NameIInv ==
    /\ DOMAIN nDn = Slots /\ \A s \in Slots : BuiltName(nDn[s])
    /\ FilledName(nName)
    /\ \/ nSource = <<>>
       \/ \E d \in DNSet : nSource = <<d>> /\ nName = Names!Entries(d)
    /\ \/ nLoaded = <<>>
       \/ nSource # <<>> /\ nLoaded = <<Names!FromX509Name(nName)>>
    /\ nException \in BOOLEAN

(* The invariant says what the run checks. *)
LEMMA NameIInvSuffices == NameIInv => NamesSurviveEncoding
  <1> SUFFICES ASSUME NameIInv PROVE NamesSurviveEncoding
    OBVIOUS
  <1>1. \A s \in Slots : /\ nDn[s].custom \in BOOLEAN
                         /\ DOMAIN nDn[s].attributes = 1 .. Len(nDn[s].attributes)
                         /\ nDn[s] \in DNSet
    <2> SUFFICES ASSUME NEW s \in Slots
                 PROVE  /\ nDn[s].custom \in BOOLEAN
                        /\ DOMAIN nDn[s].attributes = 1 .. Len(nDn[s].attributes)
                        /\ nDn[s] \in DNSet
      OBVIOUS
    <2>1. nDn[s] \in DNSet
      BY DEF NameIInv, BuiltName
    <2>2. nDn[s].custom \in BOOLEAN /\ nDn[s].attributes \in Seq(AttributeSet)
      BY <2>1 DEF DNSet
    <2> QED
      BY <2>1, <2>2, LenProperties
  <1>2. Names!TypeOK
    <2>1. ASSUME NEW s \in Slots
          PROVE  /\ nDn[s].custom \in BOOLEAN /\ Len(nDn[s].attributes) <= MaxAttributes
                 /\ \A i \in DOMAIN nDn[s].attributes :
                       /\ nDn[s].attributes[i].id \in NIDs
                       /\ nDn[s].attributes[i].id = "CountryName" =>
                             Len(nDn[s].attributes[i].name) <= 2
      BY <1>1 DEF NameIInv, BuiltName
    <2>2. \A i \in DOMAIN nName : nName[i].name # <<>>
      <3>1. nName \in Seq(AttributeSet) /\ \A i \in 1 .. Len(nName) : nName[i].name # <<>>
        BY DEF NameIInv, FilledName
      <3>2. DOMAIN nName = 1 .. Len(nName)
        BY <3>1, LenProperties
      <3> QED
        BY <3>1, <3>2
    <2>3. nException \in BOOLEAN
      BY DEF NameIInv
    <2> QED
      BY <2>1, <2>2, <2>3 DEF Names!TypeOK
  <1>3. Names!RoundTrip
    <2> SUFFICES ASSUME nLoaded # <<>>, ~nSource[1].custom \/ Names!SetOnce(nSource[1])
                 PROVE  Names!Equal(nLoaded[1], nSource[1])
      BY DEF Names!RoundTrip
    <2>1. nSource # <<>> /\ nLoaded = <<Names!FromX509Name(nName)>>
      BY DEF NameIInv
    <2>2. PICK d \in DNSet : nSource = <<d>> /\ nName = Names!Entries(d)
      BY <2>1 DEF NameIInv
    <2> DEFINE x == Names!Entries(d)
               e == Names!FromX509Name(x)
    <2>3. nSource[1] = d /\ nLoaded[1] = e
      BY <2>1, <2>2
    <2>4. x \in Seq(AttributeSet)
      BY EntriesHaveValues
    <2>5. ~d.custom \/ Names!SetOnce(d)
      BY <2>3
    <2>6. /\ e \in DNSet /\ ~e.custom
          /\ \A nid \in AnyNID : Names!GetAttributeByNIDAsString(e, nid)
                                   = Names!EntryByNIDAsString(x, nid)
      BY <2>4, ReadBackIs
    <2>7. \A nid \in AnyNID : Names!GetAttributeByNIDAsString(e, nid)
                                = Names!GetAttributeByNIDAsString(d, nid)
      BY <2>5, <2>6, EntriesKeepValues
    <2> HIDE DEF x, e
    <2>8. Names!CreateTuple(e) = Names!CreateTuple(d)
      BY <2>7 DEF Names!CreateTuple, AnyNID
    <2> QED
      BY <2>3, <2>6, <2>8 DEF Names!Equal
  <1>4. Names!EqualNamesEncodeAlike
    <2> SUFFICES ASSUME NEW s \in Slots, NEW t \in Slots, nDn[s].custom = nDn[t].custom,
                        Names!Equal(nDn[s], nDn[t])
                 PROVE  Names!Entries(nDn[s]) = Names!Entries(nDn[t])
      BY DEF Names!EqualNamesEncodeAlike
    <2> DEFINE d == nDn[s]
               e == nDn[t]
    <2>1. d \in DNSet /\ e \in DNSet /\ d.custom \in BOOLEAN /\ e.custom \in BOOLEAN
      BY <1>1
    <2>2. d.custom = e.custom /\ Names!Equal(d, e)
      OBVIOUS
    <2> HIDE DEF d, e
    <2>3. CASE d.custom
      <3>1. d.attributes = e.attributes
        BY <2>2, <2>3 DEF Names!Equal
      <3>2. d = e
        BY <2>1, <2>2, <3>1 DEF DNSet
      <3> QED
        BY <3>2 DEF d, e
    <2>4. CASE ~d.custom
      <3>1. ~e.custom /\ Names!CreateTuple(d) = Names!CreateTuple(e)
        BY <2>2, <2>4 DEF Names!Equal
      <3>2. Names!Entries(d) = Names!Entries(e)
        BY <2>1, <2>4, <3>1, TuplesDecide
      <3> QED
        BY <3>2 DEF d, e
    <2> QED
      BY <2>1, <2>3, <2>4
  <1> QED
    BY <1>2, <1>3, <1>4 DEF NamesSurviveEncoding

(* An attribute that a setter accepts for a name. *)
SetterAccepts(d, a) ==
    /\ a \in AttributeSet /\ a.id \in NIDs /\ Len(d.attributes) < MaxAttributes
    /\ a.id = "CountryName" => Len(a.name) <= 2

(* A setter leaves a name under construction. *)
LEMMA SetterBuilds ==
    ASSUME NEW d, BuiltName(d), NEW a, SetterAccepts(d, a)
    PROVE  BuiltName([custom |-> d.custom, attributes |-> Append(d.attributes, a)])
  <1> DEFINE list == d.attributes
             bs == Append(list, a)
             e == [custom |-> d.custom, attributes |-> bs]
             Fine(t) == t.id \in NIDs /\ (t.id = "CountryName" => Len(t.name) <= 2)
  <1>1. /\ list \in Seq(AttributeSet) /\ d.custom \in BOOLEAN
        /\ \A i \in 1 .. Len(list) : Fine(list[i])
    BY DEF BuiltName, DNSet
  <1>2. a \in AttributeSet /\ Len(list) < MaxAttributes /\ Fine(a)
    BY DEF SetterAccepts
  <1>b. Len(bs) <= MaxAttributes /\ (\A i \in 1 .. Len(bs) : Fine(bs[i])) /\ e \in DNSet
          => BuiltName(e)
    BY DEF BuiltName
  <1> HIDE DEF list, Fine
  <1>3. Len(list) \in Nat /\ MaxAttributes \in Nat
    BY <1>1, LenProperties, IssuingAssumption DEF Names!NameAssumption
  <1>4. /\ bs \in Seq(AttributeSet) /\ Len(bs) = Len(list) + 1 /\ bs[Len(list) + 1] = a
        /\ \A i \in 1 .. Len(list) : bs[i] = list[i]
    BY <1>1, <1>2, AppendProperties
  <1> HIDE DEF bs
  <1>5. e \in DNSet
    BY <1>1, <1>4 DEF DNSet
  <1> HIDE DEF e
  <1>6. Len(bs) <= MaxAttributes
    BY <1>2, <1>3, <1>4
  <1>n. \A i \in 1 .. Len(bs) : i \in 1 .. Len(list) \/ i = Len(list) + 1
    <2>1. Len(bs) = Len(list) + 1
      BY <1>4
    <2> QED
      BY <1>3, <2>1
  <1>7. \A i \in 1 .. Len(bs) : Fine(bs[i])
    BY <1>1, <1>2, <1>4, <1>n
  <1>8. BuiltName(e)
    BY <1>5, <1>6, <1>7, <1>b
  <1> QED
    BY <1>8 DEF e, bs, list

(* Cutting an X509_NAME before one of its entries leaves an X509_NAME. *)
LEMMA CutIsFilled ==
    ASSUME NEW x, FilledName(x), NEW i \in 1 .. Len(x)
    PROVE  FilledName(SubSeq(x, 1, i - 1))
  <1> DEFINE y == SubSeq(x, 1, i - 1)
  <1>1. x \in Seq(AttributeSet) /\ \A k \in 1 .. Len(x) : x[k].name # <<>>
    BY DEF FilledName
  <1>2. Len(x) \in Nat /\ i - 1 \in Nat /\ i - 1 <= Len(x)
    BY <1>1, LenProperties
  <1>3. /\ y \in Seq(AttributeSet) /\ Len(y) = i - 1
        /\ \A k \in 1 .. i - 1 : y[k] = x[k]
    BY <1>1, <1>2
  <1> HIDE DEF y
  <1>4. \A k \in 1 .. Len(y) : y[k].name # <<>>
    <2> SUFFICES ASSUME NEW k \in 1 .. Len(y) PROVE y[k].name # <<>>
      OBVIOUS
    <2>1. k \in 1 .. i - 1 /\ k \in 1 .. Len(x)
      BY <1>2, <1>3
    <2> QED
      BY <1>1, <1>3, <2>1
  <1>5. FilledName(y)
    BY <1>3, <1>4 DEF FilledName
  <1> QED
    BY <1>5 DEF y

(* Names keep the invariant. *)
LEMMA NameInvariance == Names!Spec => []NameIInv
  <1>1. Names!Init => NameIInv
    <2> SUFFICES ASSUME Names!Init PROVE NameIInv
      OBVIOUS
    <2>0. <<>> \in Seq(AttributeSet) /\ Len(<<>>) = 0 /\ MaxAttributes \in Nat
      BY EmptySeq, IssuingAssumption DEF Names!NameAssumption
    <2>1. ASSUME NEW s \in Slots PROVE BuiltName(nDn[s])
      <3>1. PICK c \in BOOLEAN : nDn[s] = [custom |-> c, attributes |-> <<>>]
        BY DEF Names!Init
      <3>2. nDn[s] \in DNSet /\ nDn[s].attributes = <<>>
        BY <2>0, <3>1 DEF DNSet
      <3> QED
        BY <2>0, <3>2 DEF BuiltName
    <2>2. DOMAIN nDn = Slots /\ nName = <<>> /\ nSource = <<>> /\ nLoaded = <<>>
      BY DEF Names!Init
    <2>3. nException \in BOOLEAN
      BY Zenon DEF Names!Init
    <2>4. FilledName(nName)
      BY <2>0, <2>2 DEF FilledName
    <2> QED
      BY <2>1, <2>2, <2>3, <2>4 DEF NameIInv
  <1>2. NameIInv /\ [Names!Next]_(Names!vars) => NameIInv'
    <2> SUFFICES ASSUME NameIInv, [Names!Next]_(Names!vars) PROVE NameIInv'
      OBVIOUS
    <2>0. /\ DOMAIN nDn = Slots /\ \A s \in Slots : BuiltName(nDn[s])
          /\ FilledName(nName)
          /\ \/ nSource = <<>>
             \/ \E d \in DNSet : nSource = <<d>> /\ nName = Names!Entries(d)
          /\ \/ nLoaded = <<>>
             \/ nSource # <<>> /\ nLoaded = <<Names!FromX509Name(nName)>>
          /\ nException \in BOOLEAN
      BY DEF NameIInv
    <2>1. CASE UNCHANGED Names!vars
      BY <2>0, <2>1 DEF NameIInv, Names!vars
    <2>2. ASSUME NEW s \in Slots, NEW nid \in NIDs, NEW v \in Values,
                 Names!SetAttribute(s, nid, v)
          PROVE  NameIInv'
      <3> DEFINE refused == nid = "CountryName" /\ Len(v) > 2
      <3>1. /\ Len(nDn[s].attributes) < MaxAttributes
            /\ nDn' = IF refused THEN nDn
                      ELSE [nDn EXCEPT ![s].attributes
                              = Append(@, Names!Attribute(nid, v))]
            /\ nName' = nName /\ nSource' = nSource /\ nLoaded' = nLoaded
        BY <2>2 DEF Names!SetAttribute
      <3>2. nException' \in BOOLEAN
        <4>1. nException' = refused
          BY <2>2, Zenon DEF Names!SetAttribute
        <4> QED
          BY <4>1, Zenon
      <3>3. DOMAIN nDn' = Slots /\ \A t \in Slots : BuiltName(nDn'[t])
        <4>1. CASE refused
          BY <2>0, <3>1, <4>1
        <4>2. CASE ~refused
          <5> DEFINE a == Names!Attribute(nid, v)
                     e == [custom |-> nDn[s].custom, attributes |-> Append(nDn[s].attributes, a)]
          <5>1. BuiltName(e)
            <6>1. a \in AttributeSet /\ a.id \in NIDs
              BY IssuingAssumption DEF Names!NameAssumption, AnyNID, AttributeSet, Names!Attribute
            <6>2. a.id = "CountryName" => Len(a.name) <= 2
              <7>1. Len(v) \in Nat
                BY IssuingAssumption DEF Names!NameAssumption
              <7> QED
                BY <4>2, <7>1 DEF Names!Attribute
            <6> HIDE DEF a
            <6>3. SetterAccepts(nDn[s], a)
              BY <3>1, <6>1, <6>2 DEF SetterAccepts
            <6> QED
              BY <2>0, <6>3, SetterBuilds
          <5>2. nDn' = [nDn EXCEPT ![s] = e]
            <6> DEFINE d == nDn[s]
                       new == Append(d.attributes, a)
            <6>1. nDn' = [nDn EXCEPT ![s] = [d EXCEPT !.attributes = new]]
              BY <3>1, <4>2, Zenon
            <6>2. d \in DNSet
              BY <2>0 DEF BuiltName
            <6> HIDE DEF a, d, new
            <6>3. [d EXCEPT !.attributes = new] = [custom |-> d.custom, attributes |-> new]
              BY <6>2 DEF DNSet
            <6> QED
              BY <6>1, <6>3 DEF d, new
          <5> HIDE DEF e
          <5>3. \A t \in Slots : nDn'[t] = IF t = s THEN e ELSE nDn[t]
            BY <2>0, <5>2
          <5>4. DOMAIN nDn' = Slots
            BY <2>0, <5>2
          <5> QED
            BY <2>0, <5>1, <5>3, <5>4
        <4> QED
          BY <4>1, <4>2
      <3> HIDE DEF refused
      <3> QED
        BY <2>0, <3>1, <3>2, <3>3 DEF NameIInv
    <2>3. ASSUME NEW s \in Slots, Names!PopulateX509Name(s) PROVE NameIInv'
      <3> DEFINE x == Names!Entries(nDn[s])
                 bad == {i \in 1 .. Len(x) : ~Names!EntryAccepted(x[i])}
                 first == CHOOSE i \in bad : \A j \in bad : i <= j
      <3>1. /\ nName' = IF bad = {} THEN x ELSE SubSeq(x, 1, first - 1)
            /\ nSource' = (IF bad = {} THEN <<nDn[s]>> ELSE <<>>)
            /\ nLoaded' = <<>> /\ nDn' = nDn
        BY <2>3 DEF Names!PopulateX509Name
      <3>2. nException' \in BOOLEAN
        <4>1. nException' = (bad # {})
          BY <2>3, Zenon DEF Names!PopulateX509Name
        <4> QED
          BY <4>1, Zenon
      <3>3. nDn[s] \in DNSet
        BY <2>0 DEF BuiltName
      <3>4. FilledName(x)
        BY <3>3, EntriesHaveValues DEF FilledName
      <3>5. bad \subseteq 1 .. Len(x)
        OBVIOUS
      <3>6. CASE bad = {}
        <4>1. nName' = x /\ nSource' = <<nDn[s]>>
          BY <3>1, <3>6
        <4> QED
          BY <2>0, <3>1, <3>2, <3>3, <3>4, <4>1 DEF NameIInv
      <3>7. CASE bad # {}
        <4> HIDE DEF x, bad
        <4>0. bad \subseteq Nat
          <5>1. Len(x) \in Nat
            BY <3>4, LenProperties DEF FilledName
          <5> QED
            BY <3>5, <5>1
        <4>1. \E i \in bad : \A j \in bad : i <= j
          BY <3>7, <4>0, LeastNumber
        <4>2. first \in bad
          BY <4>1
        <4> HIDE DEF first
        <4>3. first \in 1 .. Len(x)
          BY <3>5, <4>2
        <4>4. nName' = SubSeq(x, 1, first - 1) /\ nSource' = <<>>
          BY <3>1, <3>7
        <4>5. FilledName(nName')
          BY <3>4, <4>3, <4>4, CutIsFilled
        <4> QED
          BY <2>0, <3>1, <3>2, <4>4, <4>5 DEF NameIInv
      <3> QED
        BY <3>6, <3>7
    <2>4. CASE Names!LoadX509Name
      <3>1. /\ nSource # <<>> /\ nLoaded' = <<Names!FromX509Name(nName)>>
            /\ nDn' = nDn /\ nName' = nName /\ nSource' = nSource
        BY <2>4 DEF Names!LoadX509Name
      <3>2. nException' \in BOOLEAN
        BY <2>4, Zenon DEF Names!LoadX509Name
      <3> QED
        BY <2>0, <3>1, <3>2 DEF NameIInv
    <2> QED
      BY <2>1, <2>2, <2>3, <2>4 DEF Names!Next
  <1> QED
    BY <1>1, <1>2, PTL DEF Names!Spec
-----------------------------------------------------------------------------
(* A behaviour of MCIssuing is one of each of these parts. *)
LEMMA PartsRun ==
    MCSpec => Spec /\ Params!Spec /\ Requests!Spec /\ Names!Spec /\ SerialNumbers!Spec
  <1>1. MCInit => Init /\ Params!Init /\ Requests!Init /\ Names!Init /\ SerialNumbers!Init
    BY DEF MCInit
  <1>2. [MCNext]_mcvars => [Next]_vars
    BY DEF MCNext, mcvars
  <1>3. [MCNext]_mcvars => [Params!Next]_(Params!vars)
    BY DEF MCNext, mcvars, paramVars, Params!vars
  <1>4. [MCNext]_mcvars => [Requests!Next]_(Requests!vars)
    BY DEF MCNext, mcvars, csrVars, Requests!vars
  <1>5. [MCNext]_mcvars => [Names!Next]_(Names!vars)
    BY DEF MCNext, mcvars, nameVars, Names!vars
  <1>6. [MCNext]_mcvars => [SerialNumbers!Next]_(SerialNumbers!vars)
    BY DEF MCNext, mcvars, serialVars, SerialNumbers!vars
  <1> QED
    BY <1>1, <1>2, <1>3, <1>4, <1>5, <1>6, PTL
    DEF MCSpec, Spec, Params!Spec, Requests!Spec, Names!Spec, SerialNumbers!Spec

(* A certificate carries what the last extension of every kind said and    *)
(* the start, validity and digest that were set last, whatever was set     *)
(* before and in whichever order: nothing is added, and an extension that  *)
(* cannot be built is not left out.                                        *)
THEOREM CertificatesAsAsked == MCSpec => []CertificateIsAsAsked
BY PartsRun, ParameterInvariance, ParameterIInvSuffices, PTL

(* A request that verifies was made by the holder of its key for its       *)
(* subject, whatever was altered or replaced on the way; every type of key *)
(* makes requests with every digest, and they verify.                      *)
THEOREM RequestsProve == MCSpec => []RequestsProveTheirKey
BY PartsRun, RequestInvariance, RequestIInvSuffices, PTL

(* What X509Certificate returns as the serial number, as an integer, a     *)
(* decimal string or bytes, means the serial number of the certificate,    *)
(* however many digits it has, or the call throws.                         *)
THEOREM SerialsExact == MCSpec => []SerialNumbersAreExact
BY PartsRun, SerialInvariance, SerialIInvSuffices, PTL

(* A name that populateX509Name() writes and fromX509Name() reads back is  *)
(* equal to the original, of a custom order if no attribute was set twice; *)
(* and operator== never calls two names of one kind equal whose X509_NAMEs *)
(* differ, whatever was set and however often.                             *)
THEOREM NamesSurvive == MCSpec => []NamesSurviveEncoding
BY PartsRun, NameInvariance, NameIInvSuffices, PTL
=============================================================================
