----------------------- MODULE X509VerificationProofs -----------------------
(***************************************************************************)
(* What X509Certificate::verify() accepts and refuses, for every hierarchy *)
(* of certificates, all revocation lists and any way to fill the context.  *)
(* The induction on naturals is the principle of the least number, taken   *)
(* from the well-foundedness of < on Nat.                                  *)
(***************************************************************************)
EXTENDS X509Verification, FiniteSetTheorems, WellFoundedInduction, TLAPS

Less == {ss \in Nat \X Nat : ss[1] < ss[2]}

(* A set of naturals that is not empty has a least element. *)
LEMMA LeastNumber ==
    ASSUME NEW T \in SUBSET Nat, T # {}
    PROVE  \E x \in T : \A y \in T : x <= y
  <1>1. IsWellFoundedOn(Less, Nat)
    BY NatLessThanWellFounded DEF OpToRel, Less
  <1>2. PICK x \in T : \A y \in T : <<y, x>> \notin Less
    <2>1. T \subseteq Nat
      OBVIOUS
    <2> QED
      BY <1>1, <2>1, WFMin
  <1>3. ASSUME NEW y \in T PROVE x <= y
    <2>1. x \in Nat /\ y \in Nat
      OBVIOUS
    <2>2. <<y, x>> \in Nat \X Nat /\ <<y, x>>[1] = y /\ <<y, x>>[2] = x
      BY <2>1
    <2>3. ~(y < x)
      BY <1>2, <2>2 DEF Less
    <2> QED
      BY <2>1, <2>3
  <1> QED
    BY <1>3

(* Min of the community modules is the least element. *)
LEMMA MinLemma ==
    ASSUME NEW T \in SUBSET Nat, T # {}
    PROVE  Min(T) \in T /\ \A y \in T : Min(T) <= y
BY LeastNumber DEF Min

(* Max of a bounded set of naturals is its greatest element. *)
LEMMA MaxLemma ==
    ASSUME NEW n \in Nat, NEW T \in SUBSET (0 .. n), T # {}
    PROVE  Max(T) \in T /\ \A y \in T : Max(T) >= y
  <1> DEFINE D == {n - x : x \in T}
  <1>0. \A x \in T : x \in 0 .. n /\ n - x \in Nat
    <2> TAKE x \in T
    <2>1. x \in 0 .. n
      OBVIOUS
    <2> QED
      BY <2>1
  <1>1. D \in SUBSET Nat /\ D # {}
    BY <1>0
  <1>2. PICK d \in D : \A e \in D : d <= e
    BY <1>1, LeastNumber
  <1>3. PICK x \in T : d = n - x
    OBVIOUS
  <1>4. ASSUME NEW y \in T PROVE x >= y
    <2>1. n - x <= n - y
      BY <1>2, <1>3
    <2>2. x \in Int /\ y \in Int
      BY <1>0
    <2> QED
      BY <2>1, <2>2
  <1> QED
    BY <1>4 DEF Max

(* Among finitely many revocation lists there is a latest one. *)
LEMMA LatestCrl ==
    ASSUME NEW pool \in SUBSET Crls, pool # {}
    PROVE  \E r \in pool : \A s \in pool : LastUpdate[s] <= LastUpdate[r]
  <1> DEFINE Later(r) == {s \in pool : LastUpdate[s] > LastUpdate[r]}
             Counts   == {Cardinality(Later(r)) : r \in pool}
  <1>1. ASSUME NEW r \in pool
        PROVE  IsFiniteSet(Later(r)) /\ Cardinality(Later(r)) \in Nat
    <2>1. Later(r) \subseteq Crls
      OBVIOUS
    <2>2. IsFiniteSet(Later(r))
      BY <2>1, FS_Subset, PkiAssumption
    <2> QED
      BY <2>2, FS_CardinalityType
  <1>2. Counts \in SUBSET Nat /\ Counts # {}
    BY <1>1
  <1>3. PICK c \in Counts : \A d \in Counts : c <= d
    BY <1>2, LeastNumber
  <1>4. PICK r \in pool : c = Cardinality(Later(r))
    OBVIOUS
  <1>5. ASSUME NEW s \in pool, ~(LastUpdate[s] <= LastUpdate[r])
        PROVE  FALSE
    <2>1. LastUpdate[s] \in Int /\ LastUpdate[r] \in Int
          /\ \A q \in pool : LastUpdate[q] \in Int
      BY PkiAssumption
    <2>2. Later(s) \subseteq Later(r) /\ Later(s) # Later(r)
      <3>1. s \in Later(r) /\ s \notin Later(s)
        BY <1>5, <2>1
      <3>2. \A q \in Later(s) : q \in Later(r)
        BY <1>5, <2>1
      <3> QED
        BY <3>1, <3>2
    <2>3. /\ IsFiniteSet(Later(r)) /\ IsFiniteSet(Later(s))
          /\ Cardinality(Later(r)) \in Nat /\ Cardinality(Later(s)) \in Nat
      BY <1>1
    <2>4. Cardinality(Later(r)) <= Cardinality(Later(s))
      BY <1>3, <1>4
    <2> HIDE DEF Later
    <2>5. Cardinality(Later(s)) < Cardinality(Later(r))
      BY <2>2, <2>3, FS_Subset
    <2> QED
      BY <2>3, <2>4, <2>5
  <1> QED
    BY <1>5
-----------------------------------------------------------------------------
(* The definition of Path is one: it starts at the certificate and goes    *)
(* from each certificate to its issuer.                                    *)
LEMMA PathLemma ==
    ASSUME NEW cert \in Certs
    PROVE  /\ Cardinality(Certs) \in Nat
           /\ \A n \in Height : Path(cert)[n] \in Certs
           /\ Path(cert)[0] = cert
           /\ \A n \in Height : n > 0 => Path(cert)[n] = Issuer[Path(cert)[n - 1]]
  <1> DEFINE Up(f, m) == /\ f \in [0 .. m -> Certs]
                         /\ f[0] = cert
                         /\ \A i \in 1 .. m : f[i] = Issuer[f[i - 1]]
             Without  == {m \in Nat : ~ \E f : Up(f, m)}
             N        == Cardinality(Certs)
  <1>1. N \in Nat
    BY PkiAssumption, FS_CardinalityType
  <1>2. Without = {}
    <2> SUFFICES ASSUME Without # {} PROVE FALSE
      OBVIOUS
    <2>1. PICK m \in Without : \A k \in Without : m <= k
      BY LeastNumber
    <2>2. m # 0
      <3>1. Up([i \in 0 .. 0 |-> cert], 0)
        OBVIOUS
      <3> QED
        BY <3>1
    <2>3. m - 1 \in Nat /\ m - 1 \notin Without
      <3>1. m \in Nat /\ m - 1 \in Nat /\ ~(m <= m - 1)
        BY <2>2
      <3> HIDE DEF Without
      <3> QED
        BY <2>1, <3>1
    <2>4. PICK f : Up(f, m - 1)
      BY <2>3
    <2> DEFINE g == [i \in 0 .. m |-> IF i = m THEN Issuer[f[m - 1]] ELSE f[i]]
    <2>5. Up(g, m)
      <3>1. \A i \in 0 .. m - 1 : f[i] \in Certs
        BY <2>4
      <3>2. g \in [0 .. m -> Certs]
        BY <2>3, <3>1, PkiAssumption
      <3>3. g[0] = cert
        BY <2>2, <2>4
      <3>4. ASSUME NEW i \in 1 .. m PROVE g[i] = Issuer[g[i - 1]]
        BY <2>3, <2>4
      <3> QED
        BY <3>2, <3>3, <3>4
    <2> QED
      BY <2>5
  <1>3. PICK f : Up(f, N)
    BY <1>1, <1>2
  <1> DEFINE Fix(up) == up = [n \in Height |-> IF n = 0 THEN cert ELSE Issuer[up[n - 1]]]
  <1>4. Fix(f)
    BY <1>1, <1>3 DEF Height
  <1>5. Path(cert) = CHOOSE up : Fix(up)
    BY DEF Path
  <1>6. Fix(Path(cert))
    BY <1>4, <1>5
  <1> HIDE DEF Fix
  <1>7. /\ Path(cert)[0] = cert
        /\ \A n \in Height : n > 0 => Path(cert)[n] = Issuer[Path(cert)[n - 1]]
    BY <1>1, <1>6 DEF Fix, Height
  <1> DEFINE Outside == {n \in Height : Path(cert)[n] \notin Certs}
  <1>8. Outside = {}
    <2> SUFFICES ASSUME Outside # {} PROVE FALSE
      OBVIOUS
    <2>1. Outside \in SUBSET Nat
      BY <1>1 DEF Height
    <2>2. PICK n \in Outside : \A k \in Outside : n <= k
      BY <2>1, LeastNumber
    <2>3. n # 0 /\ n \in Height
      BY <1>7
    <2>4. n - 1 \in Height /\ n - 1 \notin Outside
      BY <1>1, <2>2, <2>3 DEF Height
    <2>5. Path(cert)[n - 1] \in Certs
      BY <2>4
    <2>6. Path(cert)[n] \in Certs
      BY <1>1, <1>7, <2>3, <2>5, PkiAssumption DEF Height
    <2> QED
      BY <2>6
  <1> QED
    BY <1>1, <1>7, <1>8
-----------------------------------------------------------------------------
(* With a certificate below a trusted one, the first such position is the  *)
(* end of a partial chain, and a complete one ends at or above it.         *)
LEMMA AnchorLemma ==
    ASSUME NEW cert \in Certs, NEW trusted, NEW others,
           Anchors(cert, trusted, others) # {}
    PROVE  LET anchors == Anchors(cert, trusted, others)
               first   == Min(anchors)
           IN  /\ first \in anchors /\ first \in Height
               /\ \A n \in anchors : first <= n
               /\ \A roots : roots = Roots(cert, trusted, first) /\ roots # {} =>
                     /\ Min(roots) \in roots /\ Min(roots) \in Height
                     /\ \A n \in roots : Min(roots) <= n
  <1>1. Height \subseteq Nat
    BY PathLemma DEF Height
  <1>2. Anchors(cert, trusted, others) \in SUBSET Nat
        /\ Anchors(cert, trusted, others) \subseteq Height
    BY <1>1 DEF Anchors
  <1>3. \A from : Roots(cert, trusted, from) \in SUBSET Nat
                  /\ Roots(cert, trusted, from) \subseteq Height
    BY <1>1 DEF Roots
  <1> QED
    BY <1>2, <1>3, MinLemma

(* The leftovers of a partial chain are on the path. *)
LEMMA LeftoversLemma ==
    ASSUME NEW cert \in Certs, NEW others
    PROVE  Leftovers(cert, others) \in Height
  <1> DEFINE T == {n \in Height : \A i \in 1 .. n :
                     Path(cert)[i] \in others /\ Path(cert)[i] # Path(cert)[i - 1]}
  <1>1. Cardinality(Certs) \in Nat /\ T \in SUBSET (0 .. Cardinality(Certs))
    BY PathLemma DEF Height
  <1>2. 0 \in T
    BY <1>1 DEF Height
  <1>3. Max(T) \in T
    <2> HIDE DEF T
    <2> QED
      BY <1>1, <1>2, MaxLemma
  <1> QED
    BY <1>3 DEF Leftovers

(* A part of a valid chain is valid. *)
LEMMA ShorterIsValid ==
    ASSUME NEW cert, NEW m \in Nat, NEW n \in Nat, m <= n, NEW time,
           ChainValid(cert, n, time)
    PROVE  ChainValid(cert, m, time)
  <1>1. \A i \in 0 .. m : i \in 0 .. n
    OBVIOUS
  <1> QED
    BY <1>1 DEF ChainValid

(* A partial chain that was built leads to a trusted certificate. *)
LEMMA PartialChain ==
    ASSUME NEW cert \in Certs, NEW trusted, NEW others, NEW time,
           NEW end \in ChainEnds(cert, trusted, others, TRUE),
           ChainValid(cert, end, time)
    PROVE  \E n \in Height : /\ Path(cert)[n] \in trusted
                             /\ \A i \in 1 .. n - 1 : Path(cert)[i] \in others
                             /\ ChainValid(cert, n, time)
  <1> DEFINE anchors == Anchors(cert, trusted, others)
  <1>1. CASE anchors # {}
    <2>1. end = Min(anchors)
      BY <1>1 DEF ChainEnds
    <2>2. end \in anchors /\ end \in Height
      BY <1>1, <2>1, AnchorLemma
    <2> QED
      BY <2>2 DEF Anchors
  <1>2. CASE anchors = {}
    <2>1. cert \in trusted /\ end = Leftovers(cert, others)
      BY <1>2 DEF ChainEnds
    <2>2. end \in Height /\ Height \subseteq Nat /\ 0 \in Height
      BY <2>1, LeftoversLemma, PathLemma DEF Height
    <2>3. ChainValid(cert, 0, time)
      BY <2>2, ShorterIsValid
    <2>4. Path(cert)[0] \in trusted
      BY <2>1, PathLemma
    <2> QED
      BY <2>2, <2>3, <2>4
  <1> QED
    BY <1>1, <1>2

(* A complete chain that was built leads to a trusted self-signed one.     *)
LEMMA CompleteChain ==
    ASSUME NEW cert \in Certs, NEW trusted, NEW others,
           NEW end \in ChainEnds(cert, trusted, others, FALSE)
    PROVE  /\ Anchors(cert, trusted, others) # {}
           /\ end \in Height
           /\ Min(Anchors(cert, trusted, others)) <= end
           /\ Path(cert)[end] \in trusted /\ SelfSigned(Path(cert)[end])
           /\ \A i \in 1 .. end - 1 : Path(cert)[i] \in others \union trusted
  <1> DEFINE anchors == Anchors(cert, trusted, others)
             first   == Min(anchors)
             roots   == Roots(cert, trusted, first)
  <1>1. anchors # {} /\ roots # {} /\ end = Min(roots)
    BY DEF ChainEnds
  <1>2. first \in anchors /\ first \in Height /\ end \in roots /\ end \in Height
    BY <1>1, AnchorLemma
  <1>3. Height \subseteq Nat
    BY PathLemma DEF Height
  <1>4. /\ end >= first /\ SelfSigned(Path(cert)[end])
        /\ \A i \in first .. end : Path(cert)[i] \in trusted
        /\ \A i \in 1 .. first - 1 : Path(cert)[i] \in others
    BY <1>2 DEF Roots, Anchors
  <1>5. end \in Nat /\ first \in Nat
    BY <1>2, <1>3
  <1> HIDE DEF anchors, first, roots
  <1>6. \A i \in 1 .. end - 1 : i \in 1 .. first - 1 \/ i \in first .. end
    BY <1>5
  <1>7. end \in first .. end /\ first <= end
    BY <1>4, <1>5
  <1>8. \A i \in 1 .. end - 1 : Path(cert)[i] \in others \union trusted
    BY <1>4, <1>6
  <1> QED
    BY <1>1, <1>2, <1>4, <1>7, <1>8 DEF anchors, first
-----------------------------------------------------------------------------
(* A CRL check that passed found a list of the issuer's that covers the    *)
(* certificate.                                                            *)
LEMMA CheckedIsCovered ==
    ASSUME NEW cert, NEW i, NEW end, CrlCheck(cert, i, end, crls, CheckTime)
    PROVE  CoveredByCrl(Path(cert)[i])
  <1>1. PICK r \in ChosenCrl(Issuer[Path(cert)[i]], crls, CheckTime) :
            /\ CrlSigner[r] = CrlIssuer[r]
            /\ CrlValidAt(r, CheckTime)
            /\ Path(cert)[i] \notin Revoked[r]
    BY DEF CrlCheck
  <1>2. r \in crls /\ CrlIssuer[r] = Issuer[Path(cert)[i]]
    BY <1>1 DEF ChosenCrl
  <1> QED
    BY <1>1, <1>2 DEF CoveredByCrl, CrlVerifies

(* The parts of verify() with the flags of the context *)
Chain(cert, self, whole, end) ==
    /\ end \in ChainEnds(cert, trustedCerts, intermediateCerts, ~self)
    /\ ChainValid(cert, end, CheckTime)
    /\ crls # {} \/ whole => CrlCheck(cert, 0, end, crls, CheckTime)
    /\ whole => \A i \in 0 .. end : CrlCheck(cert, i, end, crls, CheckTime)

VerifiesWith(cert, self, whole) ==
    Verifies(cert, trustedCerts, intermediateCerts, crls, self, whole,
             verificationCheckTime)

(* verify() accepts if and only if such a chain can be built. *)
LEMMA VerifiesLemma ==
    ASSUME NEW cert, NEW self \in BOOLEAN, NEW whole \in BOOLEAN
    PROVE  VerifiesWith(cert, self, whole) <=>
             /\ whole => self /\ crls # {}
             /\ \E end : Chain(cert, self, whole, end)
  <1> DEFINE flags == Flags(self, whole, crls, verificationCheckTime)
             time  == IF "USE_CHECK_TIME" \in flags THEN verificationCheckTime ELSE Now
  <1>1. /\ ("PARTIAL_CHAIN" \in flags) = ~self
        /\ ("CRL_CHECK" \in flags) = (crls # {} \/ whole)
        /\ ("CRL_CHECK_ALL" \in flags) = whole
        /\ ("USE_CHECK_TIME" \in flags) = (verificationCheckTime # NotSet)
    BY DEF Flags
  <1>2. time = CheckTime
    BY <1>1 DEF CheckTime
  <1> HIDE DEF flags, time
  <1>3. X509VerifyCert(cert, trustedCerts, intermediateCerts, crls, flags, time) <=>
            \E end : Chain(cert, self, whole, end)
    BY <1>1, <1>2 DEF X509VerifyCert, Chain
  <1>4. VerifiesWith(cert, self, whole) <=>
          /\ ValidityCheck(self, whole, crls)
          /\ X509VerifyCert(cert, trustedCerts, intermediateCerts, crls, flags, time)
    BY DEF VerifiesWith, Verifies, flags, time
  <1> QED
    BY <1>3, <1>4 DEF ValidityCheck

(* The form with a trust store accepts with a partial chain and now. *)
LEMMA TrustStoreLemma ==
    ASSUME NEW cert \in Certs,
           Verifies(cert, trustedCerts, intermediateCerts, {}, FALSE, FALSE, NotSet)
    PROVE  \E n \in Height :
              /\ Path(cert)[n] \in trustedCerts
              /\ \A i \in 1 .. n - 1 : Path(cert)[i] \in intermediateCerts
              /\ ChainValid(cert, n, Now)
  <1> DEFINE flags == Flags(FALSE, FALSE, {}, NotSet)
  <1>1. "PARTIAL_CHAIN" \in flags /\ "USE_CHECK_TIME" \notin flags
    BY DEF Flags
  <1>2. X509VerifyCert(cert, trustedCerts, intermediateCerts, {}, flags, Now)
    BY <1>1 DEF Verifies
  <1> HIDE DEF flags
  <1>3. PICK end \in ChainEnds(cert, trustedCerts, intermediateCerts, TRUE) :
            ChainValid(cert, end, Now)
    BY <1>1, <1>2 DEF X509VerifyCert
  <1> QED
    BY <1>3, PartialChain

(* What verify() accepts meets the contract. *)
LEMMA ContractLemma ==
    ASSUME NEW cert \in Certs, TypeOK,
           VerifiesWith(cert, enforceSelfSignedRootCertificate, enforceCrlForWholeChain)
    PROVE  /\ enforceCrlForWholeChain => enforceSelfSignedRootCertificate /\ crls # {}
           /\ crls # {} => CoveredByCrl(cert)
           /\ \E n \in Height :
                /\ ContractChain(cert, n, intermediateCerts \union trustedCerts)
                /\ enforceCrlForWholeChain => \A i \in 0 .. n : CoveredByCrl(Path(cert)[i])
  <1> DEFINE self  == enforceSelfSignedRootCertificate
             whole == enforceCrlForWholeChain
  <1>1. self \in BOOLEAN /\ whole \in BOOLEAN
    BY DEF TypeOK
  <1>2. whole => self /\ crls # {}
    BY <1>1, VerifiesLemma
  <1>3. PICK end : Chain(cert, self, whole, end)
    BY <1>1, VerifiesLemma
  <1>4. crls # {} => CoveredByCrl(cert)
    <2> SUFFICES ASSUME crls # {} PROVE CoveredByCrl(cert)
      OBVIOUS
    <2>1. CrlCheck(cert, 0, end, crls, CheckTime)
      BY <1>3 DEF Chain
    <2>2. CoveredByCrl(Path(cert)[0])
      BY <2>1, CheckedIsCovered
    <2> QED
      BY <2>2, PathLemma
  <1>5. CASE ~self
    <2>1. PICK n \in Height :
             /\ Path(cert)[n] \in trustedCerts
             /\ \A i \in 1 .. n - 1 : Path(cert)[i] \in intermediateCerts
             /\ ChainValid(cert, n, CheckTime)
      BY <1>3, <1>5, PartialChain DEF Chain
    <2>2. ContractChain(cert, n, intermediateCerts \union trustedCerts)
      BY <1>5, <2>1 DEF ContractChain
    <2> QED
      BY <1>2, <1>4, <1>5, <2>2
  <1>6. CASE self
    <2>1. end \in ChainEnds(cert, trustedCerts, intermediateCerts, FALSE)
      BY <1>1, <1>3, <1>6 DEF Chain
    <2>2. /\ end \in Height /\ Path(cert)[end] \in trustedCerts
          /\ SelfSigned(Path(cert)[end])
          /\ \A i \in 1 .. end - 1 : Path(cert)[i] \in intermediateCerts \union trustedCerts
      BY <2>1, CompleteChain
    <2>3. ContractChain(cert, end, intermediateCerts \union trustedCerts)
      BY <1>3, <2>2 DEF ContractChain, Chain
    <2>4. whole => \A i \in 0 .. end : CoveredByCrl(Path(cert)[i])
      BY <1>3, CheckedIsCovered DEF Chain
    <2> QED
      BY <1>2, <1>4, <2>2, <2>3, <2>4
  <1> QED
    BY <1>1, <1>5, <1>6

(* A complete chain can be cut to a partial one, and a chain all of whose  *)
(* certificates were checked was checked at its lower end.                 *)
LEMMA RestrictLemma ==
    ASSUME NEW cert \in Certs, NEW self \in BOOLEAN, NEW whole \in BOOLEAN,
           VerifiesWith(cert, self, whole)
    PROVE  VerifiesWith(cert, FALSE, FALSE) /\ (whole => VerifiesWith(cert, TRUE, FALSE))
  <1>1. whole => self
    BY VerifiesLemma
  <1>2. PICK end : Chain(cert, self, whole, end)
    BY VerifiesLemma
  <1>3. CASE ~self
    <2>1. self = FALSE /\ whole = FALSE
      BY <1>1, <1>3
    <2> QED
      BY <2>1
  <1>4. CASE self
    <2> DEFINE anchors == Anchors(cert, trustedCerts, intermediateCerts)
               first   == Min(anchors)
    <2>1. end \in ChainEnds(cert, trustedCerts, intermediateCerts, FALSE)
      BY <1>2, <1>4 DEF Chain
    <2>2. anchors # {} /\ end \in Height /\ first <= end
      BY <2>1, CompleteChain
    <2>3. first \in anchors /\ first \in Height /\ Height \subseteq Nat
      BY <2>2, AnchorLemma, PathLemma DEF Height
    <2>4. first \in ChainEnds(cert, trustedCerts, intermediateCerts, TRUE)
      BY <2>2 DEF ChainEnds
    <2>5. first > 0 \/ SelfSigned(Path(cert)[0])
      BY <2>3, PathLemma DEF Anchors
    <2> HIDE DEF anchors, first
    <2>6. ChainValid(cert, first, CheckTime)
      BY <1>2, <2>2, <2>3, ShorterIsValid DEF Chain
    <2>7. crls # {} => CrlCheck(cert, 0, first, crls, CheckTime)
      BY <1>2, <2>3, <2>5 DEF Chain, CrlCheck
    <2>8. Chain(cert, FALSE, FALSE, first)
      BY <2>4, <2>6, <2>7 DEF Chain
    <2>9. Chain(cert, TRUE, FALSE, end)
      BY <1>2, <2>1 DEF Chain
    <2> QED
      BY <2>8, <2>9, VerifiesLemma
  <1> QED
    BY <1>3, <1>4
-----------------------------------------------------------------------------
(* A list that covers the certificate is among those OpenSSL chooses from, *)
(* and if none of them lists anything the latest one lets it pass.         *)
LEMMA CoveredIsChecked ==
    ASSUME TypeOK, NEW cert, NEW i, NEW end,
           i < end \/ SelfSigned(Path(cert)[i]),
           CoveredByCrl(Path(cert)[i]),
           \A r \in crls : Revoked[r] = {} /\ CrlSigner[r] = CrlIssuer[r]
                           /\ CrlValidAt(r, CheckTime)
    PROVE  CrlCheck(cert, i, end, crls, CheckTime)
  <1> DEFINE issuer  == Issuer[Path(cert)[i]]
             named   == {r \in crls : CrlIssuer[r] = issuer}
             current == {r \in named : CrlValidAt(r, CheckTime)}
  <1>1. current # {}
    BY DEF CoveredByCrl, CrlVerifies
  <1>2. current \in SUBSET Crls
    BY DEF TypeOK
  <1>3. PICK r \in current : \A s \in current : LastUpdate[s] <= LastUpdate[r]
    BY <1>1, <1>2, LatestCrl
  <1>4. r \in ChosenCrl(issuer, crls, CheckTime)
    BY <1>1, <1>3 DEF ChosenCrl
  <1>5. r \in crls
    BY <1>3
  <1> QED
    BY <1>4, <1>5 DEF CrlCheck

(* A chain of the contract makes verify() accept. *)
LEMMA ConverseLemma ==
    ASSUME TypeOK, NEW cert \in Certs, NEW n \in Height,
           enforceCrlForWholeChain => enforceSelfSignedRootCertificate /\ crls # {},
           \A r \in crls : /\ Revoked[r] = {} /\ CrlSigner[r] = CrlIssuer[r]
                           /\ CrlValidAt(r, CheckTime),
           n > 0 \/ SelfSigned(cert),
           ContractChain(cert, n, intermediateCerts \ trustedCerts),
           \A i \in 0 .. (IF enforceCrlForWholeChain THEN n ELSE 0) :
               crls # {} => CoveredByCrl(Path(cert)[i])
    PROVE  VerifiesWith(cert, enforceSelfSignedRootCertificate, enforceCrlForWholeChain)
  <1> DEFINE self    == enforceSelfSignedRootCertificate
             whole   == enforceCrlForWholeChain
             anchors == Anchors(cert, trustedCerts, intermediateCerts)
             first   == Min(anchors)
             roots   == Roots(cert, trustedCerts, first)
  <1>1. self \in BOOLEAN /\ whole \in BOOLEAN
    BY DEF TypeOK
  <1>2. Height \subseteq Nat /\ 0 \in Height /\ Path(cert)[0] = cert
    BY PathLemma DEF Height
  <1>3. n \in anchors
    BY DEF ContractChain, Anchors
  <1>4. /\ first \in anchors /\ first \in Height /\ first <= n
        /\ roots # {} => Min(roots) \in roots /\ \A k \in roots : Min(roots) <= k
    BY <1>3, AnchorLemma
  <1>5. /\ first > 0 \/ SelfSigned(cert)
        /\ Path(cert)[first] \in trustedCerts
    BY <1>4 DEF Anchors
  <1>6. first \in Nat /\ n \in Nat
    BY <1>2, <1>4
  <1>7. first = n \/ first = 0
    <2> HIDE DEF first
    <2> SUFFICES ASSUME first # n, first # 0 PROVE FALSE
      OBVIOUS
    <2>1. first \in 1 .. n - 1
      BY <1>4, <1>6
    <2> QED
      BY <1>5, <2>1 DEF ContractChain
  <1>8. self => SelfSigned(Path(cert)[first])
    <2> HIDE DEF first
    <2> QED
      BY <1>2, <1>5, <1>6, <1>7 DEF ContractChain
  <1>9. first \in ChainEnds(cert, trustedCerts, intermediateCerts, ~self)
    <2>1. CASE ~self
      BY <1>3, <2>1 DEF ChainEnds
    <2>2. CASE self
      <3>1. first \in roots
        <4>1. \A i \in first .. first : i = first
          BY <1>6
        <4> QED
          BY <1>4, <1>5, <1>6, <1>8, <2>2, <4>1 DEF Roots
      <3>2. Min(roots) \in Nat /\ Min(roots) >= first /\ Min(roots) <= first
        BY <1>2, <1>4, <3>1 DEF Roots
      <3>3. Min(roots) = first
        <4> HIDE DEF first, roots
        <4> QED
          BY <1>6, <3>2
      <3> QED
        BY <1>3, <2>2, <3>1, <3>3 DEF ChainEnds
    <2> QED
      BY <1>1, <2>1, <2>2
  <1> HIDE DEF first, anchors, roots
  <1>10. ChainValid(cert, first, CheckTime)
    BY <1>4, <1>6, ShorterIsValid DEF ContractChain
  <1>11. crls # {} => CrlCheck(cert, 0, first, crls, CheckTime)
    <2>1. crls # {} => CoveredByCrl(Path(cert)[0])
      BY <1>6
    <2>2. 0 < first \/ SelfSigned(Path(cert)[0])
      BY <1>2, <1>5, <1>6
    <2> QED
      BY <2>1, <2>2, CoveredIsChecked
  <1>12. whole => \A i \in 0 .. first : CrlCheck(cert, i, first, crls, CheckTime)
    <2> SUFFICES ASSUME whole, NEW i \in 0 .. first
                 PROVE  CrlCheck(cert, i, first, crls, CheckTime)
      OBVIOUS
    <2>1. i \in 0 .. n
      BY <1>4, <1>6
    <2>2. CoveredByCrl(Path(cert)[i])
      BY <2>1
    <2>3. i < first \/ SelfSigned(Path(cert)[i])
      BY <1>6, <1>8
    <2> QED
      BY <2>2, <2>3, CoveredIsChecked
  <1>13. Chain(cert, self, whole, first)
    BY <1>9, <1>10, <1>11, <1>12 DEF Chain
  <1> QED
    BY <1>1, <1>13, VerifiesLemma
-----------------------------------------------------------------------------
(* A verdict was given for the context as it is: every setter withdraws it *)
VerdictIsOfContext ==
    \/ verdict = NoVerdict
    \/ \E c \in Certs :
          verdict = [call |-> "verify", cert |-> c,
                     accepted |-> VerifiesWith(c, enforceSelfSignedRootCertificate,
                                               enforceCrlForWholeChain)]
    \/ \E c \in Certs :
          verdict = [call |-> "verify trust store", cert |-> c,
                     accepted |-> Verifies(c, trustedCerts, intermediateCerts,
                                           {}, FALSE, FALSE, NotSet)]
    \/ \E r \in Crls, c \in Certs :
          verdict = [call |-> "verify CRL", crl |-> r, cert |-> c,
                     accepted |-> CrlVerifies(r, c)]

(* The inductive invariant *)
IInv == TypeOK /\ VerdictIsOfContext

(* A new context has no verdict. *)
LEMMA InitInv == Init => IInv
  <1> SUFFICES ASSUME Init PROVE IInv
    OBVIOUS
  <1>1. verdict = NoVerdict /\ NoVerdict.call = "none"
    BY DEF Init, NoVerdict
  <1>2. TypeOK
    BY <1>1 DEF Init, TypeOK
  <1>3. VerdictIsOfContext
    BY <1>1 DEF VerdictIsOfContext
  <1> QED
    BY <1>2, <1>3 DEF IInv

(* Every call keeps the verdict true to the context. *)
LEMMA NextInv == IInv /\ [Next]_vars => IInv'
  <1> SUFFICES ASSUME IInv, [Next]_vars PROVE IInv'
    OBVIOUS
  <1> USE DEF IInv
  <1>0. NoVerdict.call = "none"
    BY DEF NoVerdict
  <1>1. ASSUME NEW c \in Certs, AddTrustedCertificates({c}) PROVE IInv'
    BY <1>0, <1>1 DEF AddTrustedCertificates, TypeOK, VerdictIsOfContext
  <1>2. ASSUME NEW c \in Certs, AddIntermediateCertificates({c}) PROVE IInv'
    BY <1>0, <1>2 DEF AddIntermediateCertificates, TypeOK, VerdictIsOfContext
  <1>3. ASSUME NEW r \in Crls, AddCertificateRevocationLists({r}) PROVE IInv'
    BY <1>0, <1>3 DEF AddCertificateRevocationLists, TypeOK, VerdictIsOfContext
  <1>4. ASSUME EnforceSelfSignedRootCertificate PROVE IInv'
    BY <1>0, <1>4 DEF EnforceSelfSignedRootCertificate, TypeOK, VerdictIsOfContext
  <1>5. ASSUME EnforceCrlsForAllCAs PROVE IInv'
    BY <1>0, <1>5 DEF EnforceCrlsForAllCAs, TypeOK, VerdictIsOfContext
  <1>6. ASSUME NEW t \in Times \union OutOfRange, SetVerificationCheckTime(t) PROVE IInv'
    BY <1>0, <1>6 DEF SetVerificationCheckTime, TypeOK, VerdictIsOfContext
  <1>7. ASSUME NEW c \in Certs, Verify(c) PROVE IInv'
    BY <1>7 DEF Verify, TypeOK, VerdictIsOfContext, VerifiesWith, context
  <1>8. ASSUME NEW c \in Certs, VerifyTrustStore(c) PROVE IInv'
    BY <1>8 DEF VerifyTrustStore, TypeOK, VerdictIsOfContext, context
  <1>9. ASSUME NEW r \in Crls, NEW c \in Certs, VerifyCrl(r, c) PROVE IInv'
    BY <1>9 DEF VerifyCrl, TypeOK, VerdictIsOfContext, context
  <1>10. CASE UNCHANGED vars
    BY <1>10 DEF vars, context, TypeOK, VerdictIsOfContext, VerifiesWith,
                 Verifies, CrlVerifies
  <1> QED
    BY <1>1, <1>2, <1>3, <1>4, <1>5, <1>6, <1>7, <1>8, <1>9, <1>10 DEF Next

(* The invariant holds throughout. *)
LEMMA Invariance == Spec => []IInv
BY InitInv, NextInv, PTL DEF Spec

(* A verdict on a certificate that was reached with the context is what    *)
(* verify() says of it.                                                    *)
LEMMA VerdictLemma ==
    ASSUME IInv
    PROVE  /\ verdict.call = "verify" =>
                 /\ verdict.cert \in Certs
                 /\ verdict.accepted <=> VerifiesWith(verdict.cert,
                       enforceSelfSignedRootCertificate, enforceCrlForWholeChain)
           /\ Accepted("verify trust store") =>
                 /\ verdict.cert \in Certs
                 /\ Verifies(verdict.cert, trustedCerts, intermediateCerts,
                             {}, FALSE, FALSE, NotSet)
  <1> DEFINE Says(c)    == VerifiesWith(c, enforceSelfSignedRootCertificate,
                                        enforceCrlForWholeChain)
             Store(c)   == Verifies(c, trustedCerts, intermediateCerts,
                                    {}, FALSE, FALSE, NotSet)
             IsSays(c)  == /\ verdict.call = "verify" /\ verdict.cert = c
                           /\ verdict.accepted <=> Says(c)
             IsStore(c) == /\ verdict.call = "verify trust store" /\ verdict.cert = c
                           /\ verdict.accepted <=> Store(c)
             Goal       == /\ verdict.call = "verify" =>
                                 /\ verdict.cert \in Certs
                                 /\ verdict.accepted <=> Says(verdict.cert)
                           /\ verdict.call = "verify trust store" /\ verdict.accepted =>
                                 verdict.cert \in Certs /\ Store(verdict.cert)
  <1>1. ASSUME NEW c \in Certs,
               verdict = [call |-> "verify", cert |-> c, accepted |-> Says(c)]
        PROVE  IsSays(c)
    <2> HIDE DEF Says
    <2> QED
      BY <1>1, Zenon
  <1>2. ASSUME NEW c \in Certs,
               verdict = [call |-> "verify trust store", cert |-> c, accepted |-> Store(c)]
        PROVE  IsStore(c)
    <2> HIDE DEF Store
    <2> QED
      BY <1>2, Zenon
  <1> HIDE DEF Says, Store
  <1>3. ASSUME NEW c \in Certs, IsSays(c) PROVE Goal
    <2>1. verdict.call # "verify trust store"
      BY <1>3
    <2> QED
      BY <1>3, <2>1, Zenon
  <1>4. ASSUME NEW c \in Certs, IsStore(c) PROVE Goal
    <2>1. verdict.call # "verify"
      BY <1>4
    <2> QED
      BY <1>4, <2>1, Zenon
  <1>5. ASSUME NEW r \in Crls, NEW c \in Certs,
               verdict = [call |-> "verify CRL", crl |-> r, cert |-> c,
                          accepted |-> CrlVerifies(r, c)]
        PROVE  Goal
    <2>1. verdict.call = "verify CRL"
      BY <1>5
    <2> QED
      BY <2>1
  <1>6. ASSUME verdict = NoVerdict PROVE Goal
    BY <1>6 DEF NoVerdict
  <1> HIDE DEF IsSays, IsStore, Goal
  <1>7. Goal
    <2>1. VerdictIsOfContext
      BY DEF IInv
    <2> QED
      BY <1>1, <1>2, <1>3, <1>4, <1>5, <1>6, <2>1, Zenon
         DEF VerdictIsOfContext, Says, Store
  <1> QED
    BY <1>7, Zenon DEF Goal, Accepted, Says, Store

(* For every hierarchy of certificates and all lists: what verify()        *)
(* accepts meets the contract of x509.h.                                   *)
THEOREM ContractMet == Spec => []AcceptedMeetsContract
  <1>1. IInv => AcceptedMeetsContract
    <2> SUFFICES ASSUME IInv PROVE AcceptedMeetsContract
      OBVIOUS
    <2>1. Accepted("verify trust store") =>
            \E n \in Height :
              /\ Path(verdict.cert)[n] \in trustedCerts
              /\ \A i \in 1 .. n - 1 : Path(verdict.cert)[i] \in intermediateCerts
              /\ ChainValid(verdict.cert, n, Now)
      BY VerdictLemma, TrustStoreLemma
    <2>2. Accepted("verify") =>
            /\ enforceCrlForWholeChain => enforceSelfSignedRootCertificate /\ crls # {}
            /\ crls # {} => CoveredByCrl(verdict.cert)
            /\ \E n \in Height :
                 /\ ContractChain(verdict.cert, n, intermediateCerts \union trustedCerts)
                 /\ enforceCrlForWholeChain =>
                       \A i \in 0 .. n : CoveredByCrl(Path(verdict.cert)[i])
      <3> SUFFICES ASSUME Accepted("verify")
                   PROVE  /\ verdict.cert \in Certs /\ TypeOK
                          /\ VerifiesWith(verdict.cert, enforceSelfSignedRootCertificate,
                                          enforceCrlForWholeChain)
        BY ContractLemma
      <3> QED
        BY VerdictLemma DEF Accepted, IInv
    <2> QED
      BY <2>1, <2>2 DEF AcceptedMeetsContract
  <1> QED
    BY <1>1, Invariance, PTL

(* For every hierarchy of certificates and all lists: what meets the       *)
(* contract, with lists that are current and empty, verify() accepts.      *)
THEOREM ContractSuffices == Spec => []ContractIsAccepted
  <1>1. IInv => ContractIsAccepted
    <2> SUFFICES ASSUME IInv, verdict.call = "verify", ~verdict.accepted,
                   enforceCrlForWholeChain => enforceSelfSignedRootCertificate /\ crls # {},
                   \A r \in crls : /\ Revoked[r] = {} /\ CrlSigner[r] = CrlIssuer[r]
                                   /\ CrlValidAt(r, CheckTime),
                   NEW n \in Height,
                   n > 0 \/ SelfSigned(verdict.cert),
                   ContractChain(verdict.cert, n, intermediateCerts \ trustedCerts),
                   \A i \in 0 .. (IF enforceCrlForWholeChain THEN n ELSE 0) :
                       crls # {} => CoveredByCrl(Path(verdict.cert)[i])
                 PROVE FALSE
      BY DEF ContractIsAccepted
    <2>1. /\ verdict.cert \in Certs /\ TypeOK
          /\ ~VerifiesWith(verdict.cert, enforceSelfSignedRootCertificate,
                           enforceCrlForWholeChain)
      BY VerdictLemma DEF IInv
    <2> QED
      BY <2>1, ConverseLemma
  <1> QED
    BY <1>1, Invariance, PTL

(* For every hierarchy of certificates: the context is well typed, and the *)
(* enforcing calls never turn a refusal into an acceptance.                *)
THEOREM ContextSound == Spec => []ContextIsSound
  <1>1. IInv => ContextIsSound
    <2> SUFFICES ASSUME IInv PROVE FlagsOnlyRestrict
      BY DEF ContextIsSound, IInv
    <2> SUFFICES ASSUME Accepted("verify")
                 PROVE  /\ VerifiesWith(verdict.cert, FALSE, FALSE)
                        /\ enforceCrlForWholeChain => VerifiesWith(verdict.cert, TRUE, FALSE)
      BY DEF FlagsOnlyRestrict, VerifiesWith
    <2>1. /\ verdict.cert \in Certs
          /\ VerifiesWith(verdict.cert, enforceSelfSignedRootCertificate,
                          enforceCrlForWholeChain)
      BY VerdictLemma DEF Accepted
    <2>2. enforceSelfSignedRootCertificate \in BOOLEAN /\ enforceCrlForWholeChain \in BOOLEAN
      BY DEF IInv, TypeOK
    <2> QED
      BY <2>1, <2>2, RestrictLemma
  <1> QED
    BY <1>1, Invariance, PTL
=============================================================================
