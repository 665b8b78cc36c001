-------------------------- MODULE SymmetricProofs --------------------------
(***************************************************************************)
(* Proofs about the symmetric ciphers, for chunks, associated data, reads, *)
(* tags, vectors and requests of every size: first the cipher object, then *)
(* the queue of blocks that holds its output, which implements a stream of *)
(* bytes, and last the builder.                                            *)
(***************************************************************************)
EXTENDS MCSymmetric, SequenceTheorems, WellFoundedInduction, TLAPS

(* A genuine tag of an authenticated decryptor is the peer's. *)
GenuineTagIsPeers ==
    (/\ cipher.mode = "GCM" /\ cipher.operation = "Decryption"
     /\ cipher.authTag.kind = "genuine") =>
        cipher.authTag.data = peer.plain /\ cipher.authTag.aad = peer.aad

(* _isUpdated is set as soon as data has gone in. *)
UpdatedIsMarked == ~cipher.isUpdated => cipher.evp.nIn = 0

(* The inductive invariant. *)
IInv ==
    /\ TypeOK
    /\ NoByteLostOrRepeated
    /\ FinishedOutputComplete
    /\ GenuineTagIsPeers
    /\ FinishedDecryptionIsAuthentic
    /\ RoundTrip
    /\ UpdatedIsMarked
-----------------------------------------------------------------------------
(* The lengths the padding rules produce. *)

(* The EVP context keeps back at most one block, and never more than it    *)
(* was given.                                                              *)
LEMMA HeldBackBound ==
    ASSUME NEW c \in CipherObject, NEW n \in Nat
    PROVE  HeldBack(c, n) \in Nat /\ HeldBack(c, n) <= n
BY DEF HeldBack, BlockSize, CipherObject

(* A longer input never takes back output: what the EVP context has put    *)
(* out grows with what went in.                                            *)
LEMMA OutputGrows ==
    ASSUME NEW c \in CipherObject, NEW n \in Nat, NEW m \in Nat
    PROVE  n - HeldBack(c, n) <= (n + m) - HeldBack(c, n + m)
BY DEF HeldBack, BlockSize, CipherObject

(* A ciphertext length is a natural number.                                *)
LEMMA CipherLengthType ==
    ASSUME NEW mode, NEW padding, NEW n \in Nat
    PROVE  CipherLength(mode, padding, n) \in Nat
BY DEF CipherLength, BlockSize

(* read(length) hands out no more than is buffered.                        *)
LEMMA ReadSizeType ==
    ASSUME NEW c \in CipherObject, NEW n \in Nat
    PROVE  ReadSize(c, n) \in Nat /\ ReadSize(c, n) <= c.buffered
BY DEF ReadSize, CipherObject

(* The padding a decryption finds is at most one block long.               *)
LEMMA PaddingType ==
    ASSUME TypeOK, NEW pad \in PaddingFound
    PROVE  pad \in 0 .. BlockSize
BY DEF TypeOK, PaddingFound, CipherLength, BlockSize
-----------------------------------------------------------------------------
(* A cipher fresh from its constructor satisfies the invariant.            *)
LEMMA InitInv == Init => IInv
<1> SUFFICES ASSUME Init PROVE IInv
  OBVIOUS
<1>1. PICK mode \in SymmetricCipherMode, op \in Operation,
           padding \in SymmetricCipherPadding, ivLen \in IVLengths,
           tagLength \in TagLengths, mismatch \in BOOLEAN :
             /\ cipher = NewCipher(mode, op, padding, ivLen, tagLength, mismatch)
             /\ IF op = "Encryption" THEN peer = NoPeer ELSE peer \in PeerMessages
  BY DEF Init
<1>2. getDefaultIVLength(mode) \in Nat
  BY DEF getDefaultIVLength
<1>3. ContextOf(mode, ivLen, mismatch) =
        [ivLen |-> getDefaultIVLength(mode), aad |-> 0, nIn |-> 0, nOut |-> 0,
         mismatch |-> mismatch, final |-> "open"]
  BY DEF ContextOf, EVP_CipherInit_ex, EVP_CTRL_GCM_SET_IVLEN
<1>4. cipher = [mode |-> mode, operation |-> op, padding |-> padding, ivLen |-> ivLen,
                requestedAuthTagLength |-> tagLength,
                authTag |-> [len |-> 0, kind |-> "other", data |-> 0, aad |-> 0],
                isFinished |-> FALSE, isUpdated |-> FALSE, buffered |-> 0,
                evp |-> [ivLen |-> getDefaultIVLength(mode), aad |-> 0, nIn |-> 0,
                         nOut |-> 0, mismatch |-> mismatch, final |-> "open"]]
  BY <1>1, <1>3 DEF NewCipher, NoTag, Tag
<1>5. cipher \in CipherObject
  <2>1. [len |-> 0, kind |-> "other", data |-> 0, aad |-> 0] \in
            [len : Nat, kind : TagKinds, data : Nat, aad : Nat]
    BY DEF TagKinds
  <2>2. [ivLen |-> getDefaultIVLength(mode), aad |-> 0, nIn |-> 0, nOut |-> 0,
         mismatch |-> mismatch, final |-> "open"] \in EVPContext
    BY <1>2 DEF EVPContext
  <2>3. ivLen \in Nat /\ tagLength \in Nat
    BY SizesAssumption
  <2> QED
    BY <2>1, <2>2, <2>3, <1>4 DEF CipherObject
<1>6. peer \in [plain : Nat, aad : Nat]
  <2>1. NoPeer \in [plain : Nat, aad : Nat]
    BY DEF NoPeer
  <2>2. \A p \in PeerMessages : p \in [plain : Nat, aad : Nat]
    BY SizesAssumption DEF PeerMessages
  <2>3. peer = NoPeer \/ peer \in PeerMessages
    BY <1>1
  <2> QED
    BY <2>1, <2>2, <2>3
<1>7. TypeOK
  BY <1>5, <1>6 DEF TypeOK, Init
<1>8. delivered = 0 /\ cipher.buffered = 0 /\ cipher.evp.nOut = 0 /\ cipher.evp.nIn = 0
  BY <1>4 DEF Init
<1>9. HeldBack(cipher, 0) = 0
  BY DEF HeldBack, BlockSize
<1>10. NoByteLostOrRepeated
  BY <1>8, <1>9 DEF NoByteLostOrRepeated
<1>11. ~cipher.isFinished /\ cipher.authTag.kind = "other"
  BY <1>4
<1> QED
  BY <1>7, <1>8, <1>10, <1>11 DEF IInv, FinishedOutputComplete, GenuineTagIsPeers,
     FinishedDecryptionIsAuthentic, RoundTrip, UpdatedIsMarked
-----------------------------------------------------------------------------
(* Steps that leave the parameters, the tag and the end of the stream      *)
(* alone preserve what is said of a finished cipher.                       *)

(* update() preserves the invariant.                                       *)
LEMMA UpdateInv ==
    ASSUME IInv, NEW n \in ChunkSizes, NEW genuine \in BOOLEAN, Update(n, genuine)
    PROVE  IInv'
<1>1. CASE n = 0
  <2>1. UNCHANGED vars
    BY <1>1 DEF Update, Updated, vars
  <2> QED
    BY <2>1 DEF vars, IInv, TypeOK, NoByteLostOrRepeated, FinishedOutputComplete,
       GenuineTagIsPeers, FinishedDecryptionIsAuthentic, RoundTrip, UpdatedIsMarked,
       FedPeerCiphertext
<1>2. CASE n # 0
  <2> DEFINE in == cipher.evp.nIn + n
             out == in - HeldBack(cipher, in)
  <2>1. n \in Nat /\ cipher \in CipherObject /\ ~cipher.isFinished
    BY SizesAssumption DEF IInv, TypeOK, Update, UpdateOk
  <2>2. cipher.evp \in EVPContext /\ cipher.evp.nIn \in Nat /\ cipher.evp.nOut \in Nat
        /\ cipher.buffered \in Nat /\ delivered \in Nat
    BY <2>1 DEF CipherObject, EVPContext, IInv, TypeOK
  <2>3. /\ cipher.evp.nOut = cipher.evp.nIn - HeldBack(cipher, cipher.evp.nIn)
        /\ delivered + cipher.buffered = cipher.evp.nOut
    BY <2>1 DEF IInv, NoByteLostOrRepeated
  <2>4. in \in Nat /\ HeldBack(cipher, in) \in Nat /\ HeldBack(cipher, in) <= in
    BY <2>1, <2>2, HeldBackBound
  <2>5. cipher.evp.nOut <= out
    BY <2>1, <2>2, <2>3, OutputGrows
  <2>6. /\ cipher' = [cipher EXCEPT !.evp = EVP_CipherUpdate(cipher, n, genuine),
                          !.buffered = @ + (out - cipher.evp.nOut), !.isUpdated = TRUE]
        /\ UNCHANGED <<peer, delivered, aadGiven, tagReplaced>>
    BY <1>2, <2>1, <2>2 DEF Update, Updated, EVP_CipherUpdate, CipherObject, EVPContext
  <2>7. /\ EVP_CipherUpdate(cipher, n, genuine) \in EVPContext
        /\ EVP_CipherUpdate(cipher, n, genuine).nIn = in
        /\ EVP_CipherUpdate(cipher, n, genuine).nOut = out
    <3>1. (cipher.evp.mismatch \/ ~genuine) \in BOOLEAN
      OBVIOUS
    <3>2. out \in Nat
      BY <2>4
    <3> QED
      BY <2>2, <2>4, <3>1, <3>2 DEF EVP_CipherUpdate, EVPContext
  <2>8. /\ cipher' \in CipherObject /\ ~cipher'.isFinished /\ cipher'.isUpdated
        /\ cipher'.buffered = cipher.buffered + (out - cipher.evp.nOut)
        /\ cipher'.evp.nIn = in /\ cipher'.evp.nOut = out
        /\ cipher'.mode = cipher.mode /\ cipher'.operation = cipher.operation
        /\ cipher'.padding = cipher.padding /\ cipher'.authTag = cipher.authTag
    <3>1. out \in Nat /\ cipher.buffered + (out - cipher.evp.nOut) \in Nat
      BY <2>2, <2>4, <2>5
    <3> HIDE DEF in, out
    <3>2. cipher' \in CipherObject
      BY <2>1, <2>6, <2>7, <3>1 DEF CipherObject
    <3>3. /\ cipher'.evp = EVP_CipherUpdate(cipher, n, genuine)
          /\ cipher'.buffered = cipher.buffered + (out - cipher.evp.nOut)
          /\ cipher'.isUpdated /\ cipher'.isFinished = cipher.isFinished
          /\ cipher'.mode = cipher.mode /\ cipher'.operation = cipher.operation
          /\ cipher'.padding = cipher.padding /\ cipher'.authTag = cipher.authTag
      BY <2>1, <2>6 DEF CipherObject
    <3> QED
      BY <2>1, <2>7, <3>2, <3>3
  <2>9. HeldBack(cipher', in) = HeldBack(cipher, in)
    BY <2>8 DEF HeldBack
  <2>10. NoByteLostOrRepeated'
    BY <2>2, <2>3, <2>4, <2>6, <2>8, <2>9 DEF NoByteLostOrRepeated
  <2>11. TypeOK' /\ GenuineTagIsPeers'
    BY <2>6, <2>8 DEF IInv, TypeOK, GenuineTagIsPeers
  <2> QED
    BY <2>8, <2>10, <2>11 DEF IInv, FinishedOutputComplete,
       FinishedDecryptionIsAuthentic, RoundTrip, UpdatedIsMarked
<1> QED
  BY <1>1, <1>2

(* addAssociatedData() preserves the invariant.                            *)
LEMMA AddAssociatedDataInv ==
    ASSUME IInv, NEW n \in AadSizes, NEW genuine \in BOOLEAN, AddAssociatedData(n, genuine)
    PROVE  IInv'
<1>1. n \in Nat /\ cipher \in CipherObject /\ ~cipher.isFinished
  BY SizesAssumption DEF IInv, TypeOK, AddAssociatedData, AddAssociatedDataOk
<1>2. ToInt(n) \in Nat
  BY <1>1, IntMaxAssumption DEF ToInt
<1>3. /\ cipher' = [cipher EXCEPT !.evp = EVP_CipherUpdateAAD(cipher, n, genuine)]
      /\ aadGiven' = aadGiven + n
      /\ UNCHANGED <<peer, delivered, tagReplaced>>
  BY DEF AddAssociatedData, AssociatedDataAdded
<1>4. /\ EVP_CipherUpdateAAD(cipher, n, genuine) \in EVPContext
      /\ EVP_CipherUpdateAAD(cipher, n, genuine).nIn = cipher.evp.nIn
      /\ EVP_CipherUpdateAAD(cipher, n, genuine).nOut = cipher.evp.nOut
  <2>1. (cipher.evp.mismatch \/ ~genuine) \in BOOLEAN
    OBVIOUS
  <2>2. cipher.evp \in EVPContext /\ cipher.evp.aad + ToInt(n) \in Nat
    BY <1>1, <1>2 DEF CipherObject, EVPContext
  <2>3. EVP_CipherUpdateAAD(cipher, n, genuine) \in EVPContext
    BY <2>1, <2>2 DEF EVP_CipherUpdateAAD, EVPContext
  <2> QED
    BY <2>2, <2>3 DEF EVP_CipherUpdateAAD, EVPContext
<1>5. /\ cipher' \in CipherObject /\ ~cipher'.isFinished
      /\ cipher'.isUpdated = cipher.isUpdated /\ cipher'.buffered = cipher.buffered
      /\ cipher'.evp.nIn = cipher.evp.nIn /\ cipher'.evp.nOut = cipher.evp.nOut
      /\ cipher'.mode = cipher.mode /\ cipher'.operation = cipher.operation
      /\ cipher'.padding = cipher.padding /\ cipher'.authTag = cipher.authTag
  BY <1>1, <1>3, <1>4 DEF CipherObject
<1>6. HeldBack(cipher', cipher'.evp.nIn) = HeldBack(cipher, cipher.evp.nIn)
  BY <1>5 DEF HeldBack
<1>7. NoByteLostOrRepeated'
  BY <1>1, <1>3, <1>5, <1>6 DEF IInv, NoByteLostOrRepeated
<1>8. TypeOK' /\ GenuineTagIsPeers' /\ UpdatedIsMarked'
  BY <1>1, <1>3, <1>5 DEF IInv, TypeOK, GenuineTagIsPeers, UpdatedIsMarked
<1> QED
  BY <1>5, <1>7, <1>8 DEF IInv, FinishedOutputComplete,
     FinishedDecryptionIsAuthentic, RoundTrip

(* read() and readAll() preserve the invariant: bytes move from the buffer *)
(* to the caller.                                                          *)
LEMMA ReadInv ==
    ASSUME IInv, NEW n \in Nat, Read(n)
    PROVE  IInv'
<1> DEFINE size == ReadSize(cipher, n)
<1>1. /\ cipher \in CipherObject /\ cipher.buffered \in Nat /\ delivered \in Nat
      /\ size \in Nat /\ size <= cipher.buffered
  BY ReadSizeType DEF IInv, TypeOK, CipherObject
<1>2. /\ cipher' = [cipher EXCEPT !.buffered = @ - size]
      /\ delivered' = delivered + size
      /\ UNCHANGED <<peer, aadGiven, tagReplaced>>
  BY DEF Read, ReadFrom
<1> HIDE DEF size
<1>3. cipher.buffered - size \in Nat
  BY <1>1
<1>4. /\ cipher' \in CipherObject /\ cipher'.buffered = cipher.buffered - size
      /\ cipher'.isFinished = cipher.isFinished /\ cipher'.isUpdated = cipher.isUpdated
      /\ cipher'.evp = cipher.evp /\ cipher'.mode = cipher.mode
      /\ cipher'.operation = cipher.operation /\ cipher'.padding = cipher.padding
      /\ cipher'.authTag = cipher.authTag
  BY <1>1, <1>2, <1>3 DEF CipherObject
<1>5. cipher.isFinished => cipher'.buffered = 0 /\ delivered' = delivered
  BY <1>1, <1>2, <1>4 DEF IInv, FinishedOutputComplete
<1>6. NoByteLostOrRepeated'
  <2>1. delivered' + cipher'.buffered = delivered + cipher.buffered
    BY <1>1, <1>2, <1>4
  <2>2. HeldBack(cipher', cipher.evp.nIn) = HeldBack(cipher, cipher.evp.nIn)
    BY <1>4 DEF HeldBack
  <2> QED
    BY <1>4, <2>1, <2>2 DEF IInv, NoByteLostOrRepeated
<1>7. TypeOK' /\ GenuineTagIsPeers' /\ UpdatedIsMarked'
  BY <1>1, <1>2, <1>4 DEF IInv, TypeOK, GenuineTagIsPeers, UpdatedIsMarked
<1>8. FinishedOutputComplete'
  BY <1>4, <1>5 DEF IInv, FinishedOutputComplete
<1>9. FinishedDecryptionIsAuthentic'
  BY <1>2, <1>4 DEF IInv, FinishedDecryptionIsAuthentic
<1>10. RoundTrip'
  BY <1>2, <1>4, <1>5 DEF IInv, RoundTrip, FedPeerCiphertext
<1> QED
  BY <1>6, <1>7, <1>8, <1>9, <1>10 DEF IInv

(* The tags a caller supplies are the peer's or match nothing. *)
LEMMA SuppliedTagType ==
    ASSUME TypeOK, NEW tag \in SuppliedTags
    PROVE  /\ tag \in [len : Nat, kind : TagKinds, data : Nat, aad : Nat]
           /\ (cipher.mode = "GCM" /\ tag.kind = "genuine") =>
                  tag.data = peer.plain /\ tag.aad = peer.aad
<1>1. peer.plain \in Nat /\ peer.aad \in Nat
  BY DEF TypeOK
<1> DEFINE length == CipherLength(cipher.mode, cipher.padding, peer.plain)
<1>2. length \in Nat
  BY <1>1, CipherLengthType
<1>3. cipher.mode = "GCM" => length = peer.plain
  BY DEF CipherLength
<1> HIDE DEF length
<1>4. CASE \E len \in TagLengths : tag = Tag(len, "genuine", length, peer.aad)
  BY <1>1, <1>2, <1>3, <1>4, SizesAssumption DEF Tag, TagKinds
<1>5. CASE \E len \in TagLengths : tag = Tag(len, "other", 0, 0)
  BY <1>5, SizesAssumption DEF Tag, TagKinds
<1> QED
  BY <1>4, <1>5 DEF SuppliedTags, length

(* setAuthTag() preserves the invariant, at any time.                      *)
LEMMA SetAuthTagInv ==
    ASSUME IInv, NEW tag \in SuppliedTags, SetAuthTag(tag)
    PROVE  IInv'
<1>1. /\ cipher \in CipherObject
      /\ tag \in [len : Nat, kind : TagKinds, data : Nat, aad : Nat]
      /\ (cipher.mode = "GCM" /\ tag.kind = "genuine") =>
             tag.data = peer.plain /\ tag.aad = peer.aad
  BY SuppliedTagType DEF IInv, TypeOK
<1>2. /\ cipher' = [cipher EXCEPT !.authTag = tag]
      /\ tagReplaced' = TRUE /\ UNCHANGED <<peer, delivered, aadGiven>>
  BY DEF SetAuthTag, AuthTagSet
<1>3. /\ cipher' \in CipherObject /\ cipher'.buffered = cipher.buffered
      /\ cipher'.isFinished = cipher.isFinished /\ cipher'.isUpdated = cipher.isUpdated
      /\ cipher'.evp = cipher.evp /\ cipher'.mode = cipher.mode
      /\ cipher'.operation = cipher.operation /\ cipher'.padding = cipher.padding
      /\ cipher'.authTag = tag
  BY <1>1, <1>2 DEF CipherObject
<1>4. NoByteLostOrRepeated'
  <2>1. HeldBack(cipher', cipher.evp.nIn) = HeldBack(cipher, cipher.evp.nIn)
    BY <1>3 DEF HeldBack
  <2> QED
    BY <1>2, <1>3, <2>1 DEF IInv, NoByteLostOrRepeated
<1>5. TypeOK' /\ GenuineTagIsPeers' /\ UpdatedIsMarked'
  BY <1>1, <1>2, <1>3 DEF IInv, TypeOK, GenuineTagIsPeers, UpdatedIsMarked
<1>6. FinishedOutputComplete'
  BY <1>2, <1>3 DEF IInv, FinishedOutputComplete
<1>7. FinishedDecryptionIsAuthentic'
  BY <1>2, <1>3 DEF IInv, FinishedDecryptionIsAuthentic
<1>8. RoundTrip'
  BY <1>2, <1>3 DEF IInv, RoundTrip, FedPeerCiphertext
<1> QED
  BY <1>4, <1>5, <1>6, <1>7, <1>8 DEF IInv
-----------------------------------------------------------------------------
(* The whole output of a cipher whose final call succeeds, by mode. *)
Total(c, pad) == (c.evp.nIn - HeldBack(c, c.evp.nIn)) + FinalOutput(c, pad)

(* A successful final call completes the output to the prescribed length.  *)
LEMMA TotalOutput ==
    ASSUME NEW c \in CipherObject, NEW pad \in 0 .. BlockSize, EVP_CipherFinalOk(c, pad)
    PROVE  /\ FinalOutput(c, pad) \in Nat
           /\ c.operation = "Encryption" =>
                Total(c, pad) = CipherLength(c.mode, c.padding, c.evp.nIn)
           /\ c.operation = "Decryption" =>
                IF c.mode = "CBC" /\ c.padding = "PKCS"
                THEN pad \in 1 .. BlockSize /\ Total(c, pad) = c.evp.nIn - pad
                ELSE Total(c, pad) = c.evp.nIn
           /\ (c.mode = "CBC" /\ c.padding = "NO") => c.evp.nIn % BlockSize = 0
<1>1. /\ c.mode \in {"GCM", "CBC", "CTR"} /\ c.operation \in {"Encryption", "Decryption"}
      /\ c.padding \in {"PKCS", "NO"} /\ c.evp.nIn \in Nat
  BY DEF CipherObject, EVPContext, SymmetricCipherMode, Operation, SymmetricCipherPadding
<1>2. CASE c.mode # "CBC"
  BY <1>1, <1>2 DEF Total, HeldBack, FinalOutput, CipherLength
<1>3. CASE c.mode = "CBC" /\ c.padding = "NO"
  BY <1>1, <1>3 DEF Total, HeldBack, FinalOutput, CipherLength, EVP_CipherFinalOk,
     BlockSize
<1>4. CASE c.mode = "CBC" /\ c.padding = "PKCS" /\ c.operation = "Encryption"
  BY <1>1, <1>4 DEF Total, HeldBack, FinalOutput, CipherLength, BlockSize
<1>5. CASE c.mode = "CBC" /\ c.padding = "PKCS" /\ c.operation = "Decryption"
  BY <1>1, <1>5 DEF Total, HeldBack, FinalOutput, EVP_CipherFinalOk, BlockSize
<1> QED
  BY <1>1, <1>2, <1>3, <1>4, <1>5

(* A finish() that returns preserves the invariant.                        *)
LEMMA FinishInv ==
    ASSUME IInv, NEW pad \in PaddingFound, Finish(pad)
    PROVE  IInv'
<1> DEFINE last == FinalOutput(cipher, pad)
           tag == IF ComputesTag(cipher)
                  THEN Tag(cipher.requestedAuthTagLength, "genuine", cipher.evp.nIn,
                           cipher.evp.aad)
                  ELSE cipher.authTag
<1>1. /\ cipher \in CipherObject /\ ~cipher.isFinished
      /\ EVP_CipherFinalOk(cipher, pad) /\ pad \in 0 .. BlockSize
  BY PaddingType DEF IInv, TypeOK, Finish, FinishOk, FinishReachesFinal, FinalSucceeds
<1>2. /\ cipher.evp \in EVPContext /\ cipher.evp.nIn \in Nat /\ cipher.evp.nOut \in Nat
      /\ cipher.buffered \in Nat /\ delivered \in Nat /\ last \in Nat
  BY <1>1, TotalOutput DEF CipherObject, EVPContext, IInv, TypeOK
<1>3. /\ cipher' = [cipher EXCEPT !.evp.final = "done", !.evp.nOut = @ + last,
                        !.authTag = tag, !.buffered = 0, !.isFinished = TRUE]
      /\ delivered' = delivered + (cipher.buffered + last)
      /\ UNCHANGED <<peer, aadGiven, tagReplaced>>
  BY DEF Finish, Finished, FinishReturns
<1>4. /\ tag \in [len : Nat, kind : TagKinds, data : Nat, aad : Nat]
      /\ cipher.operation = "Decryption" => tag = cipher.authTag
  <2>1. cipher.authTag \in [len : Nat, kind : TagKinds, data : Nat, aad : Nat]
    BY <1>1 DEF CipherObject
  <2>2. cipher.operation = "Decryption" => ~ComputesTag(cipher)
    BY DEF ComputesTag
  <2>3. /\ cipher.requestedAuthTagLength \in Nat /\ cipher.evp.nIn \in Nat
        /\ cipher.evp.aad \in Nat
    BY <1>1 DEF CipherObject, EVPContext
  <2>4. Tag(cipher.requestedAuthTagLength, "genuine", cipher.evp.nIn, cipher.evp.aad)
            \in [len : Nat, kind : TagKinds, data : Nat, aad : Nat]
    BY <2>3 DEF Tag, TagKinds
  <2> QED
    BY <2>1, <2>2, <2>4
<1> HIDE DEF last, tag
<1>5. /\ cipher' \in CipherObject /\ cipher'.buffered = 0 /\ cipher'.isFinished
      /\ cipher'.isUpdated = cipher.isUpdated /\ cipher'.evp.nIn = cipher.evp.nIn
      /\ cipher'.evp.aad = cipher.evp.aad /\ cipher'.evp.mismatch = cipher.evp.mismatch
      /\ cipher'.evp.nOut = cipher.evp.nOut + last
      /\ cipher'.mode = cipher.mode /\ cipher'.operation = cipher.operation
      /\ cipher'.padding = cipher.padding /\ cipher'.authTag = tag
  <2>1. cipher.evp.nOut + last \in Nat
    BY <1>2
  <2>2. [cipher.evp EXCEPT !.final = "done", !.nOut = @ + last] \in EVPContext
    BY <1>2, <2>1 DEF EVPContext
  <2>3. cipher' = [cipher EXCEPT !.evp = [cipher.evp EXCEPT !.final = "done",
                                                            !.nOut = @ + last],
                        !.authTag = tag, !.buffered = 0, !.isFinished = TRUE]
    BY <1>1, <1>2, <1>3 DEF CipherObject, EVPContext
  <2>4. cipher' \in CipherObject
    BY <1>1, <1>4, <2>2, <2>3 DEF CipherObject
  <2> QED
    BY <1>1, <1>2, <2>3, <2>4 DEF CipherObject, EVPContext
<1>6. delivered' = Total(cipher, pad) /\ delivered' = cipher'.evp.nOut
  <2>1. /\ cipher.evp.nOut = cipher.evp.nIn - HeldBack(cipher, cipher.evp.nIn)
        /\ delivered + cipher.buffered = cipher.evp.nOut
    BY <1>1 DEF IInv, NoByteLostOrRepeated
  <2>2. delivered' = cipher.evp.nOut + last
    BY <1>2, <1>3, <2>1
  <2> QED
    BY <2>1, <2>2, <1>5 DEF Total, last
<1>7. delivered' \in Nat
  BY <1>2, <1>3
<1>8. NoByteLostOrRepeated'
  BY <1>5, <1>6, <1>7 DEF NoByteLostOrRepeated
<1>9. TypeOK' /\ GenuineTagIsPeers' /\ UpdatedIsMarked'
  BY <1>3, <1>4, <1>5, <1>7 DEF IInv, TypeOK, GenuineTagIsPeers, UpdatedIsMarked
<1>10. FinishedOutputComplete'
  <2>1. /\ cipher.operation = "Encryption" =>
              delivered' = CipherLength(cipher.mode, cipher.padding, cipher.evp.nIn)
        /\ cipher.operation = "Decryption" =>
              IF cipher.mode = "CBC" /\ cipher.padding = "PKCS"
              THEN pad \in 1 .. BlockSize /\ delivered' = cipher.evp.nIn - pad
              ELSE delivered' = cipher.evp.nIn
        /\ (cipher.mode = "CBC" /\ cipher.padding = "NO") =>
              cipher.evp.nIn % BlockSize = 0
    BY <1>1, <1>6, TotalOutput
  <2>2. (pad \in 1 .. BlockSize /\ delivered' = cipher.evp.nIn - pad) =>
            delivered' \in (cipher.evp.nIn - BlockSize) .. (cipher.evp.nIn - 1)
    BY <1>2 DEF BlockSize
  <2> QED
    BY <2>1, <2>2, <1>5 DEF FinishedOutputComplete
<1>11. FinishedDecryptionIsAuthentic'
  <2>1. SUFFICES ASSUME cipher.mode = "GCM", cipher.operation = "Decryption"
                 PROVE  /\ ~cipher.evp.mismatch /\ cipher.evp.nIn = peer.plain
                        /\ cipher.evp.aad = peer.aad
    BY <1>3, <1>5 DEF FinishedDecryptionIsAuthentic
  <2>2. TagMatches(cipher)
    BY <1>1, <2>1 DEF EVP_CipherFinalOk
  <2> QED
    BY <2>1, <2>2 DEF TagMatches, IInv, GenuineTagIsPeers
<1>12. RoundTrip'
  <2>1. SUFFICES ASSUME cipher.operation = "Decryption", FedPeerCiphertext
                 PROVE  delivered' = peer.plain
    BY <1>3, <1>5 DEF RoundTrip, FedPeerCiphertext
  <2>2. /\ pad = CipherLength(cipher.mode, cipher.padding, peer.plain) - peer.plain
        /\ cipher.evp.nIn = CipherLength(cipher.mode, cipher.padding, peer.plain)
    BY <2>1 DEF PaddingFound, FedPeerCiphertext
  <2>3. peer.plain \in Nat /\ CipherLength(cipher.mode, cipher.padding, peer.plain) \in Nat
    BY CipherLengthType DEF IInv, TypeOK
  <2>4. CASE cipher.mode = "CBC" /\ cipher.padding = "PKCS"
    <3>1. delivered' = cipher.evp.nIn - pad
      BY <1>1, <1>6, <2>1, <2>4, TotalOutput
    <3> QED
      BY <2>2, <2>3, <3>1
  <2>5. CASE ~(cipher.mode = "CBC" /\ cipher.padding = "PKCS")
    <3>1. delivered' = cipher.evp.nIn
      BY <1>1, <1>6, <2>1, <2>5, TotalOutput
    <3> QED
      BY <2>2, <2>5, <3>1 DEF CipherLength
  <2> QED
    BY <2>4, <2>5
<1> QED
  BY <1>8, <1>9, <1>10, <1>11, <1>12 DEF IInv

(* Closing the EVP context without finishing, as a finish() that throws    *)
(* does, leaves the byte counts alone.                                     *)
LEMMA FailedFinishInv ==
    ASSUME IInv, ~cipher.isFinished, cipher' \in CipherObject, ~cipher'.isFinished,
           cipher'.isUpdated = cipher.isUpdated, cipher'.buffered = cipher.buffered,
           cipher'.evp.nIn = cipher.evp.nIn, cipher'.evp.nOut = cipher.evp.nOut,
           cipher'.mode = cipher.mode, cipher'.operation = cipher.operation,
           cipher'.padding = cipher.padding,
           cipher.operation = "Decryption" => cipher'.authTag = cipher.authTag,
           UNCHANGED <<peer, delivered, aadGiven, tagReplaced>>
    PROVE  IInv'
<1>1. HeldBack(cipher', cipher'.evp.nIn) = HeldBack(cipher, cipher.evp.nIn)
  BY DEF HeldBack
<1>2. NoByteLostOrRepeated'
  BY <1>1 DEF IInv, NoByteLostOrRepeated
<1>3. TypeOK' /\ GenuineTagIsPeers' /\ UpdatedIsMarked'
  BY DEF IInv, TypeOK, GenuineTagIsPeers, UpdatedIsMarked
<1> QED
  BY <1>2, <1>3 DEF IInv, FinishedOutputComplete, FinishedDecryptionIsAuthentic, RoundTrip

(* A finish() that throws from EVP_CipherFinal_ex preserves the invariant. *)
LEMMA FinishThrowsInv ==
    ASSUME IInv, NEW pad, FinishThrows(pad)
    PROVE  IInv'
<1>1. /\ cipher \in CipherObject /\ ~cipher.isFinished /\ cipher.evp \in EVPContext
  BY DEF IInv, TypeOK, FinishThrows, FinishReachesFinal, CipherObject
<1>2. PICK f \in {"open", "failed", "done"} :
        cipher' = [cipher EXCEPT !.evp = [cipher.evp EXCEPT !.final = f]]
  <2>1. cipher.evp.final \in {"open", "failed", "done"}
    BY <1>1 DEF EVPContext
  <2>2. CASE cipher.mode = "GCM" /\ EVP_Ready(cipher)
    <3>1. cipher' = [cipher EXCEPT !.evp = [cipher.evp EXCEPT !.final = "failed"]]
      BY <1>1, <2>2 DEF FinishThrows, FinishFailed, CipherObject, EVPContext
    <3> QED
      BY <3>1
  <2>3. CASE ~(cipher.mode = "GCM" /\ EVP_Ready(cipher))
    <3>1. cipher' = [cipher EXCEPT !.evp = [cipher.evp EXCEPT !.final = cipher.evp.final]]
      BY <1>1, <2>3 DEF FinishThrows, FinishFailed, CipherObject, EVPContext
    <3> QED
      BY <2>1, <3>1
  <2> QED
    BY <2>2, <2>3
<1>3. [cipher.evp EXCEPT !.final = f] \in EVPContext
  BY <1>1 DEF EVPContext
<1>4. cipher' \in CipherObject
  BY <1>1, <1>2, <1>3 DEF CipherObject
<1>5. /\ cipher'.isFinished = cipher.isFinished
      /\ cipher'.isUpdated = cipher.isUpdated /\ cipher'.buffered = cipher.buffered
      /\ cipher'.evp.nIn = cipher.evp.nIn /\ cipher'.evp.nOut = cipher.evp.nOut
      /\ cipher'.mode = cipher.mode /\ cipher'.operation = cipher.operation
      /\ cipher'.padding = cipher.padding /\ cipher'.authTag = cipher.authTag
  BY <1>1, <1>2 DEF CipherObject, EVPContext
<1>6. UNCHANGED <<peer, delivered, aadGiven, tagReplaced>>
  BY DEF FinishThrows
<1> QED
  BY <1>1, <1>4, <1>5, <1>6, FailedFinishInv

(* A finish() that throws on getting the tag preserves the invariant.      *)
LEMMA FinishThrowsWithoutTagInv ==
    ASSUME IInv, FinishThrowsWithoutTag
    PROVE  IInv'
<1>1. /\ cipher \in CipherObject /\ ~cipher.isFinished /\ cipher.evp \in EVPContext
  BY DEF IInv, TypeOK, FinishThrowsWithoutTag, FinishReachesFinal, CipherObject
<1>2. cipher.operation = "Encryption"
  BY DEF FinishThrowsWithoutTag, TagAvailable, ComputesTag
<1>3. TagResized(cipher) \in [len : Nat, kind : TagKinds, data : Nat, aad : Nat]
  BY <1>1 DEF TagResized, Tag, TagKinds, CipherObject
<1>4. [cipher.evp EXCEPT !.final = "done"] \in EVPContext
  BY <1>1 DEF EVPContext
<1>5. cipher' = [cipher EXCEPT !.evp = [cipher.evp EXCEPT !.final = "done"],
                              !.authTag = TagResized(cipher)]
  BY <1>1 DEF FinishThrowsWithoutTag, FinishWithoutTag, CipherObject
<1>6. cipher' \in CipherObject
  BY <1>1, <1>3, <1>4, <1>5 DEF CipherObject
<1>7. /\ cipher'.isFinished = cipher.isFinished
      /\ cipher'.isUpdated = cipher.isUpdated /\ cipher'.buffered = cipher.buffered
      /\ cipher'.evp.nIn = cipher.evp.nIn /\ cipher'.evp.nOut = cipher.evp.nOut
      /\ cipher'.mode = cipher.mode /\ cipher'.operation = cipher.operation
      /\ cipher'.padding = cipher.padding
  BY <1>1, <1>5 DEF CipherObject, EVPContext
<1>8. UNCHANGED <<peer, delivered, aadGiven, tagReplaced>>
  BY DEF FinishThrowsWithoutTag
<1> QED
  BY <1>1, <1>2, <1>6, <1>7, <1>8, FailedFinishInv

(* addAssociatedData() on a vector without storage preserves the invariant *)
LEMMA AddNullAssociatedDataInv ==
    ASSUME IInv, AddNullAssociatedData
    PROVE  IInv'
<1>1. /\ cipher \in CipherObject /\ ~cipher.isFinished /\ cipher.evp \in EVPContext
  BY DEF IInv, TypeOK, AddNullAssociatedData, AddNullOk, AddAssociatedDataOk, CipherObject
<1>2. [cipher.evp EXCEPT !.final = "done"] \in EVPContext
  BY <1>1 DEF EVPContext
<1>3. cipher' = [cipher EXCEPT !.evp = [cipher.evp EXCEPT !.final = "done"]]
  BY <1>1 DEF AddNullAssociatedData, NullAdded, CipherObject
<1>4. cipher' \in CipherObject
  BY <1>1, <1>2, <1>3 DEF CipherObject
<1>5. /\ cipher'.isFinished = cipher.isFinished
      /\ cipher'.isUpdated = cipher.isUpdated /\ cipher'.buffered = cipher.buffered
      /\ cipher'.evp.nIn = cipher.evp.nIn /\ cipher'.evp.nOut = cipher.evp.nOut
      /\ cipher'.mode = cipher.mode /\ cipher'.operation = cipher.operation
      /\ cipher'.padding = cipher.padding /\ cipher'.authTag = cipher.authTag
  BY <1>1, <1>3 DEF CipherObject, EVPContext
<1>6. UNCHANGED <<peer, delivered, aadGiven, tagReplaced>>
  BY DEF AddNullAssociatedData
<1> QED
  BY <1>1, <1>4, <1>5, <1>6, FailedFinishInv

(* Every step preserves the invariant.                                     *)
LEMMA NextInv == IInv /\ [Next]_vars => IInv'
<1> SUFFICES ASSUME IInv, [Next]_vars PROVE IInv'
  OBVIOUS
<1>1. ASSUME NEW genuine \in GenuineChoices, NEW n \in ChunkSizes, Update(n, genuine)
      PROVE  IInv'
  BY <1>1, UpdateInv DEF GenuineChoices
<1>2. ASSUME NEW genuine \in GenuineChoices, NEW n \in AadSizes,
             AddAssociatedData(n, genuine)
      PROVE  IInv'
  BY <1>2, AddAssociatedDataInv DEF GenuineChoices
<1>3. ASSUME NEW n \in ReadSizes, Read(n) PROVE IInv'
  BY <1>3, ReadInv, SizesAssumption
<1>4. CASE ReadAll
  <2>1. cipher.buffered \in Nat
    BY DEF IInv, TypeOK, CipherObject
  <2> QED
    BY <1>4, <2>1, ReadInv DEF ReadAll
<1>5. ASSUME NEW tag \in SuppliedTags, SetAuthTag(tag) PROVE IInv'
  BY <1>5, SetAuthTagInv
<1>6. ASSUME NEW pad \in PaddingFound, Finish(pad) PROVE IInv'
  BY <1>6, FinishInv
<1>7. ASSUME NEW pad \in PaddingFound, FinishThrows(pad) PROVE IInv'
  BY <1>7, FinishThrowsInv
<1>8. CASE FinishThrowsWithoutTag
  BY <1>8, FinishThrowsWithoutTagInv
<1>9. CASE UNCHANGED vars
  BY <1>9 DEF vars, IInv, TypeOK, NoByteLostOrRepeated, FinishedOutputComplete,
     GenuineTagIsPeers, FinishedDecryptionIsAuthentic, RoundTrip, UpdatedIsMarked,
     FedPeerCiphertext
<1>10. CASE AddNullAssociatedData
  BY <1>10, AddNullAssociatedDataInv
<1> QED
  BY <1>1, <1>2, <1>3, <1>4, <1>5, <1>6, <1>7, <1>8, <1>9, <1>10 DEF Next
-----------------------------------------------------------------------------
(* Every reachable state satisfies the inductive invariant. *)
THEOREM Invariance == Spec => []IInv
BY InitInv, NextInv, PTL DEF Spec

(* Type correctness: no member of the cipher object leaves its type, no    *)
(* byte count becomes negative.                                            *)
THEOREM TypeCorrect == Spec => []TypeOK
BY Invariance, PTL DEF IInv

(* update(), read(), readAll() and finish() lose and repeat no byte.       *)
THEOREM NoByteIsLostOrRepeated == Spec => []NoByteLostOrRepeated
BY Invariance, PTL DEF IInv

(* When finish() has returned, the caller has the complete output.         *)
THEOREM FinishedOutputIsComplete == Spec => []FinishedOutputComplete
BY Invariance, PTL DEF IInv

(* finish() of a GCM decryption returns for the peer's message only.       *)
THEOREM DecryptionIsAuthentic == Spec => []FinishedDecryptionIsAuthentic
BY Invariance, PTL DEF IInv

(* Decrypting a peer's ciphertext gives back as many bytes as it has.      *)
THEOREM DecryptionInverts == Spec => []RoundTrip
BY Invariance, PTL DEF IInv

(* No associated data is absorbed once data has been.                      *)
THEOREM AssociatedDataFirst == Spec => AssociatedDataPrecedesData
<1>1. ASSUME IInv, [Next]_vars
      PROVE  [cipher'.evp.aad # cipher.evp.aad => cipher.evp.nIn = 0]_vars
  <2> SUFFICES ASSUME Next, cipher'.evp.aad # cipher.evp.aad PROVE cipher.evp.nIn = 0
    BY <1>1
  <2>1. cipher \in CipherObject /\ cipher.evp \in EVPContext
    BY <1>1 DEF IInv, TypeOK, CipherObject
  <2>2. CASE \E genuine \in GenuineChoices, n \in AadSizes : AddAssociatedData(n, genuine)
    BY <1>1, <2>2 DEF AddAssociatedData, AddAssociatedDataOk, IInv, UpdatedIsMarked
  <2>3. ASSUME NEW genuine \in GenuineChoices, NEW n \in ChunkSizes, Update(n, genuine)
        PROVE  FALSE
    BY <2>1, <2>3 DEF Update, Updated, EVP_CipherUpdate, CipherObject, EVPContext
  <2>4. ASSUME NEW n, Read(n) PROVE FALSE
    BY <2>1, <2>4 DEF Read, ReadFrom, CipherObject
  <2>5. ASSUME NEW tag, SetAuthTag(tag) PROVE FALSE
    BY <2>1, <2>5 DEF SetAuthTag, AuthTagSet, CipherObject
  <2>6. ASSUME NEW pad, Finish(pad) PROVE FALSE
    BY <2>1, <2>6 DEF Finish, Finished, CipherObject, EVPContext
  <2>7. ASSUME NEW pad, FinishThrows(pad) PROVE FALSE
    BY <2>1, <2>7 DEF FinishThrows, FinishFailed, CipherObject, EVPContext
  <2>8. CASE FinishThrowsWithoutTag
    BY <2>1, <2>8 DEF FinishThrowsWithoutTag, FinishWithoutTag, CipherObject, EVPContext
  <2>9. CASE AddNullAssociatedData
    BY <2>1, <2>9 DEF AddNullAssociatedData, NullAdded, CipherObject, EVPContext
  <2> QED
    BY <2>2, <2>3, <2>4, <2>5, <2>6, <2>7, <2>8, <2>9 DEF Next, ReadAll
<1> QED
  BY <1>1, Invariance, PTL DEF Spec, AssociatedDataPrecedesData
-----------------------------------------------------------------------------
(* What the tag covers.  The length of associated data is narrowed to an   *)
(* int, so these two properties need every piece to fit into one.          *)
AadFits == \A n \in AadSizes : n <= IntMax

TagInv == IInv /\ AllAssociatedDataAuthenticated /\ TagCoversOutput

(* A length that fits into an int survives the conversion.                 *)
LEMMA ToIntFits ==
    ASSUME AadFits, NEW n \in AadSizes
    PROVE  ToInt(n) = n
<1>1. n \in Nat /\ 2 * (IntMax + 1) \in Nat /\ n < 2 * (IntMax + 1)
  BY SizesAssumption, IntMaxAssumption DEF AadFits
<1>2. \A a, b \in Nat : a < b => a % b = a
  OBVIOUS
<1>3. n % (2 * (IntMax + 1)) = n
  BY <1>1, <1>2
<1> QED
  BY <1>3 DEF ToInt

(* A fresh cipher has absorbed no associated data and has no tag.          *)
LEMMA InitTagInv == Init => TagInv
<1> SUFFICES ASSUME Init PROVE TagInv
  OBVIOUS
<1>1. IInv
  BY InitInv
<1>2. cipher.evp.aad = 0 /\ ~cipher.isFinished
  BY DEF Init, NewCipher, ContextOf, EVP_CipherInit_ex
<1> QED
  BY <1>1, <1>2 DEF TagInv, AllAssociatedDataAuthenticated, TagCoversOutput, Init

(* Every step keeps the account of the associated data and the tag.        *)
LEMMA NextTagInv == AadFits /\ TagInv /\ [Next]_vars => TagInv'
<1> SUFFICES ASSUME AadFits, TagInv, [Next]_vars PROVE TagInv'
  OBVIOUS
<1> USE DEF TagInv
<1>1. IInv /\ IInv'
  BY NextInv
<1>2. cipher \in CipherObject /\ cipher.evp \in EVPContext
  BY <1>1 DEF IInv, TypeOK, CipherObject
<1>3. SUFFICES AllAssociatedDataAuthenticated' /\ TagCoversOutput'
  BY <1>1
<1> USE DEF AllAssociatedDataAuthenticated
<1>4. ASSUME NEW genuine \in GenuineChoices, NEW n \in ChunkSizes, Update(n, genuine)
      PROVE  AllAssociatedDataAuthenticated' /\ TagCoversOutput'
  <2>1. ~cipher.isFinished /\ aadGiven' = aadGiven
    BY <1>4 DEF Update, UpdateOk
  <2>2. cipher'.evp.aad = cipher.evp.aad /\ cipher'.isFinished = cipher.isFinished
    BY <1>2, <1>4 DEF Update, Updated, EVP_CipherUpdate, CipherObject, EVPContext
  <2> QED
    BY <2>1, <2>2 DEF TagCoversOutput
<1>5. ASSUME NEW genuine \in GenuineChoices, NEW n \in AadSizes,
             AddAssociatedData(n, genuine)
      PROVE  AllAssociatedDataAuthenticated' /\ TagCoversOutput'
  <2>1. ~cipher.isFinished /\ aadGiven' = aadGiven + n
    BY <1>5 DEF AddAssociatedData, AddAssociatedDataOk
  <2>2. /\ cipher'.evp.aad = cipher.evp.aad + ToInt(n)
        /\ cipher'.isFinished = cipher.isFinished
    BY <1>2, <1>5 DEF AddAssociatedData, AssociatedDataAdded, EVP_CipherUpdateAAD,
       CipherObject, EVPContext
  <2>3. ToInt(n) = n
    BY ToIntFits
  <2> QED
    BY <2>1, <2>2, <2>3 DEF TagCoversOutput
<1>6. ASSUME NEW n \in Nat, Read(n)
      PROVE  AllAssociatedDataAuthenticated' /\ TagCoversOutput'
  <2>1. /\ cipher'.evp = cipher.evp /\ cipher'.isFinished = cipher.isFinished
        /\ cipher'.mode = cipher.mode /\ cipher'.operation = cipher.operation
        /\ cipher'.authTag = cipher.authTag
        /\ cipher'.requestedAuthTagLength = cipher.requestedAuthTagLength
        /\ UNCHANGED <<aadGiven, tagReplaced>>
    BY <1>2, <1>6 DEF Read, ReadFrom, CipherObject
  <2>2. cipher.isFinished => delivered' = delivered
    <3>1. cipher.isFinished => cipher.buffered = 0
      BY <1>1 DEF IInv, FinishedOutputComplete
    <3>2. /\ delivered' = delivered + ReadSize(cipher, n) /\ delivered \in Nat
          /\ ReadSize(cipher, n) \in Nat /\ ReadSize(cipher, n) <= cipher.buffered
      BY <1>1, <1>2, <1>6, ReadSizeType DEF Read, IInv, TypeOK
    <3> QED
      BY <3>1, <3>2
  <2> QED
    BY <2>1, <2>2 DEF TagCoversOutput, ComputesTag
<1>7. ASSUME NEW tag, SetAuthTag(tag)
      PROVE  AllAssociatedDataAuthenticated' /\ TagCoversOutput'
  <2>1. cipher'.evp = cipher.evp /\ aadGiven' = aadGiven /\ tagReplaced'
    BY <1>2, <1>7 DEF SetAuthTag, AuthTagSet, CipherObject
  <2> QED
    BY <2>1 DEF TagCoversOutput
<1>8. ASSUME NEW pad, Finish(pad)
      PROVE  AllAssociatedDataAuthenticated' /\ TagCoversOutput'
  <2>1. /\ cipher'.evp.aad = cipher.evp.aad /\ cipher'.evp.nIn = cipher.evp.nIn
        /\ cipher'.mode = cipher.mode /\ cipher'.operation = cipher.operation
        /\ cipher'.padding = cipher.padding /\ cipher'.isFinished
        /\ cipher'.requestedAuthTagLength = cipher.requestedAuthTagLength
        /\ aadGiven' = aadGiven
    BY <1>2, <1>8 DEF Finish, Finished, CipherObject, EVPContext
  <2>2. ComputesTag(cipher) => cipher'.authTag =
            Tag(cipher.requestedAuthTagLength, "genuine", cipher.evp.nIn, cipher.evp.aad)
    BY <1>2, <1>8 DEF Finish, Finished, CipherObject
  <2>3. ComputesTag(cipher) => delivered' = cipher.evp.nIn
    BY <1>1, <2>1 DEF IInv, FinishedOutputComplete, ComputesTag, CipherLength
  <2> QED
    BY <2>1, <2>2, <2>3 DEF TagCoversOutput, ComputesTag
<1>9. ASSUME NEW pad, FinishThrows(pad)
      PROVE  AllAssociatedDataAuthenticated' /\ TagCoversOutput'
  <2>1. /\ cipher'.evp.aad = cipher.evp.aad /\ cipher'.isFinished = cipher.isFinished
        /\ aadGiven' = aadGiven /\ ~cipher.isFinished
    BY <1>2, <1>9 DEF FinishThrows, FinishFailed, FinishReachesFinal, CipherObject,
       EVPContext
  <2> QED
    BY <2>1 DEF TagCoversOutput
<1>10. CASE FinishThrowsWithoutTag
  <2>1. /\ cipher'.evp.aad = cipher.evp.aad /\ cipher'.isFinished = cipher.isFinished
        /\ aadGiven' = aadGiven /\ ~cipher.isFinished
    BY <1>2, <1>10 DEF FinishThrowsWithoutTag, FinishWithoutTag, FinishReachesFinal,
       CipherObject, EVPContext
  <2> QED
    BY <2>1 DEF TagCoversOutput
<1>11. CASE UNCHANGED vars
  BY <1>11 DEF vars, TagCoversOutput
<1>12. CASE ReadAll
  <2>1. cipher.buffered \in Nat
    BY <1>2 DEF CipherObject
  <2> QED
    BY <1>6, <1>12, <2>1 DEF ReadAll
<1>13. CASE AddNullAssociatedData
  <2>1. /\ cipher'.evp.aad = cipher.evp.aad /\ cipher'.isFinished = cipher.isFinished
        /\ aadGiven' = aadGiven /\ ~cipher.isFinished
    BY <1>2, <1>13 DEF AddNullAssociatedData, NullAdded, AddNullOk, AddAssociatedDataOk,
       CipherObject, EVPContext
  <2> QED
    BY <2>1 DEF TagCoversOutput
<1> QED
  BY <1>4, <1>5, <1>6, <1>7, <1>8, <1>9, <1>10, <1>11, <1>12, <1>13, SizesAssumption
     DEF Next

(* As long as each piece of associated data fits into an int, all of it is *)
(* authenticated.                                                          *)
THEOREM AssociatedDataAuthenticated ==
    AadFits => (Spec => []AllAssociatedDataAuthenticated)
<1>1. TagInv => AllAssociatedDataAuthenticated
  BY DEF TagInv
<1>2. SUFFICES ASSUME AadFits PROVE Spec => []AllAssociatedDataAuthenticated
  OBVIOUS
<1>3. TagInv /\ [Next]_vars => TagInv'
  BY <1>2, NextTagInv
<1> QED
  BY InitTagInv, <1>1, <1>3, PTL DEF Spec

(* As long as each piece of associated data fits into an int, the tag of a *)
(* finished encryptor has the requested length and covers all ciphertext   *)
(* and all associated data.                                                *)
THEOREM TagIsComplete == AadFits => (Spec => []TagCoversOutput)
<1>1. TagInv => TagCoversOutput
  BY DEF TagInv
<1>2. SUFFICES ASSUME AadFits PROVE Spec => []TagCoversOutput
  OBVIOUS
<1>3. TagInv /\ [Next]_vars => TagInv'
  BY <1>2, NextTagInv
<1> QED
  BY InitTagInv, <1>1, <1>3, PTL DEF Spec

(* The three facts about the output in one.                                *)
THEOREM OutputRight == Spec => []OutputIsRight
BY TypeCorrect, NoByteIsLostOrRepeated, FinishedOutputIsComplete, PTL DEF OutputIsRight
-----------------------------------------------------------------------------
(***************************************************************************)
(* The queue of blocks.  Facts about flattened queues are proved by        *)
(* induction on the number of blocks, as the principle of the least        *)
(* number.                                                                 *)
(***************************************************************************)

Byte == 1 .. MaxBytes

Less == {ss \in Nat \X Nat : ss[1] < ss[2]}

(* A set of naturals that is not empty has a least element. *)
LEMMA LeastNumber ==
    ASSUME NEW T \in SUBSET Nat, T # {}
    PROVE  \E x \in T : \A y \in T : x <= y
  <1>1. IsWellFoundedOn(Less, Nat)
    BY NatLessThanWellFounded DEF OpToRel, Less
  <1>2. PICK x \in T : \A y \in T : <<y, x>> \notin Less
    <2>1. T \subseteq Nat
      OBVIOUS
    <2> QED
      BY <1>1, <2>1, WFMin
  <1>3. ASSUME NEW y \in T PROVE x <= y
    <2>1. x \in Nat /\ y \in Nat
      OBVIOUS
    <2>2. <<y, x>> \in Nat \X Nat /\ <<y, x>>[1] = y /\ <<y, x>>[2] = x
      BY <2>1
    <2>3. ~(y < x)
      BY <1>2, <2>2 DEF Less
    <2> QED
      BY <2>1, <2>3
  <1> QED
    BY <1>3

(* Max of a bounded set of naturals is its greatest element. *)
LEMMA MaxLemma ==
    ASSUME NEW n \in Nat, NEW T \in SUBSET (0 .. n), T # {}
    PROVE  Memory!Max(T) \in T /\ \A y \in T : Memory!Max(T) >= y
  <1> DEFINE D == {n - x : x \in T}
  <1>0. \A x \in T : x \in 0 .. n /\ n - x \in Nat
    <2> TAKE x \in T
    <2>1. x \in 0 .. n
      OBVIOUS
    <2> QED
      BY <2>1
  <1>1. D \in SUBSET Nat /\ D # {}
    BY <1>0
  <1>2. PICK d \in D : \A e \in D : d <= e
    BY <1>1, LeastNumber
  <1>3. PICK x \in T : d = n - x
    OBVIOUS
  <1>4. ASSUME NEW y \in T PROVE x >= y
    <2>1. n - x <= n - y
      BY <1>2, <1>3
    <2>2. x \in Int /\ y \in Int
      BY <1>0
    <2> QED
      BY <2>1, <2>2
  <1> QED
    BY <1>4 DEF Memory!Max
-----------------------------------------------------------------------------
(* f[i] is the contents of the first i blocks of q *)
BlockPrefixes(f, q, n) ==
    /\ f \in [0 .. n -> Seq(Byte)]
    /\ f[0] = <<>>
    /\ \A i \in 1 .. n : f[i] = f[i - 1] \o q[i]

(* The contents of the first blocks can be computed one by one. *)
LEMMA PrefixesExist ==
    ASSUME NEW q \in Seq(Seq(Byte))
    PROVE  \E f : BlockPrefixes(f, q, Len(q))
  <1> DEFINE Without == {m \in Nat : m <= Len(q) /\ ~ \E f : BlockPrefixes(f, q, m)}
  <1>1. Len(q) \in Nat
    BY LenProperties
  <1>2. Without = {}
    <2> SUFFICES ASSUME Without # {} PROVE FALSE
      OBVIOUS
    <2>1. PICK m \in Without : \A k \in Without : m <= k
      BY LeastNumber
    <2>2. m # 0
      <3>1. BlockPrefixes([i \in 0 .. 0 |-> <<>>], q, 0)
        <4>1. <<>> \in Seq(Byte)
          BY EmptySeq
        <4> QED
          BY <4>1 DEF BlockPrefixes
      <3> QED
        BY <3>1
    <2>3. m - 1 \in Nat /\ m - 1 \notin Without
      <3>1. m \in Nat /\ m - 1 \in Nat /\ ~(m <= m - 1)
        BY <2>2
      <3> HIDE DEF Without
      <3> QED
        BY <2>1, <3>1
    <2>4. PICK f : BlockPrefixes(f, q, m - 1)
      BY <1>1, <2>3
    <2> DEFINE g == [i \in 0 .. m |-> IF i = m THEN f[m - 1] \o q[m] ELSE f[i]]
    <2>5. BlockPrefixes(g, q, m)
      <3>1. m \in 1 .. Len(q) /\ m - 1 \in 0 .. m - 1
        BY <1>1, <2>2, <2>3
      <3>2. q[m] \in Seq(Byte)
        BY <3>1, ElementOfSeq
      <3>3. \A i \in 0 .. m - 1 : f[i] \in Seq(Byte)
        BY <2>4 DEF BlockPrefixes
      <3>4. f[m - 1] \o q[m] \in Seq(Byte)
        BY <3>1, <3>2, <3>3, ConcatProperties
      <3>5. g \in [0 .. m -> Seq(Byte)]
        <4> SUFFICES ASSUME NEW i \in 0 .. m
                     PROVE  (IF i = m THEN f[m - 1] \o q[m] ELSE f[i]) \in Seq(Byte)
          OBVIOUS
        <4>1. i # m => i \in 0 .. m - 1
          BY <2>3
        <4> QED
          BY <3>3, <3>4, <4>1
      <3>6. g[0] = <<>>
        BY <2>2, <2>3, <2>4 DEF BlockPrefixes
      <3>7. ASSUME NEW i \in 1 .. m PROVE g[i] = g[i - 1] \o q[i]
        <4>1. i - 1 \in 0 .. m /\ i - 1 # m /\ g[i - 1] = f[i - 1]
          BY <2>3
        <4>0. i \in 0 .. m /\ g[i] = IF i = m THEN f[m - 1] \o q[m] ELSE f[i]
          BY <2>3
        <4>2. CASE i = m
          <5>1. g[i] = f[i - 1] \o q[i]
            BY <4>0, <4>2
          <5> HIDE DEF g
          <5> QED
            BY <4>1, <5>1
        <4>3. CASE i # m
          <5>1. i \in 1 .. m - 1
            BY <2>3, <4>3
          <5>2. f[i] = f[i - 1] \o q[i]
            BY <2>4, <5>1 DEF BlockPrefixes
          <5>3. g[i] = f[i]
            BY <4>0, <4>3
          <5> HIDE DEF g
          <5> QED
            BY <4>1, <5>2, <5>3
        <4> QED
          BY <4>2, <4>3
      <3> QED
        BY <3>5, <3>6, <3>7 DEF BlockPrefixes
    <2> QED
      BY <2>5
  <1> QED
    BY <1>1, <1>2

(* FlattenSeq of the community modules is the contents of all blocks. *)
LEMMA FlattenIsPrefix ==
    ASSUME NEW q \in Seq(Seq(Byte)), NEW f, BlockPrefixes(f, q, Len(q))
    PROVE  Memory!FlattenSeq(q) = f[Len(q)] /\ Memory!FlattenSeq(q) \in Seq(Byte)
  <1>1. Len(q) \in Nat
    BY LenProperties
  <1>2. f[Len(q)] \in Seq(Byte)
    BY <1>1 DEF BlockPrefixes
  <1>3. CASE Len(q) = 0
    <2>1. q = <<>>
      BY <1>3
    <2> QED
      BY <1>2, <1>3, <2>1 DEF Memory!FlattenSeq, BlockPrefixes
  <1>4. CASE Len(q) # 0
    <2> DEFINE Fix(h) == h = [i \in 1 .. Len(q) |->
                                 IF i = 1 THEN q[i] ELSE h[i - 1] \o q[i]]
               up     == [i \in 1 .. Len(q) |-> f[i]]
    <2>1. q[1] \in Seq(Byte)
      BY <1>1, <1>4, ElementOfSeq
    <2>2. Fix(up)
      <3>1. ASSUME NEW i \in 1 .. Len(q)
            PROVE  f[i] = IF i = 1 THEN q[i] ELSE up[i - 1] \o q[i]
        <4>1. f[i] = f[i - 1] \o q[i]
          BY DEF BlockPrefixes
        <4>2. CASE i = 1
          <5>1. i - 1 = 0 /\ f[0] = <<>>
            BY <4>2 DEF BlockPrefixes
          <5>2. f[i] = <<>> \o q[1]
            BY <4>1, <4>2, <5>1
          <5> QED
            BY <2>1, <4>2, <5>2, ConcatEmptySeq
        <4>3. CASE i # 1
          <5>1. i - 1 \in 1 .. Len(q)
            BY <1>1, <4>3
          <5> QED
            BY <4>1, <4>3, <5>1
        <4> QED
          BY <4>2, <4>3
      <3> QED
        BY <3>1
    <2> DEFINE flatten == CHOOSE h : Fix(h)
    <2>3. Fix(flatten)
      BY <2>2
    <2>4. Memory!FlattenSeq(q) = flatten[Len(q)]
      BY <1>4 DEF Memory!FlattenSeq
    <2> HIDE DEF Fix, flatten
    <2> DEFINE h == flatten
    <2>5. h = [i \in 1 .. Len(q) |-> IF i = 1 THEN q[i] ELSE h[i - 1] \o q[i]]
      BY <2>3 DEF Fix
    <2> DEFINE Differ == {i \in Nat : i \in 1 .. Len(q) /\ h[i] # f[i]}
    <2>6. Differ = {}
      <3> SUFFICES ASSUME Differ # {} PROVE FALSE
        OBVIOUS
      <3>1. PICK i \in Differ : \A j \in Differ : i <= j
        BY LeastNumber
      <3>2. f[i] = f[i - 1] \o q[i]
        BY DEF BlockPrefixes
      <3>3. i # 1
        <4> SUFFICES ASSUME i = 1 PROVE FALSE
          OBVIOUS
        <4>1. i - 1 = 0 /\ f[0] = <<>>
          BY DEF BlockPrefixes
        <4>2. f[1] = <<>> \o q[1]
          BY <3>2, <4>1
        <4>3. f[1] = q[1]
          BY <2>1, <4>2, ConcatEmptySeq
        <4>4. h[1] = q[1]
          <5>1. 1 \in 1 .. Len(q)
            BY <1>1, <1>4
          <5> HIDE DEF h
          <5> QED
            BY <2>5, <5>1
        <4> QED
          BY <4>3, <4>4
      <3>4. i - 1 \in Nat /\ i - 1 \in 1 .. Len(q) /\ i - 1 \notin Differ
        <4>1. i \in Nat /\ i - 1 \in Nat /\ ~(i <= i - 1) /\ i - 1 \in 1 .. Len(q)
          BY <1>1, <3>3
        <4> HIDE DEF Differ
        <4> QED
          BY <3>1, <4>1
      <3>5. h[i - 1] = f[i - 1]
        BY <3>4
      <3>6. h[i] = h[i - 1] \o q[i]
        <4> HIDE DEF h
        <4> QED
          BY <2>5, <3>3
      <3> QED
        BY <3>2, <3>5, <3>6
    <2>7. Len(q) \in 1 .. Len(q)
      BY <1>1, <1>4
    <2>8. h[Len(q)] = f[Len(q)]
      BY <1>1, <2>6, <2>7
    <2> QED
      BY <1>2, <2>4, <2>8
  <1> QED
    BY <1>3, <1>4

(* Concatenation of bytes is associative. *)
LEMMA Associative ==
    \A a, b, c \in Seq(Byte) : (a \o b) \o c = a \o (b \o c)
  BY ConcatAssociative

(* The contents of two queues in a row are their contents in a row. *)
LEMMA FlattenConcat ==
    ASSUME NEW q \in Seq(Seq(Byte)), NEW r \in Seq(Seq(Byte))
    PROVE  /\ q \o r \in Seq(Seq(Byte))
           /\ Memory!FlattenSeq(q) \in Seq(Byte) /\ Memory!FlattenSeq(r) \in Seq(Byte)
           /\ Memory!FlattenSeq(q \o r) = Memory!FlattenSeq(q) \o Memory!FlattenSeq(r)
  <1>1. PICK f : BlockPrefixes(f, q, Len(q))
    BY PrefixesExist
  <1>2. PICK g : BlockPrefixes(g, r, Len(r))
    BY PrefixesExist
  <1>3. Memory!FlattenSeq(q) = f[Len(q)] /\ Memory!FlattenSeq(q) \in Seq(Byte)
    BY <1>1, FlattenIsPrefix
  <1>4. Memory!FlattenSeq(r) = g[Len(r)] /\ Memory!FlattenSeq(r) \in Seq(Byte)
    BY <1>2, FlattenIsPrefix
  <1>5. Len(q) \in Nat /\ Len(r) \in Nat
    BY LenProperties
  <1> DEFINE n == Len(q) + Len(r)
             F == Memory!FlattenSeq(q)
             h == [i \in 0 .. n |->
                      IF i <= Len(q) THEN f[i] ELSE F \o g[i - Len(q)]]
  <1>6. /\ q \o r \in Seq(Seq(Byte))
        /\ Len(q \o r) = n
        /\ \A i \in 1 .. n : (q \o r)[i] = IF i <= Len(q) THEN q[i] ELSE r[i - Len(q)]
    BY ConcatProperties
  <1> HIDE DEF F
  <1>f. F \in Seq(Byte) /\ F = f[Len(q)]
    BY <1>3 DEF F
  <1>7. h \in [0 .. n -> Seq(Byte)]
    <2> SUFFICES ASSUME NEW i \in 0 .. n
                 PROVE  (IF i <= Len(q) THEN f[i] ELSE F \o g[i - Len(q)]) \in Seq(Byte)
      OBVIOUS
    <2>1. CASE i <= Len(q)
      <3>1. i \in 0 .. Len(q)
        BY <1>5, <2>1
      <3> QED
        BY <1>1, <2>1, <3>1 DEF BlockPrefixes
    <2>2. CASE ~(i <= Len(q))
      <3>1. i - Len(q) \in 0 .. Len(r)
        BY <1>5, <2>2
      <3>2. g[i - Len(q)] \in Seq(Byte)
        BY <1>2, <3>1 DEF BlockPrefixes
      <3> QED
        BY <1>f, <2>2, <3>2, ConcatProperties
    <2> QED
      BY <2>1, <2>2
  <1>8. h[0] = <<>>
    BY <1>1, <1>5 DEF BlockPrefixes
  <1>9. ASSUME NEW i \in 1 .. n PROVE h[i] = h[i - 1] \o (q \o r)[i]
    <2>1. /\ i \in Int /\ i \in 0 .. n /\ i - 1 \in 0 .. n
          /\ h[i] = IF i <= Len(q) THEN f[i] ELSE F \o g[i - Len(q)]
          /\ h[i - 1] = IF i - 1 <= Len(q) THEN f[i - 1] ELSE F \o g[i - 1 - Len(q)]
          /\ (q \o r)[i] = IF i <= Len(q) THEN q[i] ELSE r[i - Len(q)]
      BY <1>5, <1>6
    <2> HIDE DEF h
    <2>2. CASE i <= Len(q)
      <3>1. i \in 1 .. Len(q) /\ i - 1 <= Len(q)
        BY <1>5, <2>1, <2>2
      <3>2. f[i] = f[i - 1] \o q[i]
        BY <1>1, <3>1 DEF BlockPrefixes
      <3> QED
        BY <2>1, <2>2, <3>1, <3>2
    <2>3. CASE ~(i <= Len(q))
      <3> DEFINE j == i - Len(q)
      <3>1. j \in 1 .. Len(r) /\ j - 1 \in 0 .. Len(r) /\ i - 1 - Len(q) = j - 1
        BY <1>5, <2>1, <2>3
      <3>2. g[j] = g[j - 1] \o r[j] /\ g[j - 1] \in Seq(Byte)
        BY <1>2, <3>1 DEF BlockPrefixes
      <3>3. r[j] \in Seq(Byte)
        BY <3>1, ElementOfSeq
      <3>4. F \o g[j] = (F \o g[j - 1]) \o r[j]
        <4> HIDE DEF j
        <4>2. (F \o g[j - 1]) \o r[j] = F \o (g[j - 1] \o r[j])
          BY <1>f, <3>2, <3>3, Associative, Zenon
        <4> QED
          BY <3>2, <4>2, Zenon
      <3>5. h[i - 1] = F \o g[j - 1]
        <4>1. CASE i - 1 <= Len(q)
          <5>1. i - 1 = Len(q) /\ j - 1 = 0
            BY <1>5, <2>1, <2>3, <4>1
          <5>2. g[0] = <<>>
            BY <1>2 DEF BlockPrefixes
          <5>3. h[i - 1] = F
            BY <1>f, <2>1, <4>1, <5>1
          <5>4. F \o <<>> = F
            BY <1>f, ConcatEmptySeq
          <5> QED
            BY <5>1, <5>2, <5>3, <5>4
        <4>2. CASE ~(i - 1 <= Len(q))
          BY <2>1, <3>1, <4>2
        <4> QED
          BY <4>1, <4>2
      <3>6. h[i] = F \o g[j] /\ (q \o r)[i] = r[j]
        BY <2>1, <2>3
      <3> QED
        BY <3>4, <3>5, <3>6
    <2> QED
      BY <2>2, <2>3
  <1>10. BlockPrefixes(h, q \o r, n)
    <2> HIDE DEF h, n
    <2> QED
      BY <1>7, <1>8, <1>9 DEF BlockPrefixes
  <1>11. Memory!FlattenSeq(q \o r) = h[n]
    <2> HIDE DEF h, n
    <2> QED
      BY <1>6, <1>10, FlattenIsPrefix
  <1>12. h[n] = F \o Memory!FlattenSeq(r)
    <2>1. n \in 0 .. n /\ n - Len(q) = Len(r) /\ (n <= Len(q) => Len(r) = 0 /\ n = Len(q))
      BY <1>5
    <2>2. h[n] = IF n <= Len(q) THEN f[n] ELSE F \o g[n - Len(q)]
      BY <2>1
    <2> HIDE DEF h, n
    <2>3. CASE n <= Len(q)
      <3>1. Memory!FlattenSeq(r) = <<>>
        BY <1>2, <1>4, <2>1, <2>3 DEF BlockPrefixes
      <3>2. h[n] = F
        BY <1>f, <2>1, <2>2, <2>3
      <3> QED
        BY <1>f, <3>1, <3>2, ConcatEmptySeq
    <2>4. CASE ~(n <= Len(q))
      BY <1>4, <2>1, <2>2, <2>4
    <2> QED
      BY <2>3, <2>4
  <1> QED
    BY <1>3, <1>4, <1>6, <1>11, <1>12 DEF F

(* The contents of no block, and of one. *)
LEMMA FlattenSmall ==
    /\ Memory!FlattenSeq(<<>>) = <<>>
    /\ \A b \in Seq(Byte) : <<b>> \in Seq(Seq(Byte)) /\ Memory!FlattenSeq(<<b>>) = b
  <1>1. Memory!FlattenSeq(<<>>) = <<>>
    <2>1. Len(<<>>) = 0
      BY EmptySeq
    <2> QED
      BY <2>1 DEF Memory!FlattenSeq
  <1>2. ASSUME NEW b \in Seq(Byte)
        PROVE  <<b>> \in Seq(Seq(Byte)) /\ Memory!FlattenSeq(<<b>>) = b
    <2>1. <<b>> \in Seq(Seq(Byte)) /\ Len(<<b>>) = 1 /\ <<b>>[1] = b
      OBVIOUS
    <2> DEFINE f == [i \in 0 .. 1 |-> IF i = 0 THEN <<>> ELSE b]
    <2>2. BlockPrefixes(f, <<b>>, 1)
      <3>1. <<>> \in Seq(Byte) /\ <<>> \o b = b
        BY EmptySeq, ConcatEmptySeq
      <3>2. f \in [0 .. 1 -> Seq(Byte)] /\ f[0] = <<>> /\ f[1] = b
        BY <3>1
      <3> HIDE DEF f
      <3>3. \A i \in 1 .. 1 : i = 1 /\ i - 1 = 0
        OBVIOUS
      <3> QED
        BY <2>1, <3>1, <3>2, <3>3 DEF BlockPrefixes
    <2>3. Memory!FlattenSeq(<<b>>) = f[1]
      BY <2>1, <2>2, FlattenIsPrefix
    <2> QED
      BY <2>1, <2>3
  <1> QED
    BY <1>1, <1>2

(* The contents of a queue begin with its front block, also when the front *)
(* block is replaced.                                                      *)
LEMMA FlattenHead ==
    ASSUME NEW q \in Seq(Seq(Byte)), q # <<>>
    PROVE  /\ Head(q) \in Seq(Byte) /\ Tail(q) \in Seq(Seq(Byte))
           /\ Memory!FlattenSeq(Tail(q)) \in Seq(Byte)
           /\ Memory!FlattenSeq(q) = Head(q) \o Memory!FlattenSeq(Tail(q))
           /\ \A b \in Seq(Byte) :
                 /\ [q EXCEPT ![1] = b] \in Seq(Seq(Byte))
                 /\ Memory!FlattenSeq([q EXCEPT ![1] = b]) = b \o Memory!FlattenSeq(Tail(q))
  <1>1. Head(q) \in Seq(Byte) /\ Tail(q) \in Seq(Seq(Byte))
    BY HeadTailProperties
  <1>2. \A b \in Seq(Byte) : Memory!FlattenSeq(<<b>> \o Tail(q)) = b \o Memory!FlattenSeq(Tail(q))
    <2> SUFFICES ASSUME NEW b \in Seq(Byte)
                 PROVE  Memory!FlattenSeq(<<b>> \o Tail(q)) = b \o Memory!FlattenSeq(Tail(q))
      OBVIOUS
    <2>1. <<b>> \in Seq(Seq(Byte)) /\ Memory!FlattenSeq(<<b>>) = b
      BY FlattenSmall
    <2>2. Memory!FlattenSeq(<<b>> \o Tail(q)) = Memory!FlattenSeq(<<b>>) \o Memory!FlattenSeq(Tail(q))
      BY <1>1, <2>1, FlattenConcat, Zenon
    <2> QED
      BY <2>1, <2>2, Zenon
  <1>3. q = <<Head(q)>> \o Tail(q)
    OBVIOUS
  <1>4. \A b \in Seq(Byte) :
          /\ [q EXCEPT ![1] = b] \in Seq(Seq(Byte))
          /\ [q EXCEPT ![1] = b] = <<b>> \o Tail(q)
    <2> SUFFICES ASSUME NEW b \in Seq(Byte)
                 PROVE  /\ [q EXCEPT ![1] = b] \in Seq(Seq(Byte))
                        /\ [q EXCEPT ![1] = b] = <<b>> \o Tail(q)
      OBVIOUS
    <2> DEFINE e == [q EXCEPT ![1] = b]
               c == <<b>> \o Tail(q)
    <2>1. 1 \in 1 .. Len(q) /\ Len(q) \in Nat
      BY EmptySeq
    <2>2. /\ e \in Seq(Seq(Byte)) /\ Len(e) = Len(q)
          /\ \A j \in 1 .. Len(q) : e[j] = IF j = 1 THEN b ELSE q[j]
      BY <2>1, ExceptSeq
    <2>3. /\ c \in Seq(Seq(Byte)) /\ Len(c) = Len(q)
          /\ \A j \in 1 .. Len(q) : c[j] = IF j = 1 THEN b ELSE q[j]
      BY <1>1, <2>1
    <2> HIDE DEF e, c
    <2>4. e = c
      BY <2>2, <2>3, SeqEqual
    <2> QED
      BY <2>2, <2>4 DEF e, c
  <1>5. Memory!FlattenSeq(Tail(q)) \in Seq(Byte)
    BY <1>1, FlattenConcat
  <1> QED
    BY <1>1, <1>2, <1>3, <1>4, <1>5, Zenon

(* The first j blocks are the first j - 1 and one more. *)
LEMMA OneMore ==
    ASSUME NEW q \in Seq(Seq(Byte)), NEW j \in 1 .. Len(q)
    PROVE  SubSeq(q, 1, j) = SubSeq(q, 1, j - 1) \o <<q[j]>>
  <1>1. 1 \in 1 .. Len(q)
    BY LenProperties
  <1> QED
    BY <1>1, SubSeqRecursiveSecond

(* A sequence cut in two. *)
LEMMA Cut ==
    ASSUME NEW S, NEW s \in Seq(S), NEW k \in 0 .. Len(s)
    PROVE  /\ SubSeq(s, 1, k) \in Seq(S) /\ Len(SubSeq(s, 1, k)) = k
           /\ SubSeq(s, k + 1, Len(s)) \in Seq(S)
           /\ Len(SubSeq(s, k + 1, Len(s))) = Len(s) - k
           /\ s = SubSeq(s, 1, k) \o SubSeq(s, k + 1, Len(s))
  <1>1. Len(s) \in Nat /\ k \in Nat
    BY LenProperties
  <1>2. \A i \in 1 .. Len(s) : s[i] \in S
    BY ElementOfSeq
  <1>3. SubSeq(s, 1, k) \in Seq(S) /\ Len(SubSeq(s, 1, k)) = k
    BY <1>1, <1>2, SubSeqProperties
  <1>4. /\ SubSeq(s, k + 1, Len(s)) \in Seq(S)
        /\ Len(SubSeq(s, k + 1, Len(s))) = Len(s) - k
    BY <1>1, <1>2, SubSeqProperties
  <1>5. SubSeq(s, 1, k) \o SubSeq(s, k + 1, Len(s)) = SubSeq(s, 1, Len(s))
    <2>1. 1 \in 1 .. Len(s) + 1 /\ k \in 1 - 1 .. Len(s) /\ Len(s) \in k .. Len(s)
      BY <1>1
    <2> QED
      BY <2>1, ConcatAdjacentSubSeq, Zenon
  <1>6. SubSeq(s, 1, Len(s)) = s
    BY SubSeqFull
  <1> QED
    BY <1>3, <1>4, <1>5, <1>6

(* The two parts of a sequence are its subsequences. *)
LEMMA Parts ==
    ASSUME NEW x \in Seq(Byte), NEW y \in Seq(Byte)
    PROVE  /\ x = SubSeq(x \o y, 1, Len(x))
           /\ y = SubSeq(x \o y, Len(x) + 1, Len(x \o y))
           /\ Len(x \o y) = Len(x) + Len(y) /\ Len(x) \in Nat /\ Len(y) \in Nat
  <1> DEFINE s == x \o y
  <1>1. Len(x) \in Nat /\ Len(y) \in Nat
    BY LenProperties
  <1>2. /\ s \in Seq(Byte) /\ Len(s) = Len(x) + Len(y)
        /\ \A i \in 1 .. Len(x) + Len(y) : s[i] = IF i <= Len(x) THEN x[i] ELSE y[i - Len(x)]
    BY ConcatProperties
  <1> HIDE DEF s
  <1>3. \A i \in 1 .. Len(s) : s[i] \in Byte
    BY <1>2, ElementOfSeq
  <1>4. x = SubSeq(s, 1, Len(x))
    <2>1. /\ SubSeq(s, 1, Len(x)) \in Seq(Byte)
          /\ Len(SubSeq(s, 1, Len(x))) = Len(x)
          /\ \A i \in 1 .. Len(x) : SubSeq(s, 1, Len(x))[i] = s[i]
      BY <1>1, <1>2, <1>3, SubSeqProperties
    <2>2. \A i \in 1 .. Len(x) : s[i] = x[i]
      BY <1>1, <1>2
    <2> QED
      BY <2>1, <2>2, SeqEqual
  <1>5. y = SubSeq(s, Len(x) + 1, Len(s))
    <2>1. /\ SubSeq(s, Len(x) + 1, Len(s)) \in Seq(Byte)
          /\ Len(SubSeq(s, Len(x) + 1, Len(s))) = Len(y)
          /\ \A i \in 1 .. Len(y) : SubSeq(s, Len(x) + 1, Len(s))[i] = s[Len(x) + i]
      <3>1. \A i \in Len(x) + 1 .. Len(s) : s[i] \in Byte
        BY <1>1, <1>2, <1>3
      <3>2. /\ SubSeq(s, Len(x) + 1, Len(s)) \in Seq(Byte)
            /\ Len(SubSeq(s, Len(x) + 1, Len(s))) = Len(y)
        BY <1>1, <1>2, <3>1, SubSeqProperties
      <3>3. ASSUME NEW i \in 1 .. Len(y)
            PROVE  SubSeq(s, Len(x) + 1, Len(s))[i] = s[Len(x) + i]
        BY <1>1, <1>2
      <3> QED
        BY <3>2, <3>3
    <2>2. \A i \in 1 .. Len(y) : s[Len(x) + i] = y[i]
      BY <1>1, <1>2
    <2> QED
      BY <2>1, <2>2, SeqEqual
  <1> QED
    BY <1>1, <1>2, <1>4, <1>5 DEF s
-----------------------------------------------------------------------------
(* A read of n bytes from the blocks q delivers got and leaves rest. *)
Delivers(q, n, got, rest) ==
    /\ got \in Seq(Byte) /\ rest \in Seq(Seq(Byte))
    /\ Memory!FlattenSeq(rest) \in Seq(Byte)
    /\ Memory!FlattenSeq(q) = got \o Memory!FlattenSeq(rest)
    /\ Len(got) = IF n < Len(Memory!FlattenSeq(q)) THEN n ELSE Len(Memory!FlattenSeq(q))

(* _readPartialBlock() takes bytes off the front of the contents. *)
LEMMA PartialBlock ==
    ASSUME NEW q \in Seq(Seq(Byte)), q # <<>>,
           NEW n \in Nat, n <= Len(Head(q))
    PROVE  /\ Len(SubSeq(Head(q), 1, n)) = n
           /\ Delivers(q, n, SubSeq(Head(q), 1, n),
                       [q EXCEPT ![1] = Memory!Erased(Head(q), n)])
  <1> DEFINE b == Head(q)
             got == SubSeq(b, 1, n)
             left == Memory!Erased(b, n)
             rest == [q EXCEPT ![1] = left]
             T == Memory!FlattenSeq(Tail(q))
  <1>1. /\ b \in Seq(Byte) /\ T \in Seq(Byte) /\ Memory!FlattenSeq(q) = b \o T
        /\ \A c \in Seq(Byte) : /\ [q EXCEPT ![1] = c] \in Seq(Seq(Byte))
                              /\ Memory!FlattenSeq([q EXCEPT ![1] = c]) = c \o T
    BY FlattenHead
  <1>2. n \in 0 .. Len(b)
    BY <1>1, LenProperties
  <1>3. /\ got \in Seq(Byte) /\ Len(got) = n
        /\ left \in Seq(Byte) /\ b = got \o left
    <2> HIDE DEF b
    <2> QED
      BY <1>1, <1>2, Cut, ZenonT(30) DEF Memory!Erased
  <1> HIDE DEF b, got, left, T
  <1>4. rest \in Seq(Seq(Byte)) /\ Memory!FlattenSeq(rest) = left \o T
    BY <1>1, <1>3
  <1> HIDE DEF rest
  <1>5. left \o T \in Seq(Byte)
    BY <1>1, <1>3, ConcatProperties
  <1>6. Memory!FlattenSeq(q) = got \o Memory!FlattenSeq(rest)
    <2>1. (got \o left) \o T = got \o (left \o T)
      BY <1>1, <1>3, Associative, Zenon
    <2> QED
      BY <1>1, <1>3, <1>4, <2>1, Zenon
  <1>7. Len(Memory!FlattenSeq(q)) = n + Len(left \o T) /\ Len(left \o T) \in Nat
    <2> DEFINE y == left \o T
    <2>1. Memory!FlattenSeq(q) = got \o y
      BY <1>4, <1>6, Zenon
    <2> HIDE DEF y
    <2>2. y \in Seq(Byte)
      BY <1>5 DEF y
    <2>3. Len(got \o y) = Len(got) + Len(y) /\ Len(y) \in Nat
      BY <1>3, <2>2, Parts
    <2> QED
      BY <1>3, <2>1, <2>3 DEF y
  <1>8. Delivers(q, n, got, rest)
    BY <1>3, <1>4, <1>5, <1>6, <1>7 DEF Delivers
  <1> QED
    BY <1>3, <1>8 DEF b, got, left, rest

(* The last part of a read: blocks taken whole, then nothing or a part of  *)
(* the next one.                                                           *)
LEMMA WholeThenPart ==
    ASSUME NEW q \in Seq(Seq(Byte)), NEW r \in Seq(Seq(Byte)), NEW n \in Nat,
           NEW m \in Nat, NEW got, NEW rest, Delivers(r, m, got, rest),
           n = Len(Memory!FlattenSeq(q)) + m
    PROVE  /\ Memory!FlattenSeq(q) \in Seq(Byte)
           /\ Len(Memory!FlattenSeq(q) \o got) = Len(Memory!FlattenSeq(q)) + Len(got)
           /\ Delivers(q \o r, n, Memory!FlattenSeq(q) \o got, rest)
  <1> DEFINE Q == Memory!FlattenSeq(q)
             R == Memory!FlattenSeq(r)
             X == Memory!FlattenSeq(rest)
             A == Memory!FlattenSeq(q \o r)
  <1>1. Q \in Seq(Byte) /\ R \in Seq(Byte) /\ A = Q \o R
    BY FlattenConcat
  <1>2. /\ got \in Seq(Byte) /\ rest \in Seq(Seq(Byte)) /\ X \in Seq(Byte)
        /\ R = got \o X
        /\ Len(got) = IF m < Len(R) THEN m ELSE Len(R)
    BY DEF Delivers
  <1>3. n = Len(Q) + m
    OBVIOUS
  <1> HIDE DEF Q, R, X, A
  <1>4. Q \o got \in Seq(Byte) /\ Len(Q \o got) = Len(Q) + Len(got)
    BY <1>1, <1>2, ConcatProperties
  <1>5. A = (Q \o got) \o X
    <2>1. (Q \o got) \o X = Q \o (got \o X)
      BY <1>1, <1>2, Associative, Zenon
    <2> QED
      BY <1>1, <1>2, <2>1, Zenon
  <1>6. Len(A) = Len(Q) + Len(R) /\ Len(Q) \in Nat /\ Len(R) \in Nat
    BY <1>1, Parts
  <1>7. Len(Q \o got) = IF n < Len(A) THEN n ELSE Len(A)
    BY <1>2, <1>3, <1>4, <1>6
  <1> QED
    BY <1>1, <1>2, <1>4, <1>5, <1>7 DEF Delivers, Q, X, A

(* A read delivers what was asked or all there is, whichever branch of     *)
(* read() serves it, and totalBytesStored shrinks by what was delivered.   *)
LEMMA ReadDelivers ==
    ASSUME Memory!TypeOK, Memory!TotalBytesStoredExact, NEW n \in Nat, Memory!Read(n)
    PROVE  /\ Delivers(mQueue, n, mResult', mQueue')
           /\ mTotalBytesStored' = mTotalBytesStored - Len(mResult')
           /\ mWritten' = mWritten
  <1>1. mQueue \in Seq(Seq(Byte)) /\ mTotalBytesStored \in Int
    BY DEF Memory!TypeOK, Byte
  <1>2. /\ Memory!FlattenSeq(mQueue) \in Seq(Byte) /\ mTotalBytesStored = Len(Memory!FlattenSeq(mQueue))
        /\ Len(Memory!FlattenSeq(mQueue)) \in Nat
    BY <1>1, FlattenConcat, LenProperties DEF Memory!TotalBytesStoredExact, Memory!Contents
  <1>3. <<>> \in Seq(Byte) /\ <<>> \in Seq(Seq(Byte)) /\ Len(<<>>) = 0 /\ Memory!FlattenSeq(<<>>) = <<>>
    BY EmptySeq, FlattenSmall
  <1>4. mWritten' = mWritten
    BY DEF Memory!Read
  <1>5. CASE Memory!ReadEmptyQueue
    <2>1. mQueue = <<>> /\ mResult' = <<>> /\ mQueue' = <<>> /\ mTotalBytesStored' = mTotalBytesStored
      BY <1>5 DEF Memory!ReadEmptyQueue
    <2>2. <<>> \o <<>> = <<>>
      BY <1>3, ConcatEmptySeq
    <2>3. Delivers(<<>>, n, <<>>, <<>>)
      <3> DEFINE all == Memory!FlattenSeq(<<>>)
      <3>1. all \in Seq(Byte) /\ all = <<>> \o all /\ Len(all) = 0
        BY <1>3, <2>2, Zenon
      <3> HIDE DEF all
      <3>2. 0 = IF n < Len(all) THEN n ELSE Len(all)
        BY <3>1
      <3> QED
        BY <1>3, <3>1, <3>2, Zenon DEF Delivers, all
    <2> QED
      BY <1>1, <1>3, <1>4, <2>1, <2>3
  <1>6. CASE Memory!ReadCompleteBlock(n)
    <2>1. /\ mQueue # <<>> /\ Len(Head(mQueue)) = n /\ mResult' = Head(mQueue)
          /\ mQueue' = Tail(mQueue) /\ mTotalBytesStored' = mTotalBytesStored - Len(Head(mQueue))
      BY <1>6 DEF Memory!ReadCompleteBlock
    <2>2. /\ Head(mQueue) \in Seq(Byte) /\ Tail(mQueue) \in Seq(Seq(Byte))
          /\ Memory!FlattenSeq(Tail(mQueue)) \in Seq(Byte)
          /\ Memory!FlattenSeq(mQueue) = Head(mQueue) \o Memory!FlattenSeq(Tail(mQueue))
      BY <1>1, <2>1, FlattenHead, Zenon
    <2>3. /\ Len(Memory!FlattenSeq(mQueue)) = Len(Head(mQueue)) + Len(Memory!FlattenSeq(Tail(mQueue)))
          /\ Len(Memory!FlattenSeq(Tail(mQueue))) \in Nat
      <3> DEFINE x == Head(mQueue)
                 y == Memory!FlattenSeq(Tail(mQueue))
      <3>1. x \in Seq(Byte) /\ y \in Seq(Byte) /\ Memory!FlattenSeq(mQueue) = x \o y
        BY <2>2, Zenon
      <3> HIDE DEF x, y
      <3>2. Len(Memory!FlattenSeq(mQueue)) = Len(x) + Len(y) /\ Len(y) \in Nat
        BY <3>1, Parts
      <3> QED
        BY <3>2 DEF x, y
    <2>4. Delivers(mQueue, n, Head(mQueue), Tail(mQueue))
      <3> DEFINE all == Len(Memory!FlattenSeq(mQueue))
      <3>1. n = IF n < all THEN n ELSE all
        BY <2>1, <2>3
      <3> QED
        BY <2>1, <2>2, <3>1, Zenon DEF Delivers
    <2> QED
      BY <1>4, <2>1, <2>4
  <1>7. CASE Memory!ReadPartialBlock(n)
    <2>1. /\ mQueue # <<>> /\ Len(Head(mQueue)) > n /\ mResult' = SubSeq(Head(mQueue), 1, n)
          /\ mQueue' = [mQueue EXCEPT ![1] = Memory!Erased(mQueue[1], n)]
          /\ mTotalBytesStored' = mTotalBytesStored - n
      BY <1>7 DEF Memory!ReadPartialBlock
    <2>2. Head(mQueue) = mQueue[1]
      BY <1>1, <2>1
    <2>3. n <= Len(Head(mQueue))
      <3>1. Len(Head(mQueue)) \in Nat
        BY <1>1, <2>1, HeadTailProperties, LenProperties
      <3> QED
        BY <2>1, <3>1
    <2>4. /\ Len(SubSeq(Head(mQueue), 1, n)) = n
          /\ Delivers(mQueue, n, SubSeq(Head(mQueue), 1, n),
                      [mQueue EXCEPT ![1] = Memory!Erased(Head(mQueue), n)])
      BY <1>1, <2>1, <2>3, PartialBlock
    <2> QED
      BY <1>4, <2>1, <2>2, <2>4
  <1>8. CASE Memory!ReadOnlyBlock(n)
    <2>1. /\ Len(mQueue) = 1 /\ Len(Head(mQueue)) < n /\ mResult' = Head(mQueue)
          /\ mQueue' = <<>> /\ mTotalBytesStored' = 0
      BY <1>8 DEF Memory!ReadOnlyBlock, Memory!ReadAllOneBlock
    <2>2. Head(mQueue) \in Seq(Byte) /\ mQueue = <<Head(mQueue)>>
      BY <1>1, <2>1
    <2>3. Memory!FlattenSeq(mQueue) = Head(mQueue)
      BY <2>2, FlattenSmall
    <2>4. Head(mQueue) \o <<>> = Head(mQueue)
      BY <2>2, ConcatEmptySeq
    <2>5. Delivers(mQueue, n, Head(mQueue), <<>>)
      <3> DEFINE all == Len(Memory!FlattenSeq(mQueue))
      <3>1. Len(Head(mQueue)) = IF n < all THEN n ELSE all
        <4>1. all = Len(Head(mQueue)) /\ all \in Nat
          BY <1>2, <2>3, Zenon
        <4> HIDE DEF all
        <4> QED
          BY <2>1, <4>1
      <3> QED
        BY <1>3, <2>2, <2>3, <2>4, <3>1, Zenon DEF Delivers
    <2> QED
      BY <1>2, <1>4, <2>1, <2>3, <2>5
  <1>9. CASE Memory!ReadAcrossBlocks(n)
    <2> DEFINE k       == Memory!CompleteBlocks(n)
               front   == SubSeq(mQueue, 1, k)
               whole   == Memory!FlattenSeq(front)
               rest    == SubSeq(mQueue, k + 1, Len(mQueue))
               missing == n - Len(whole)
    <2>1. \/ /\ missing > 0 /\ rest # <<>>
             /\ mResult' = whole \o SubSeq(Head(rest), 1, missing)
             /\ mQueue' = [rest EXCEPT ![1] = Memory!Erased(rest[1], missing)]
             /\ mTotalBytesStored' = mTotalBytesStored - Len(whole) - missing
          \/ /\ missing = 0 \/ rest = <<>>
             /\ mResult' = whole /\ mQueue' = rest
             /\ mTotalBytesStored' = mTotalBytesStored - Len(whole)
      BY <1>9 DEF Memory!ReadAcrossBlocks
    <2>2. /\ k \in 0 .. Len(mQueue) /\ Len(whole) <= n
          /\ \A j \in 0 .. Len(mQueue) : Len(Memory!FlattenSeq(SubSeq(mQueue, 1, j))) <= n => k >= j
      <3> DEFINE T == {j \in 0 .. Len(mQueue) : Len(Memory!FlattenSeq(SubSeq(mQueue, 1, j))) <= n}
      <3>1. Len(mQueue) \in Nat
        BY <1>1, LenProperties
      <3>2. 0 \in T
        <4>1. SubSeq(mQueue, 1, 0) = <<>>
          BY SubSeqEmpty
        <4>2. Len(Memory!FlattenSeq(SubSeq(mQueue, 1, 0))) = 0
          BY <1>3, <4>1, Zenon
        <4> QED
          BY <3>1, <4>2
      <3>3. T \in SUBSET (0 .. Len(mQueue)) /\ T # {}
        BY <3>2
      <3>4. Memory!Max(T) \in T /\ \A j \in T : Memory!Max(T) >= j
        <4> HIDE DEF T
        <4> QED
          BY <3>1, <3>3, MaxLemma
      <3>5. k = Memory!Max(T)
        BY DEF Memory!CompleteBlocks
      <3> HIDE DEF k
      <3> QED
        BY <3>4, <3>5
    <2>3. /\ front \in Seq(Seq(Byte)) /\ rest \in Seq(Seq(Byte))
          /\ Len(rest) = Len(mQueue) - k /\ mQueue = front \o rest
      BY <1>1, <2>2, Cut
    <2>4. Len(mQueue) \in Nat /\ k \in Int
      BY <1>1, <2>2, LenProperties
    <2>5. rest # <<>> => Head(rest) = rest[1] /\ Head(rest) \in Seq(Byte) /\ n < Len(whole) + Len(Head(rest))
      <3> SUFFICES ASSUME rest # <<>>
                   PROVE  Head(rest) = rest[1] /\ Head(rest) \in Seq(Byte) /\ n < Len(whole) + Len(Head(rest))
        OBVIOUS
      <3>1. k + 1 \in 1 .. Len(mQueue) /\ k + 1 \in 0 .. Len(mQueue) /\ ~(k >= k + 1)
        <4>1. Len(rest) # 0
          <5> HIDE DEF rest
          <5> QED
            BY <2>3
        <4> HIDE DEF k, rest
        <4> QED
          BY <2>2, <2>3, <2>4, <4>1
      <3>2. Head(rest) = rest[1] /\ Head(rest) \in Seq(Byte)
        <4> HIDE DEF rest
        <4> QED
          BY <2>3, HeadTailProperties
      <3>3. Head(rest) = mQueue[k + 1]
        <4> HIDE DEF k
        <4>1. Len(mQueue) \in k + 1 .. Len(mQueue)
          BY <2>4, <3>1
        <4> QED
          BY <1>1, <3>1, <4>1, HeadTailOfSubSeq
      <3>4. SubSeq(mQueue, 1, k + 1) = front \o <<Head(rest)>>
        <4> HIDE DEF rest
        <4> SUFFICES SubSeq(mQueue, 1, k + 1) = SubSeq(mQueue, 1, k) \o <<mQueue[k + 1]>>
          BY <3>3
        <4> HIDE DEF k
        <4> DEFINE j == k + 1
        <4>1. j \in 1 .. Len(mQueue) /\ j - 1 = k
          BY <2>4, <3>1
        <4> HIDE DEF j
        <4>2. SubSeq(mQueue, 1, j) = SubSeq(mQueue, 1, j - 1) \o <<mQueue[j]>>
          BY <1>1, <4>1, OneMore
        <4> QED
          BY <4>1, <4>2, Zenon DEF j
      <3> HIDE DEF rest, front, k
      <3>5. <<Head(rest)>> \in Seq(Seq(Byte)) /\ Memory!FlattenSeq(<<Head(rest)>>) = Head(rest)
        BY <3>2, FlattenSmall
      <3>6. Memory!FlattenSeq(SubSeq(mQueue, 1, k + 1)) = whole \o Head(rest) /\ whole \in Seq(Byte)
        BY <2>3, <3>4, <3>5, FlattenConcat, Zenon
      <3>7. /\ Len(whole \o Head(rest)) = Len(whole) + Len(Head(rest))
            /\ Len(whole) \in Nat /\ Len(Head(rest)) \in Nat
        <4> HIDE DEF whole
        <4> QED
          BY <3>2, <3>6, Parts
      <3>8. ~(Len(Memory!FlattenSeq(SubSeq(mQueue, 1, k + 1))) <= n)
        BY <2>2, <3>1
      <3> QED
        BY <3>2, <3>6, <3>7, <3>8
    <2> HIDE DEF front, rest, k
    <2>6. /\ whole \in Seq(Byte) /\ Memory!FlattenSeq(rest) \in Seq(Byte)
          /\ Len(whole) \in Nat /\ missing \in Nat /\ n = Len(whole) + missing
      <3>1. whole \in Seq(Byte) /\ Memory!FlattenSeq(rest) \in Seq(Byte)
        BY <2>3, FlattenConcat
      <3> HIDE DEF whole
      <3>2. Len(whole) \in Nat
        BY <3>1, LenProperties
      <3> QED
        BY <2>2, <3>1, <3>2
    <2>7. CASE /\ missing > 0 /\ rest # <<>>
               /\ mResult' = whole \o SubSeq(Head(rest), 1, missing)
               /\ mQueue' = [rest EXCEPT ![1] = Memory!Erased(rest[1], missing)]
               /\ mTotalBytesStored' = mTotalBytesStored - Len(whole) - missing
      <3> DEFINE got == SubSeq(Head(rest), 1, missing)
                 left == [rest EXCEPT ![1] = Memory!Erased(Head(rest), missing)]
      <3>1. missing <= Len(Head(rest))
        <4>1. Len(Head(rest)) \in Nat
          BY <2>5, <2>7, LenProperties
        <4> HIDE DEF whole
        <4> QED
          BY <2>5, <2>6, <2>7, <4>1
      <3>2. Len(got) = missing /\ Delivers(rest, missing, got, left)
        <4> HIDE DEF missing
        <4> QED
          BY <2>3, <2>6, <2>7, <3>1, PartialBlock
      <3>3. mResult' = whole \o got /\ mQueue' = left
        BY <2>5, <2>7
      <3> HIDE DEF missing, got, left
      <3>4. /\ Len(whole \o got) = Len(whole) + Len(got)
            /\ Delivers(front \o rest, n, whole \o got, left)
        BY <2>3, <2>6, <3>2, WholeThenPart
      <3> QED
        <4>1. mTotalBytesStored' = mTotalBytesStored - Len(mResult')
          <5>1. Len(mResult') = Len(whole) + missing
            BY <3>2, <3>3, <3>4, Zenon
          <5> HIDE DEF whole
          <5> QED
            BY <1>1, <2>6, <2>7, <5>1
        <4>2. Delivers(mQueue, n, mResult', mQueue')
          BY <2>3, <3>3, <3>4, Zenon
        <4> QED
          BY <1>4, <4>1, <4>2
    <2>8. CASE /\ missing = 0 \/ rest = <<>>
               /\ mResult' = whole /\ mQueue' = rest
               /\ mTotalBytesStored' = mTotalBytesStored - Len(whole)
      <3>1. Delivers(rest, missing, <<>>, rest)
        <4>1. <<>> \o Memory!FlattenSeq(rest) = Memory!FlattenSeq(rest)
          BY <2>6, ConcatEmptySeq
        <4>2. Len(Memory!FlattenSeq(rest)) \in Nat
          BY <2>6, LenProperties
        <4>3. 0 = IF missing < Len(Memory!FlattenSeq(rest)) THEN missing ELSE Len(Memory!FlattenSeq(rest))
          <5> HIDE DEF missing
          <5>1. CASE missing = 0
            BY <2>6, <4>2, <5>1
          <5>2. CASE rest = <<>>
            BY <1>3, <2>6, <5>2
          <5> QED
            BY <2>8, <5>1, <5>2
        <4> HIDE DEF missing
        <4> QED
          BY <1>3, <2>3, <2>6, <4>1, <4>3 DEF Delivers
      <3>2. whole \o <<>> = whole
        BY <2>6, ConcatEmptySeq
      <3> HIDE DEF missing
      <3>3. Delivers(front \o rest, n, whole \o <<>>, rest)
        BY <2>3, <2>6, <3>1, WholeThenPart
      <3> QED
        BY <1>4, <2>3, <2>8, <3>2, <3>3
    <2> QED
      BY <2>1, <2>7, <2>8
  <1> QED
    BY <1>5, <1>6, <1>7, <1>8, <1>9 DEF Memory!Read

(* readAll() delivers all there is, from one block or from several. *)
LEMMA ReadAllDelivers ==
    ASSUME Memory!TypeOK, Memory!TotalBytesStoredExact, Memory!ReadAll
    PROVE  /\ Len(Memory!Contents) \in Nat
           /\ Delivers(mQueue, Len(Memory!Contents), mResult', mQueue')
           /\ mTotalBytesStored' = mTotalBytesStored - Len(mResult')
           /\ mWritten' = mWritten
  <1> DEFINE all == Memory!FlattenSeq(mQueue)
  <1>1. mQueue \in Seq(Seq(Byte)) /\ mTotalBytesStored \in Int
    BY DEF Memory!TypeOK, Byte
  <1>2. all \in Seq(Byte) /\ mTotalBytesStored = Len(all) /\ Len(all) \in Nat
    BY <1>1, FlattenConcat, LenProperties DEF Memory!TotalBytesStoredExact, Memory!Contents
  <1>3. /\ <<>> \in Seq(Byte) /\ <<>> \in Seq(Seq(Byte)) /\ Memory!FlattenSeq(<<>>) = <<>>
        /\ all \o <<>> = all
    BY <1>2, EmptySeq, FlattenSmall, ConcatEmptySeq
  <1>4. mResult' = all /\ mQueue' = <<>>
    <2>1. CASE Memory!ReadAllOneBlock
      <3>1. /\ Len(mQueue) = 1 /\ mResult' = Head(mQueue) /\ mQueue' = <<>>
        BY <2>1 DEF Memory!ReadAllOneBlock
      <3>2. Head(mQueue) \in Seq(Byte) /\ mQueue = <<Head(mQueue)>>
        BY <1>1, <3>1
      <3>3. Memory!FlattenSeq(mQueue) = Head(mQueue)
        BY <3>2, FlattenSmall
      <3> QED
        BY <3>1, <3>3
    <2>2. CASE Memory!ReadAllBlocks
      BY <2>2 DEF Memory!ReadAllBlocks, Memory!Contents
    <2> QED
      BY <2>1, <2>2 DEF Memory!ReadAll
  <1>5. mTotalBytesStored' = mTotalBytesStored - Len(all)
    BY <1>2, <1>4 DEF Memory!ReadAll, Memory!ReadAllOneBlock, Memory!ReadAllBlocks, Memory!Contents
  <1>6. Delivers(mQueue, Len(all), all, <<>>)
    <2>1. Len(all) = IF Len(all) < Len(all) THEN Len(all) ELSE Len(all)
      OBVIOUS
    <2> QED
      BY <1>2, <1>3, <2>1, Zenon DEF Delivers
  <1>7. mWritten' = mWritten
    BY DEF Memory!ReadAll
  <1> QED
    BY <1>2, <1>4, <1>5, <1>6, <1>7, Zenon DEF Memory!Contents

(* What is delivered is the answer of the abstract stream. *)
LEMMA DeliveryIsStreamRead ==
    ASSUME NEW n \in Nat, Delivers(mQueue, n, mResult', mQueue'), mWritten' = mWritten
    PROVE  Memory!Stream!StreamRead(n)
  <1> DEFINE x == mResult'
             y == Memory!FlattenSeq(mQueue')
             s == Memory!FlattenSeq(mQueue)
             got == IF n < Len(s) THEN n ELSE Len(s)
  <1>1. x \in Seq(Byte) /\ y \in Seq(Byte) /\ s = x \o y /\ Len(x) = got
    BY Zenon DEF Delivers
  <1>2. x = SubSeq(x \o y, 1, Len(x)) /\ y = SubSeq(x \o y, Len(x) + 1, Len(x \o y))
    <2> HIDE DEF x, y
    <2> QED
      BY <1>1, Parts
  <1>3. x = SubSeq(s, 1, got) /\ y = SubSeq(s, got + 1, Len(s))
    BY <1>1, <1>2, Zenon
  <1> QED
    BY <1>3, Zenon DEF Memory!Stream!StreamRead, Memory!Contents

(* The count is the number of bytes stored, which is not above the number  *)
(* of bytes written: this bounds every block and every result.             *)
MemoryIInv ==
    /\ Memory!TypeOK
    /\ Memory!TotalBytesStoredExact
    /\ mTotalBytesStored <= mWritten

(* A delivery keeps the invariant. *)
LEMMA DeliveryKeepsMemoryIInv ==
    ASSUME Memory!MemoryAssumption, MemoryIInv, NEW n \in Nat,
           Delivers(mQueue, n, mResult', mQueue'), mWritten' = mWritten,
           mTotalBytesStored' = mTotalBytesStored - Len(mResult')
    PROVE  MemoryIInv'
  <1> DEFINE x == mResult'
             y == Memory!FlattenSeq(mQueue')
             s == Memory!FlattenSeq(mQueue)
  <1>1. x \in Seq(Byte) /\ y \in Seq(Byte) /\ s = x \o y /\ mQueue' \in Seq(Seq(Byte))
    BY Zenon DEF Delivers
  <1>2. Len(x \o y) = Len(x) + Len(y) /\ Len(x) \in Nat /\ Len(y) \in Nat
    <2> HIDE DEF x, y
    <2> QED
      BY <1>1, Parts
  <1>3. mTotalBytesStored = Len(x) + Len(y)
    BY <1>1, <1>2, Zenon DEF MemoryIInv, Memory!TotalBytesStoredExact, Memory!Contents
  <1>4. MaxBytes \in Nat /\ mWritten \in 0 .. MaxBytes /\ mTotalBytesStored <= mWritten
    BY DEF Memory!MemoryAssumption, MemoryIInv, Memory!TypeOK
  <1> HIDE DEF x, y
  <1>5. mTotalBytesStored' = Len(y) /\ Len(y) <= mWritten /\ Len(y) \in 0 .. MaxBytes
    <2>1. mTotalBytesStored' = mTotalBytesStored - Len(x)
      BY DEF x
    <2> QED
      BY <1>2, <1>3, <1>4, <2>1
  <1> QED
    BY <1>1, <1>4, <1>5 DEF MemoryIInv, Memory!TypeOK, Memory!TotalBytesStoredExact, Memory!Contents, Byte, x, y

(* A write appends its bytes to the contents. *)
LEMMA WriteAppends ==
    ASSUME Memory!MemoryAssumption, MemoryIInv, NEW n \in 0 .. MaxBytes, Memory!Write(n)
    PROVE  MemoryIInv' /\ Memory!Stream!StreamWrite(n)
  <1> DEFINE chunk == [i \in 1 .. n |-> mWritten + i]
             s == Memory!FlattenSeq(mQueue)
  <1>1. /\ mWritten + n <= MaxBytes /\ mTotalBytesStored' = mTotalBytesStored + n
        /\ mQueue' = Append(mQueue, chunk) /\ mWritten' = mWritten + n /\ mResult' = <<>>
    BY DEF Memory!Write
  <1>2. /\ mQueue \in Seq(Seq(Byte)) /\ mWritten \in 0 .. MaxBytes /\ MaxBytes \in Nat
        /\ mTotalBytesStored \in 0 .. MaxBytes /\ mTotalBytesStored <= mWritten
    BY DEF MemoryIInv, Memory!TypeOK, Byte, Memory!MemoryAssumption
  <1>3. chunk \in Seq(Byte) /\ Len(chunk) = n
    <2>1. \A i \in 1 .. n : mWritten + i \in Byte
      BY <1>1, <1>2 DEF Byte
    <2> QED
      BY <2>1
  <1> HIDE DEF chunk
  <1>4. <<chunk>> \in Seq(Seq(Byte)) /\ Memory!FlattenSeq(<<chunk>>) = chunk
    BY <1>3, FlattenSmall
  <1>5. mQueue' = mQueue \o <<chunk>>
    BY <1>1, <1>2, <1>3, AppendIsConcat
  <1>6. s \in Seq(Byte) /\ Memory!FlattenSeq(mQueue') = s \o chunk /\ mQueue' \in Seq(Seq(Byte))
    BY <1>2, <1>4, <1>5, FlattenConcat, Zenon
  <1>7. mTotalBytesStored = Len(s)
    BY DEF MemoryIInv, Memory!TotalBytesStoredExact, Memory!Contents
  <1>8. Len(Memory!FlattenSeq(mQueue')) = mTotalBytesStored + n
    <2> HIDE DEF s
    <2>1. Len(s \o chunk) = Len(s) + Len(chunk)
      BY <1>3, <1>6, ConcatProperties
    <2> QED
      BY <1>3, <1>6, <1>7, <2>1, Zenon
  <1>9. MemoryIInv'
    <2>1. /\ mWritten + n \in 0 .. MaxBytes /\ mTotalBytesStored + n \in 0 .. MaxBytes
          /\ mTotalBytesStored + n <= mWritten + n
      BY <1>1, <1>2
    <2>2. <<>> \in Seq(Byte)
      BY EmptySeq
    <2> QED
      BY <1>1, <1>6, <1>8, <2>1, <2>2, Zenon DEF MemoryIInv, Memory!TypeOK, Memory!TotalBytesStoredExact, Memory!Contents, Byte
  <1>10. Memory!Stream!StreamWrite(n)
    BY <1>1, <1>6, Zenon DEF Memory!Stream!StreamWrite, Memory!Contents, chunk
  <1> QED
    BY <1>9, <1>10

(* The invariant is inductive. *)
LEMMA MemoryIInvInductive ==
    ASSUME Memory!MemoryAssumption
    PROVE  Memory!Spec => []MemoryIInv
  <1>1. Memory!Init => MemoryIInv
    <2> SUFFICES ASSUME Memory!Init PROVE MemoryIInv
      OBVIOUS
    <2>1. /\ Memory!FlattenSeq(<<>>) = <<>> /\ Len(<<>>) = 0 /\ <<>> \in Seq(Byte)
          /\ <<>> \in Seq(Seq(Byte))
      BY EmptySeq, FlattenSmall
    <2>2. 0 \in 0 .. MaxBytes /\ 0 <= 0
      BY DEF Memory!MemoryAssumption
    <2> QED
      BY <2>1, <2>2, Zenon DEF Memory!Init, MemoryIInv, Memory!TypeOK, Memory!TotalBytesStoredExact, Memory!Contents, Byte
  <1>2. MemoryIInv /\ [Memory!Next]_(Memory!vars) => MemoryIInv'
    <2> SUFFICES ASSUME MemoryIInv, [Memory!Next]_(Memory!vars) PROVE MemoryIInv'
      OBVIOUS
    <2>1. ASSUME NEW n \in 0 .. MaxBytes, Memory!Write(n) PROVE MemoryIInv'
      BY <2>1, WriteAppends
    <2>2. ASSUME NEW n \in 0 .. MaxRequest, Memory!Read(n) PROVE MemoryIInv'
      <3>1. n \in Nat
        BY DEF Memory!MemoryAssumption
      <3>2. Memory!TypeOK /\ Memory!TotalBytesStoredExact
        BY DEF MemoryIInv
      <3>3. /\ Delivers(mQueue, n, mResult', mQueue')
            /\ mTotalBytesStored' = mTotalBytesStored - Len(mResult')
            /\ mWritten' = mWritten
        BY <2>2, <3>1, <3>2, ReadDelivers
      <3> QED
        BY <3>1, <3>3, DeliveryKeepsMemoryIInv
    <2>3. CASE Memory!ReadAll
      <3>1. Memory!TypeOK /\ Memory!TotalBytesStoredExact
        BY DEF MemoryIInv
      <3>2. /\ Len(Memory!Contents) \in Nat /\ Delivers(mQueue, Len(Memory!Contents), mResult', mQueue')
            /\ mTotalBytesStored' = mTotalBytesStored - Len(mResult')
            /\ mWritten' = mWritten
        BY <2>3, <3>1, ReadAllDelivers
      <3> QED
        BY <3>2, DeliveryKeepsMemoryIInv
    <2>4. CASE UNCHANGED Memory!vars
      BY <2>4 DEF Memory!vars, MemoryIInv, Memory!TypeOK, Memory!TotalBytesStoredExact, Memory!Contents
    <2> QED
      BY <2>1, <2>2, <2>3, <2>4 DEF Memory!Next
  <1> QED
    BY <1>1, <1>2, PTL DEF Memory!Spec

(* _totalBytesStored is exactly the number of bytes in the queue, and      *)
(* the state is well typed, whatever is written and read.                  *)
THEOREM CountExact ==
    ASSUME Memory!MemoryAssumption
    PROVE  Memory!Spec => [](Memory!TypeOK /\ Memory!TotalBytesStoredExact)
  <1>1. MemoryIInv => Memory!TypeOK /\ Memory!TotalBytesStoredExact
    BY DEF MemoryIInv
  <1> QED
    BY <1>1, MemoryIInvInductive, PTL

(* The queue of blocks is a first-in first-out stream of bytes: write(),   *)
(* read() and readAll() are its operations, for any number of bytes and    *)
(* blocks and all sizes of requests.                                       *)
THEOREM QueueIsStream ==
    ASSUME Memory!MemoryAssumption
    PROVE  Memory!Spec => Memory!RefinesByteStream
  <1>1. Memory!Init => Memory!Stream!StreamInit
    BY FlattenSmall DEF Memory!Init, Memory!Stream!StreamInit, Memory!Contents
  <1>2. MemoryIInv /\ [Memory!Next]_(Memory!vars) => [Memory!Stream!StreamNext]_(Memory!Stream!streamVars)
    <2> SUFFICES ASSUME MemoryIInv, [Memory!Next]_(Memory!vars)
                 PROVE  Memory!Stream!StreamNext \/ UNCHANGED Memory!Stream!streamVars
      OBVIOUS
    <2>1. ASSUME NEW n \in 0 .. MaxBytes, Memory!Write(n) PROVE Memory!Stream!StreamNext
      <3>1. Memory!Stream!StreamWrite(n)
        BY <2>1, WriteAppends
      <3> QED
        BY <3>1 DEF Memory!Stream!StreamNext
    <2>2. ASSUME NEW n \in 0 .. MaxRequest, Memory!Read(n) PROVE Memory!Stream!StreamNext
      <3>1. n \in Nat /\ MaxBytes \in Nat
        BY DEF Memory!MemoryAssumption
      <3>2. Memory!TypeOK /\ Memory!TotalBytesStoredExact /\ mTotalBytesStored \in 0 .. MaxBytes
        BY DEF MemoryIInv, Memory!TypeOK
      <3>3. Delivers(mQueue, n, mResult', mQueue') /\ mWritten' = mWritten
        BY <2>2, <3>1, <3>2, ReadDelivers
      <3>4. CASE n <= MaxBytes
        <4>1. n \in 0 .. MaxBytes
          BY <3>1, <3>4
        <4>2. Memory!Stream!StreamRead(n)
          BY <3>1, <3>3, DeliveryIsStreamRead
        <4> QED
          BY <4>1, <4>2 DEF Memory!Stream!StreamNext
      <3>5. CASE ~(n <= MaxBytes)
        <4> DEFINE all == Len(Memory!FlattenSeq(mQueue))
        <4>1. all \in Nat /\ ~(n < all) /\ all = Len(Memory!Contents)
          <5>1. all = mTotalBytesStored /\ all = Len(Memory!Contents)
            BY <3>2 DEF Memory!TotalBytesStoredExact, Memory!Contents
          <5> HIDE DEF all
          <5> QED
            BY <3>1, <3>2, <3>5, <5>1
        <4>2. Delivers(mQueue, all, mResult', mQueue')
          BY <3>3, <4>1, Zenon DEF Delivers
        <4>3. Memory!Stream!StreamRead(all)
          <5> HIDE DEF all
          <5> QED
            BY <3>3, <4>1, <4>2, DeliveryIsStreamRead
        <4> QED
          BY <4>1, <4>3, Zenon DEF Memory!Stream!StreamNext, Memory!Stream!StreamReadAll
      <3> QED
        BY <3>4, <3>5
    <2>3. CASE Memory!ReadAll
      <3>1. Memory!TypeOK /\ Memory!TotalBytesStoredExact
        BY DEF MemoryIInv
      <3>2. /\ Len(Memory!Contents) \in Nat /\ mWritten' = mWritten
            /\ Delivers(mQueue, Len(Memory!Contents), mResult', mQueue')
        BY <2>3, <3>1, ReadAllDelivers
      <3>3. Memory!Stream!StreamRead(Len(Memory!Contents))
        BY <3>2, DeliveryIsStreamRead
      <3> QED
        BY <3>3, Zenon DEF Memory!Stream!StreamNext, Memory!Stream!StreamReadAll
    <2>4. CASE UNCHANGED Memory!vars
      BY <2>4 DEF Memory!vars, Memory!Stream!streamVars, Memory!Contents
    <2> QED
      BY <2>1, <2>2, <2>3, <2>4 DEF Memory!Next
  <1> QED
    BY <1>1, <1>2, MemoryIInvInductive, PTL DEF Memory!Spec, Memory!RefinesByteStream, Memory!Stream!StreamSpec

(* A read of n bytes returns exactly what a stream returns for n: it is    *)
(* short only when the buffer runs dry, whatever the block boundaries.     *)
THEOREM ReadsExact ==
    ASSUME Memory!MemoryAssumption
    PROVE  Memory!Spec => Memory!ReadsAreStreamReads
  <1>1. MemoryIInv => \A n \in 0 .. MaxRequest : Memory!Read(n) => Memory!Stream!StreamRead(n)
    <2> SUFFICES ASSUME MemoryIInv, NEW n \in 0 .. MaxRequest, Memory!Read(n)
                 PROVE  Memory!Stream!StreamRead(n)
      OBVIOUS
    <2>1. n \in Nat /\ Memory!TypeOK /\ Memory!TotalBytesStoredExact
      BY DEF Memory!MemoryAssumption, MemoryIInv
    <2>2. Delivers(mQueue, n, mResult', mQueue') /\ mWritten' = mWritten
      BY <2>1, ReadDelivers
    <2> QED
      BY <2>1, <2>2, DeliveryIsStreamRead
  <1>2. MemoryIInv /\ [Memory!Next]_(Memory!vars) =>
            [\A n \in 0 .. MaxRequest : Memory!Read(n) => Memory!Stream!StreamRead(n)]_(Memory!vars)
    BY <1>1
  <1> QED
    BY <1>2, MemoryIInvInductive, PTL DEF Memory!Spec, Memory!ReadsAreStreamReads
-----------------------------------------------------------------------------
(***************************************************************************)
(* The builder.  Draws of random vectors are numbered, and the inductive   *)
(* invariant says that no cipher has a later draw than the last and that   *)
(* the vector kept in the builder is none of them: it is always the        *)
(* caller's own.                                                           *)
(***************************************************************************)

BuilderIInv ==
    /\ Builder!TypeOK
    /\ bIv.draw = 0
    /\ \A i \in DOMAIN bBuilt : bBuilt[i].iv.draw <= bRandomIVs
    /\ Builder!GeneratedIVUsedOnce
    /\ Builder!BuiltCiphersAreLegal

BuiltCipher ==
    [operation : Builder!Operation, iv : Builder!IVs,
     padding : Builder!SymmetricCipherPadding, authenticated : BOOLEAN,
     authTagLength : Nat]

(* A cipher that fits the mode, and whose vector is either the caller's or *)
(* a new draw, may be added to the ciphers built.                          *)
LEMMA ConstructKeeps ==
    ASSUME BuilderIInv, NEW c \in BuiltCipher, bBuilt' = Append(bBuilt, c),
           UNCHANGED <<bMode, bKeySizeOk, bIv, bPadding, bAuthTagLength>>,
           \/ c.iv.draw = 0 /\ bRandomIVs' = bRandomIVs
           \/ c.iv.draw = bRandomIVs + 1 /\ bRandomIVs' = bRandomIVs + 1,
           bKeySizeOk, c.iv.len > 0, bMode # "GCM" => c.iv.len = 16,
           c.authenticated <=> bMode = "GCM",
           c.operation = "Decryption" =>
               /\ c.iv.draw = 0
               /\ c.authenticated => c.authTagLength = Builder!DefaultAuthTagLength
    PROVE  BuilderIInv'
  <1>1. bBuilt \in Seq(BuiltCipher) /\ bRandomIVs \in Nat
    BY DEF BuilderIInv, Builder!TypeOK, BuiltCipher
  <1>2. /\ bBuilt' \in Seq(BuiltCipher) /\ Len(bBuilt') = Len(bBuilt) + 1
        /\ \A i \in 1 .. Len(bBuilt) : bBuilt'[i] = bBuilt[i]
        /\ bBuilt'[Len(bBuilt) + 1] = c
        /\ DOMAIN bBuilt = 1 .. Len(bBuilt) /\ DOMAIN bBuilt' = 1 .. Len(bBuilt')
        /\ Len(bBuilt) \in Nat
    BY <1>1, AppendProperties
  <1>3. \A i \in DOMAIN bBuilt' : i \in DOMAIN bBuilt \/ i = Len(bBuilt) + 1
    BY <1>2
  <1>4. \A i \in DOMAIN bBuilt : bBuilt[i].iv.draw \in Nat /\ bBuilt[i].iv.draw <= bRandomIVs
    <2> TAKE i \in DOMAIN bBuilt
    <2>1. bBuilt[i] \in BuiltCipher
      BY <1>1, <1>2, ElementOfSeq
    <2> QED
      BY <2>1 DEF BuilderIInv, BuiltCipher, Builder!IVs
  <1>5. c.iv.draw \in Nat
    BY DEF BuiltCipher, Builder!IVs
  <1>6. Builder!TypeOK'
    <2>1. bRandomIVs' \in Nat
      BY <1>1
    <2> QED
      BY <1>2, <2>1 DEF BuilderIInv, Builder!TypeOK, BuiltCipher
  <1>7. bIv'.draw = 0
    BY DEF BuilderIInv
  <1>8. ASSUME NEW i \in DOMAIN bBuilt' PROVE bBuilt'[i].iv.draw <= bRandomIVs'
    <2>1. CASE i \in DOMAIN bBuilt
      <3>1. bBuilt'[i] = bBuilt[i]
        BY <1>2, <2>1
      <3> QED
        BY <1>1, <1>4, <2>1, <3>1
    <2>2. CASE i = Len(bBuilt) + 1
      BY <1>1, <1>2, <2>2
    <2> QED
      BY <1>3, <2>1, <2>2
  <1>9. ASSUME NEW i \in DOMAIN bBuilt', NEW j \in DOMAIN bBuilt', i # j,
               bBuilt'[i].iv.draw # 0
        PROVE  bBuilt'[i].iv # bBuilt'[j].iv
    <2>1. CASE i \in DOMAIN bBuilt /\ j \in DOMAIN bBuilt
      <3>1. bBuilt'[i] = bBuilt[i] /\ bBuilt'[j] = bBuilt[j]
        BY <1>2, <2>1
      <3> QED
        BY <1>9, <2>1, <3>1 DEF BuilderIInv, Builder!GeneratedIVUsedOnce
    <2>2. CASE i = Len(bBuilt) + 1 /\ j \in DOMAIN bBuilt
      <3>1. bBuilt'[i] = c /\ bBuilt'[j] = bBuilt[j]
        BY <1>2, <2>2
      <3>2. c.iv.draw # bBuilt[j].iv.draw
        BY <1>1, <1>4, <1>9, <2>2, <3>1
      <3> QED
        BY <3>1, <3>2
    <2>3. CASE i \in DOMAIN bBuilt /\ j = Len(bBuilt) + 1
      <3>1. bBuilt'[j] = c /\ bBuilt'[i] = bBuilt[i]
        BY <1>2, <2>3
      <3>2. c.iv.draw # bBuilt[i].iv.draw
        BY <1>1, <1>4, <1>9, <2>3, <3>1
      <3> QED
        BY <3>1, <3>2
    <2> QED
      BY <1>3, <1>9, <2>1, <2>2, <2>3
  <1>10. ASSUME NEW i \in DOMAIN bBuilt'
         PROVE  LET d == bBuilt'[i] IN
                  /\ bKeySizeOk'
                  /\ d.iv.len > 0 /\ (bMode' # "GCM" => d.iv.len = 16)
                  /\ d.authenticated <=> bMode' = "GCM"
                  /\ d.operation = "Decryption" =>
                        /\ d.iv.draw = 0
                        /\ d.authenticated => d.authTagLength = Builder!DefaultAuthTagLength
    <2>1. CASE i \in DOMAIN bBuilt
      <3>1. bBuilt'[i] = bBuilt[i]
        BY <1>2, <2>1
      <3> QED
        BY <2>1, <3>1 DEF BuilderIInv, Builder!BuiltCiphersAreLegal
    <2>2. CASE i = Len(bBuilt) + 1
      <3>1. bBuilt'[i] = c
        BY <1>2, <2>2
      <3> QED
        BY <3>1
    <2> QED
      BY <1>3, <2>1, <2>2
  <1> QED
    BY <1>6, <1>7, <1>8, <1>9, <1>10
       DEF BuilderIInv, Builder!GeneratedIVUsedOnce, Builder!BuiltCiphersAreLegal

(* A build of an encryptor keeps the invariant: its vector is the caller's *)
(* or the next draw.                                                       *)
LEMMA EncryptorKeeps ==
    ASSUME BuilderIInv, NEW authenticated \in BOOLEAN,
           authenticated <=> bMode = "GCM",
           Builder!BuildForEncryption(authenticated),
           UNCHANGED <<bMode, bKeySizeOk>>
    PROVE  BuilderIInv'
  <1>1. /\ bMode \in Builder!SymmetricCipherMode /\ bIv \in Builder!IVs /\ bIv.draw = 0
        /\ bPadding \in Builder!SymmetricCipherPadding /\ bAuthTagLength \in Nat
        /\ bRandomIVs \in Nat
        /\ UNCHANGED <<bMode, bKeySizeOk, bIv, bPadding, bAuthTagLength>>
    BY DEF BuilderIInv, Builder!TypeOK, Builder!BuildForEncryption, Builder!settings
  <1>2. ASSUME NEW theIV \in Builder!IVs,
               \/ theIV.draw = 0 /\ bRandomIVs' = bRandomIVs
               \/ theIV.draw = bRandomIVs + 1 /\ bRandomIVs' = bRandomIVs + 1,
               Builder!Construct("Encryption", theIV, authenticated)
        PROVE  BuilderIInv'
    <2> DEFINE c == [operation |-> "Encryption", iv |-> theIV,
                     padding |-> bPadding, authenticated |-> authenticated,
                     authTagLength |-> bAuthTagLength]
    <2>1. bBuilt' = Append(bBuilt, c)
      BY <1>2 DEF Builder!Construct
    <2>2. c \in BuiltCipher
      BY <1>1 DEF BuiltCipher, Builder!Operation
    <2>3. bKeySizeOk /\ theIV.len > 0 /\ (bMode # "GCM" => theIV.len = 16)
      BY <1>1, <1>2 DEF Builder!Construct, Builder!ConstructorOk, Builder!SymmetricCipherMode,
                        Builder!IVs, Builder!getDefaultIVLength
    <2>4. c.iv = theIV /\ c.authenticated = authenticated /\ c.operation = "Encryption"
      OBVIOUS
    <2> HIDE DEF c
    <2> QED
      BY <1>1, <1>2, <2>1, <2>2, <2>3, <2>4, ConstructKeeps
  <1> DEFINE newIV == Builder!IV(Builder!getDefaultIVLength(bMode), bRandomIVs + 1)
  <1>3. CASE /\ bIv.len = 0 /\ bRandomIVs' = bRandomIVs + 1
             /\ Builder!Construct("Encryption", newIV, authenticated)
    <2>1. newIV \in Builder!IVs /\ newIV.draw = bRandomIVs + 1
      BY <1>1 DEF Builder!IV, Builder!IVs, Builder!getDefaultIVLength
    <2> HIDE DEF newIV
    <2> QED
      BY <1>2, <1>3, <2>1
  <1>4. CASE /\ bIv.len # 0 /\ UNCHANGED bRandomIVs
             /\ Builder!Construct("Encryption", bIv, authenticated)
    BY <1>1, <1>2, <1>4
  <1> QED
    BY <1>3, <1>4 DEF Builder!BuildForEncryption

(* A build of a decryptor keeps the invariant: it has the caller's vector. *)
LEMMA DecryptorKeeps ==
    ASSUME BuilderIInv, NEW authenticated \in BOOLEAN,
           authenticated <=> bMode = "GCM",
           authenticated => bAuthTagLength = Builder!DefaultAuthTagLength,
           Builder!Construct("Decryption", bIv, authenticated),
           UNCHANGED <<bMode, bKeySizeOk, bIv, bPadding, bAuthTagLength, bRandomIVs>>
    PROVE  BuilderIInv'
  <1> DEFINE c == [operation |-> "Decryption", iv |-> bIv,
                   padding |-> bPadding, authenticated |-> authenticated,
                   authTagLength |-> bAuthTagLength]
  <1>1. /\ bMode \in Builder!SymmetricCipherMode /\ bIv \in Builder!IVs /\ bIv.draw = 0
        /\ bPadding \in Builder!SymmetricCipherPadding /\ bAuthTagLength \in Nat
    BY DEF BuilderIInv, Builder!TypeOK
  <1>2. bBuilt' = Append(bBuilt, c)
    BY DEF Builder!Construct
  <1>3. c \in BuiltCipher
    BY <1>1 DEF BuiltCipher, Builder!Operation
  <1>4. bKeySizeOk /\ bIv.len > 0 /\ (bMode # "GCM" => bIv.len = 16)
    BY <1>1 DEF Builder!Construct, Builder!ConstructorOk, Builder!SymmetricCipherMode,
                Builder!IVs, Builder!getDefaultIVLength
  <1>5. /\ c.iv = bIv /\ c.authenticated = authenticated
        /\ c.authTagLength = bAuthTagLength
    OBVIOUS
  <1> HIDE DEF c
  <1> QED
    BY <1>1, <1>2, <1>3, <1>4, <1>5, ConstructKeeps

(* The builder's invariant is inductive. *)
LEMMA BuilderInvariance == Builder!Spec => []BuilderIInv
  <1>1. Builder!Init => BuilderIInv
    <2> SUFFICES ASSUME Builder!Init PROVE BuilderIInv
      OBVIOUS
    <2>1. bBuilt = <<>> /\ bBuilt \in Seq(BuiltCipher) /\ DOMAIN bBuilt = {}
      BY EmptySeq DEF Builder!Init
    <2> QED
      BY <2>1 DEF Builder!Init, BuilderIInv, Builder!TypeOK, Builder!NoIV, Builder!IV, Builder!IVs,
                  Builder!SymmetricCipherPadding, Builder!DefaultAuthTagLength, BuiltCipher,
                  Builder!GeneratedIVUsedOnce, Builder!BuiltCiphersAreLegal
  <1>2. BuilderIInv /\ [Builder!Next]_(Builder!vars) => BuilderIInv'
    <2> SUFFICES ASSUME BuilderIInv, [Builder!Next]_(Builder!vars) PROVE BuilderIInv'
      OBVIOUS
    <2> USE DEF BuilderIInv, Builder!TypeOK, Builder!GeneratedIVUsedOnce,
                Builder!BuiltCiphersAreLegal
    <2>1. ASSUME NEW len \in IVLengths, Builder!SetIV(len) PROVE BuilderIInv'
      <3>1. len \in Nat
        BY SizesAssumption
      <3>2. bIv' \in Builder!IVs /\ bIv'.draw = 0
        BY <2>1, <3>1 DEF Builder!SetIV, Builder!IV, Builder!IVs
      <3> QED
        BY <2>1, <3>2 DEF Builder!SetIV
    <2>2. ASSUME NEW p \in Builder!SymmetricCipherPadding, Builder!SetPadding(p)
          PROVE  BuilderIInv'
      BY <2>2 DEF Builder!SetPadding
    <2>3. ASSUME NEW len \in BuilderTagLengths, Builder!SetAuthTagLength(len)
          PROVE  BuilderIInv'
      <3>1. len \in Nat
        BY SymmetricAssumption DEF Builder!BuilderAssumption
      <3> QED
        BY <2>3, <3>1 DEF Builder!SetAuthTagLength
    <2>4. CASE Builder!BuildEncryptor
      BY <2>4, EncryptorKeeps DEF Builder!BuildEncryptor, Builder!isAuthenticatedCipherMode
    <2>5. CASE Builder!BuildDecryptor
      BY <2>5, DecryptorKeeps DEF Builder!BuildDecryptor, Builder!isAuthenticatedCipherMode,
                                  Builder!settings
    <2>6. CASE Builder!BuildAuthenticatedEncryptor
      BY <2>6, EncryptorKeeps DEF Builder!BuildAuthenticatedEncryptor,
                                  Builder!isAuthenticatedCipherMode
    <2>7. CASE Builder!BuildAuthenticatedDecryptor
      BY <2>7, DecryptorKeeps DEF Builder!BuildAuthenticatedDecryptor,
                                  Builder!isAuthenticatedCipherMode, Builder!settings
    <2>8. CASE UNCHANGED Builder!vars
      BY <2>8 DEF Builder!vars, Builder!settings
    <2> QED
      BY <2>1, <2>2, <2>3, <2>4, <2>5, <2>6, <2>7, <2>8 DEF Builder!Next
  <1> QED
    BY <1>1, <1>2, PTL DEF Builder!Spec
-----------------------------------------------------------------------------
(* The parts together: a step of the whole is a step of one part, and the  *)
(* others stutter.                                                         *)

(* A behaviour of the whole is one of every part. *)
LEMMA PartsRun == MCSpec => Spec /\ Builder!Spec /\ Memory!Spec
  <1>1. MCInit => Init /\ Builder!Init /\ Memory!Init
    BY DEF MCInit
  <1>2. [MCNext]_mcvars => [Builder!Next]_(Builder!vars)
    BY DEF MCNext, mcvars, builderVars, Builder!vars, Builder!settings
  <1>3. [MCNext]_mcvars => [Memory!Next]_(Memory!vars)
    BY DEF MCNext, mcvars, memoryVars, Memory!vars
  <1>4. [MCNext]_mcvars => [Next]_vars
    BY DEF MCNext, mcvars
  <1> QED
    BY <1>1, <1>2, <1>3, <1>4, PTL DEF MCSpec, Spec, Builder!Spec, Memory!Spec

(* AESCipherBuilder: whatever order of setters and builds, no two ciphers  *)
(* start from one generated vector, and every cipher that the constructor  *)
(* let through has a vector and a tag length its mode can run with.        *)
THEOREM BuiltCiphersSound == MCSpec => []BuiltCiphersAreSound
  <1>1. BuilderIInv => BuiltCiphersAreSound
    BY DEF BuilderIInv, BuiltCiphersAreSound
  <1> QED
    BY <1>1, PartsRun, BuilderInvariance, PTL

(* QueueOfVectorsMemoryStrategy: the queue of blocks is a stream of bytes  *)
(* whose reads are those of the stream, and _totalBytesStored is the       *)
(* number of bytes in it.                                                  *)
THEOREM QueueOfBlocksIsStream == MCSpec => RefinesByteStream
  <1>1. Memory!MemoryAssumption
    BY SymmetricAssumption
  <1>2. Memory!Spec => [](Memory!TypeOK /\ Memory!TotalBytesStoredExact)
    BY <1>1, CountExact
  <1>3. Memory!Spec => Memory!RefinesByteStream
    BY <1>1, QueueIsStream
  <1>4. Memory!Spec => Memory!ReadsAreStreamReads
    BY <1>1, ReadsExact
  <1> QED
    BY <1>2, <1>3, <1>4, PartsRun DEF RefinesByteStream
=============================================================================
