----------------------------- MODULE AESCipher -----------------------------
(***************************************************************************)
(* One AES cipher (symmetric_crypto.cpp) used through its whole interface  *)
(* in any order.  A decryptor is fed the ciphertext of a peer, in chunks   *)
(* of any size, genuine or not.  A call that throws without having changed *)
(* anything is a stuttering step; the throws that leave something behind   *)
(* are actions.                                                            *)
(***************************************************************************)
EXTENDS AESCipherImpl, FiniteSets

CONSTANTS
    ChunkSizes,     \* sizes of the messages given to update()
    AadSizes,       \* sizes of the associated data
    ReadSizes,      \* sizes asked of read()
    TagLengths,     \* tag lengths the caller asks for or supplies
    IVLengths,      \* IV lengths the caller configures
    PeerLengths,    \* plaintext lengths of the encrypting peer
    MaxData,        \* bound: input bytes of one cipher
    MaxAad          \* bound: associated data given to one cipher

ASSUME SizesAssumption ==
    /\ ChunkSizes \subseteq Nat /\ AadSizes \subseteq Nat /\ ReadSizes \subseteq Nat
    /\ TagLengths \subseteq Nat /\ IVLengths \subseteq Nat /\ PeerLengths \subseteq Nat
    /\ MaxData \in Nat /\ MaxAad \in Nat

VARIABLES
    cipher,         \* the AESCipher::Impl object
    peer,           \* plaintext and associated data length of the peer's message
    delivered,      \* bytes handed to the caller by read, readAll and finish
    aadGiven,       \* bytes of associated data the caller passed
    tagReplaced     \* setAuthTag() was called after the cipher was built

vars == <<cipher, peer, delivered, aadGiven, tagReplaced>>

(* The ciphers AESCipherBuilder can hand out.  Only an authenticated       *)
(* encryptor has a tag length of its own: buildAuthenticatedDecryptor()    *)
(* insists on the default and the other ciphers never read the member.     *)
Buildable(mode, op, ivLen, tagLength) ==
    /\ ConstructorOk(mode, TRUE, ivLen)
    /\ (mode # "GCM" \/ op = "Decryption") => tagLength = DefaultAuthTagLength

PeerMessages == [plain : PeerLengths, aad : AadSizes]
NoPeer == [plain |-> 0, aad |-> 0]

Init ==
    /\ \E mode \in SymmetricCipherMode, op \in Operation,
          padding \in SymmetricCipherPadding, ivLen \in IVLengths,
          tagLength \in TagLengths, mismatch \in BOOLEAN :
            /\ Buildable(mode, op, ivLen, tagLength)
            /\ op = "Encryption" => ~mismatch
            /\ cipher = NewCipher(mode, op, padding, ivLen, tagLength, mismatch)
            /\ IF op = "Encryption" THEN peer = NoPeer ELSE peer \in PeerMessages
    /\ delivered = 0
    /\ aadGiven = 0
    /\ tagReplaced = FALSE

(* What an encryptor is given is its own message. *)
GenuineChoices == IF cipher.operation = "Encryption" THEN {TRUE} ELSE BOOLEAN

Update(n, genuine) ==
    /\ cipher.evp.nIn + n <= MaxData
    /\ UpdateOk(cipher, n)
    /\ cipher' = Updated(cipher, n, genuine)
    /\ UNCHANGED <<peer, delivered, aadGiven, tagReplaced>>

AddAssociatedData(n, genuine) ==
    /\ isAuthenticatedCipherMode(cipher.mode)
    /\ aadGiven + n <= MaxAad
    /\ AddAssociatedDataOk(cipher, n)
    /\ cipher' = AssociatedDataAdded(cipher, n, genuine)
    /\ aadGiven' = aadGiven + n
    /\ UNCHANGED <<peer, delivered, tagReplaced>>

AddNullAssociatedData ==
    /\ isAuthenticatedCipherMode(cipher.mode)
    /\ AddNullOk(cipher)
    /\ cipher' = NullAdded(cipher)
    /\ UNCHANGED <<peer, delivered, aadGiven, tagReplaced>>

Read(n) ==
    /\ cipher' = ReadFrom(cipher, n)
    /\ delivered' = delivered + ReadSize(cipher, n)
    /\ UNCHANGED <<peer, aadGiven, tagReplaced>>

ReadAll == Read(cipher.buffered)

(* The peer's own tag, possibly truncated, or some other tag. *)
SuppliedTags ==
    {Tag(len, "genuine", CipherLength(cipher.mode, cipher.padding, peer.plain), peer.aad) :
        len \in TagLengths} \cup {Tag(len, "other", 0, 0) : len \in TagLengths}

SetAuthTag(tag) ==
    /\ isAuthenticatedCipherMode(cipher.mode)
    /\ cipher' = AuthTagSet(cipher, tag)
    /\ tagReplaced' = TRUE
    /\ UNCHANGED <<peer, delivered, aadGiven>>

(* The padding that decryption uncovers: the peer's when everything fed is *)
(* the peer's whole ciphertext, else whatever the last block happens to    *)
(* decrypt to.                                                             *)
FedPeerCiphertext ==
    /\ ~cipher.evp.mismatch
    /\ cipher.evp.nIn = CipherLength(cipher.mode, cipher.padding, peer.plain)

PaddingFound ==
    IF FedPeerCiphertext
    THEN {CipherLength(cipher.mode, cipher.padding, peer.plain) - peer.plain}
    ELSE 0 .. BlockSize

Finish(pad) ==
    /\ FinishOk(cipher, pad)
    /\ cipher' = Finished(cipher, pad)
    /\ delivered' = delivered + FinishReturns(cipher, pad)
    /\ UNCHANGED <<peer, aadGiven, tagReplaced>>

FinishThrows(pad) ==
    /\ FinishReachesFinal(cipher)
    /\ ~FinalSucceeds(cipher, pad)
    /\ cipher' = FinishFailed(cipher)
    /\ UNCHANGED <<peer, delivered, aadGiven, tagReplaced>>

FinishThrowsWithoutTag ==
    /\ FinishReachesFinal(cipher)
    /\ FinalSucceeds(cipher, 0)
    /\ ~TagAvailable(cipher)
    /\ cipher' = FinishWithoutTag(cipher)
    /\ UNCHANGED <<peer, delivered, aadGiven, tagReplaced>>

Next ==
    \/ \E genuine \in GenuineChoices :
        \/ \E n \in ChunkSizes : Update(n, genuine)
        \/ \E n \in AadSizes : AddAssociatedData(n, genuine)
    \/ AddNullAssociatedData
    \/ \E n \in ReadSizes : Read(n)
    \/ ReadAll
    \/ \E tag \in SuppliedTags : SetAuthTag(tag)
    \/ \E pad \in PaddingFound : Finish(pad) \/ FinishThrows(pad)
    \/ FinishThrowsWithoutTag

Spec == Init /\ [][Next]_vars
-----------------------------------------------------------------------------
EVPContext ==
    [ivLen : Nat, aad : Nat, nIn : Nat, nOut : Nat, mismatch : BOOLEAN,
     final : {"open", "failed", "done"}]

CipherObject ==
    [mode : SymmetricCipherMode, operation : Operation,
     padding : SymmetricCipherPadding, ivLen : Nat, requestedAuthTagLength : Nat,
     authTag : [len : Nat, kind : TagKinds, data : Nat, aad : Nat],
     isFinished : BOOLEAN, isUpdated : BOOLEAN, buffered : Nat, evp : EVPContext]

(* Every member keeps its type; in particular no byte count goes negative. *)
TypeOK ==
    /\ cipher \in CipherObject
    /\ peer \in [plain : Nat, aad : Nat]
    /\ delivered \in Nat /\ aadGiven \in Nat /\ tagReplaced \in BOOLEAN

(* Through any mix of update, read, readAll and failed finish calls, every *)
(* byte the EVP context produced is either with the caller or in the       *)
(* buffer, exactly once, and the context keeps back less than a block (one *)
(* block when it has padding to remove).                                   *)
NoByteLostOrRepeated ==
    /\ delivered + cipher.buffered = cipher.evp.nOut
    /\ ~cipher.isFinished =>
          cipher.evp.nOut = cipher.evp.nIn - HeldBack(cipher, cipher.evp.nIn)

(* Once finish() has returned the caller holds the whole output, of the    *)
(* length the mode and the padding prescribe for the whole input.          *)
FinishedOutputComplete ==
    cipher.isFinished =>
        /\ cipher.buffered = 0
        /\ cipher.operation = "Encryption" =>
              delivered = CipherLength(cipher.mode, cipher.padding, cipher.evp.nIn)
        /\ cipher.operation = "Decryption" =>
              IF cipher.mode = "CBC" /\ cipher.padding = "PKCS"
              THEN delivered \in (cipher.evp.nIn - BlockSize) .. (cipher.evp.nIn - 1)
              ELSE delivered = cipher.evp.nIn
        /\ (cipher.mode = "CBC" /\ cipher.padding = "NO") =>
              cipher.evp.nIn % BlockSize = 0

(* finish() of an authenticated decryption returns only if exactly the     *)
(* peer's associated data and ciphertext were fed, and the peer's tag was  *)
(* supplied, whatever was tried before.                                    *)
FinishedDecryptionIsAuthentic ==
    (cipher.isFinished /\ cipher.mode = "GCM" /\ cipher.operation = "Decryption") =>
        /\ ~cipher.evp.mismatch
        /\ cipher.evp.nIn = peer.plain
        /\ cipher.evp.aad = peer.aad

(* Decrypting the peer's ciphertext, in whatever chunks and after whatever *)
(* premature finish() calls, yields as many bytes as the peer encrypted.   *)
RoundTrip ==
    (cipher.isFinished /\ cipher.operation = "Decryption" /\ FedPeerCiphertext)
        => delivered = peer.plain

(* The tag of a finished encryptor has the length asked for and covers all *)
(* ciphertext handed out and all associated data given.                    *)
TagCoversOutput ==
    (cipher.isFinished /\ ComputesTag(cipher) /\ ~tagReplaced) =>
        cipher.authTag = Tag(cipher.requestedAuthTagLength, "genuine", delivered, aadGiven)

(* All associated data the caller passes is authenticated. *)
AllAssociatedDataAuthenticated == cipher.evp.aad = aadGiven

(* Associated data is absorbed before any data, never after it. *)
AssociatedDataPrecedesData ==
    [][cipher'.evp.aad # cipher.evp.aad => cipher.evp.nIn = 0]_vars

(* The EVP context runs with an IV of the length the caller configured     *)
(* ("Check IV length and adjust if cipher supports it").                   *)
ConfiguredIVIsUsed == cipher.evp.ivLen = cipher.ivLen

(* The members have their types, update(), read(), readAll() and finish()  *)
(* lose and repeat no byte of the output, and when finish() has returned   *)
(* the caller has all of it.                                               *)
OutputIsRight ==
    /\ TypeOK
    /\ NoByteLostOrRepeated
    /\ FinishedOutputComplete
=============================================================================
